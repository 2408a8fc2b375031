-------------------------- MODULE SchemaMigration --------------------------
(***************************************************************************)
(* open_db (storage/db.py): every command, the daemon and the daemon's     *)
(* tasks open the one SQLite file, and each brings its schema up to date,  *)
(* with what the plug-ins add to it.                                       *)
(*                                                                         *)
(* A statement outside a transaction is committed at once: the sqlite3     *)
(* module opens no transaction for DDL.  Only the guarded call of a        *)
(* plug-in is one transaction, which holds the file's write lock.  A       *)
(* process may be killed between any two statements.                       *)
(***************************************************************************)
EXTENDS Naturals, Sequences, FiniteSets

CONSTANTS
  Processes,
  Contributors,    \* the enabled plug-ins
  Contributions,   \* what a plug-in may run: sequences of Statements
  MaxOpens         \* bound: calls of open_db

Statements == {"own", "core", "control", "fails"}

SchemaAssumption ==
  "nobody" \notin Processes /\ Contributions \subseteq Seq(Statements) /\ MaxOpens \in Nat

\* SCHEMA's tables that have been given columns since, and _migrate's order.
Tables == <<"alerts", "scan_results", "top_packages_cache">>
Columns == [alerts |-> <<"project_path">>, scan_results |-> <<"osv_failures", "not_public">>,
            top_packages_cache |-> <<"schema_version">>]
ColumnsOf(t) == {Columns[t][i] : i \in DOMAIN Columns[t]}
AllTables == {Tables[i] : i \in DOMAIN Tables}
Missing == {"no table"}     \* what a table that is not there has for columns

VARIABLES
  schema,       \* table -> its columns
  own,          \* the plug-ins' statements that are committed: <<plug-in, contribution, place, call>>
  writeLock,    \* who holds it, or "nobody"
  uncommitted,  \* the statements the holder has not committed
  proc,         \* process -> [at, n, seen, plugins, plugin, code]
  opens

openingVars == <<schema, own, writeLock, uncommitted, proc, opens>>
dbFile == <<schema, own, writeLock, uncommitted>>

\* n is the next table, or the next statement of code, which plugin contributes.
NotOpen == [at |-> "closed", n |-> 1, seen |-> {}, plugins |-> {}, plugin |-> "none", code |-> <<>>]
GoTo(p, r) == proc' = [proc EXCEPT ![p] = r]
WriteLockFree(p) == writeLock \in {"nobody", p}

-----------------------------------------------------------------------------
Open(p) ==
  /\ proc[p].at \in {"closed", "failed", "opened"} /\ opens < MaxOpens
  /\ opens' = opens + 1
  /\ GoTo(p, [NotOpen EXCEPT !.at = "script"])
  /\ UNCHANGED dbFile

\* executescript(SCHEMA): CREATE TABLE IF NOT EXISTS, a statement at a time.
CreateTable(p) ==
  /\ proc[p].at = "script" /\ WriteLockFree(p)
  /\ LET t == Tables[proc[p].n]
     IN  schema' = IF schema[t] = Missing THEN [schema EXCEPT ![t] = ColumnsOf(t)] ELSE schema
  /\ GoTo(p, IF proc[p].n < Len(Tables) THEN [proc[p] EXCEPT !.n = @ + 1]
           ELSE [proc[p] EXCEPT !.at = "schemas", !.n = 1, !.plugins = Contributors])
  /\ UNCHANGED <<own, writeLock, uncommitted, opens>>

-----------------------------------------------------------------------------
\* The plug-ins' extra_schema and extra_migrate, one plug-in after the other.

Plugging == {"schemas", "migrations"}
Guarded == {"guarded schemas", "guarded migrations"}
Leave(at) == IF at = "guarded schemas" THEN "schemas" ELSE "migrations"
Enter(at) == IF at = "schemas" THEN "guarded schemas" ELSE "guarded migrations"

\* Every plug-in has had its turn.
Plugged(p) ==
  /\ proc[p].at \in Plugging /\ proc[p].plugins = {}
  /\ GoTo(p, [proc[p] EXCEPT !.at = IF @ = "schemas" THEN "check" ELSE "opened"])
  /\ UNCHANGED <<dbFile, opens>>

\* _run_schema_guarded: BEGIN IMMEDIATE, then the authorizer.  A plug-in that
\* raises before it names a statement is skipped.
BeginGuarded(p) ==
  /\ proc[p].at \in Plugging
  /\ \E q \in proc[p].plugins, code \in Contributions :
       IF code = <<>>
       THEN GoTo(p, [proc[p] EXCEPT !.plugins = @ \ {q}]) /\ UNCHANGED writeLock
       ELSE /\ writeLock = "nobody" /\ writeLock' = p
            /\ GoTo(p, [proc[p] EXCEPT !.at = Enter(@), !.plugins = @ \ {q}, !.plugin = q, !.code = code, !.n = 1])
  /\ UNCHANGED <<schema, own, uncommitted, opens>>

\* _reject_core_tables
Denied(statement) == statement \in {"core", "control"}

CommitPending == own' = own \cup uncommitted /\ uncommitted' = {}
RollbackPending == uncommitted' = {} /\ UNCHANGED own

Released(p) ==
  /\ writeLock' = "nobody"
  /\ GoTo(p, [proc[p] EXCEPT !.at = Leave(@), !.plugin = "none", !.code = <<>>, !.n = 1])

Refused(statement) == Denied(statement) \/ statement = "fails"

\* A statement that runs stays in the transaction; one that is refused changes nothing.
Run(p, statement) ==
  IF Refused(statement) THEN UNCHANGED <<own, uncommitted>>
  ELSE IF statement = "control" THEN CommitPending
  ELSE /\ uncommitted' = uncommitted \cup {<<proc[p].plugin, proc[p].code, proc[p].n, proc[p].at>>}
       /\ UNCHANGED own

\* A refused statement raises: all of them are taken back, and the plug-in is skipped;
\* but extra_migrate, which is code, may catch the error and go on.
Execute(p) ==
  /\ proc[p].at \in Guarded /\ proc[p].n <= Len(proc[p].code)
  /\ LET s == proc[p].code[proc[p].n]
     IN  \/ Refused(s) /\ RollbackPending /\ Released(p)
         \/ /\ Refused(s) => proc[p].at = "guarded migrations"
            /\ Run(p, s) /\ GoTo(p, [proc[p] EXCEPT !.n = @ + 1])
            /\ UNCHANGED writeLock
  /\ UNCHANGED <<schema, opens>>

EndGuarded(p) ==
  /\ proc[p].at \in Guarded /\ proc[p].n > Len(proc[p].code)
  /\ CommitPending /\ Released(p)
  /\ UNCHANGED <<schema, opens>>

\* Cancelled, or interrupted, in the guarded call: the transaction is rolled
\* back, and open_db raises.
Interrupted(p) ==
  /\ proc[p].at \in Guarded
  /\ RollbackPending /\ writeLock' = "nobody" /\ GoTo(p, [NotOpen EXCEPT !.at = "failed"])
  /\ UNCHANGED <<schema, opens>>

-----------------------------------------------------------------------------
\* _migrate: PRAGMA table_info, then a column at a time.

CheckTable(p) ==
  /\ proc[p].at = "check"
  /\ GoTo(p, [proc[p] EXCEPT !.at = "alter", !.seen = schema[Tables[proc[p].n]]])
  /\ UNCHANGED <<dbFile, opens>>

\* Mutant: one column is all a table can lack.
LackingFirst(p) == {Columns[Tables[proc[p].n]][1]} \ proc[p].seen

Lacking(p) == ColumnsOf(Tables[proc[p].n]) \ proc[p].seen

\* ALTER TABLE raises when another process has added the column since.
Alter(p) ==
  /\ proc[p].at = "alter" /\ Lacking(p) # {} /\ WriteLockFree(p)
  /\ LET t == Tables[proc[p].n]
         c == CHOOSE c \in Lacking(p) : TRUE
     IN  IF c \in schema[t]
         THEN GoTo(p, [NotOpen EXCEPT !.at = "failed"]) /\ UNCHANGED schema
         ELSE /\ schema' = [schema EXCEPT ![t] = @ \cup {c}]
              /\ GoTo(p, [proc[p] EXCEPT !.seen = @ \cup {c}])
  /\ UNCHANGED <<own, writeLock, uncommitted, opens>>

Altered(p) ==
  /\ proc[p].at = "alter" /\ Lacking(p) = {}
  /\ GoTo(p, IF proc[p].n < Len(Tables) THEN [proc[p] EXCEPT !.at = "check", !.n = @ + 1, !.seen = {}]
           ELSE [proc[p] EXCEPT !.at = "migrations", !.plugins = Contributors, !.seen = {}])
  /\ UNCHANGED <<dbFile, opens>>

-----------------------------------------------------------------------------
\* The write lock is not had within the timeout: a core statement raises, a
\* plug-in's transaction is not begun and the plug-in is skipped.
Busy(p) ==
  /\ ~WriteLockFree(p)
  /\ \/ /\ proc[p].at = "script" \/ (proc[p].at = "alter" /\ Lacking(p) # {})
        /\ GoTo(p, [NotOpen EXCEPT !.at = "failed"])
     \/ /\ proc[p].at \in Plugging
        /\ \E q \in proc[p].plugins : GoTo(p, [proc[p] EXCEPT !.plugins = @ \ {q}])
  /\ UNCHANGED <<dbFile, opens>>

\* The process is killed: what it had not committed is not there.
Kill(p) ==
  /\ proc[p].at \notin {"closed", "failed"}
  /\ GoTo(p, NotOpen)
  /\ IF writeLock = p THEN writeLock' = "nobody" /\ uncommitted' = {} ELSE UNCHANGED <<writeLock, uncommitted>>
  /\ UNCHANGED <<schema, own, opens>>

AllOpen == opens = MaxOpens /\ (\A p \in Processes : proc[p].at \in {"closed", "failed", "opened"}) /\ UNCHANGED openingVars

\* A new file, or one of any earlier version.
OpeningInit ==
  /\ schema \in {f \in [AllTables -> {Missing} \cup SUBSET UNION {ColumnsOf(t) : t \in AllTables}] :
                  \A t \in AllTables : f[t] = Missing \/ f[t] \subseteq ColumnsOf(t)}
  /\ own = {} /\ writeLock = "nobody" /\ uncommitted = {}
  /\ proc = [p \in Processes |-> NotOpen] /\ opens = 0

OpeningNext ==
  \/ \E p \in Processes :
       \/ Open(p) \/ CreateTable(p) \/ Plugged(p) \/ BeginGuarded(p) \/ Execute(p) \/ EndGuarded(p) \/ Interrupted(p)
       \/ CheckTable(p) \/ Alter(p) \/ Altered(p) \/ Busy(p) \/ Kill(p)
  \/ AllOpen

OpeningSpec == OpeningInit /\ [][OpeningNext]_openingVars
-----------------------------------------------------------------------------
\* Properties.

\* Whoever has the database open finds every table with every column, whatever
\* version it was, whoever else was bringing it up to date, and wherever an
\* earlier attempt was killed.  (open_db, _migrate)
TablesAreCurrent ==
  \A p \in Processes : proc[p].at = "opened" => \A t \in AllTables : schema[t] = ColumnsOf(t)

\* A plug-in's contribution is there whole or not at all, and none has touched a core
\* table; of a migration that caught the error of what was refused, all the rest may be
\* there.  (_run_schema_guarded: "the whole contribution is supposed to be rejected as a
\* unit")
PluginsAreContained ==
  \A s \in own : LET code == s[2] IN
    /\ code[s[3]] = "own"
    /\ \A i \in DOMAIN code : \/ code[i] = "own" /\ <<s[1], code, i, s[4]>> \in own
                              \/ code[i] # "own" /\ s[4] = "guarded migrations"

\* What open_db promises: a database that has been opened is of the current
\* schema, and the plug-ins have changed no table but their own.
OpenedIsCurrent == TablesAreCurrent /\ PluginsAreContained
=============================================================================
