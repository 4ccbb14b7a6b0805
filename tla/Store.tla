------------------------------- MODULE Store --------------------------------
(***************************************************************************)
(* The store behind loadDb and updateDb (store.mjs): a JSON file that one  *)
(* process replaces, or PostgreSQL, where the state is one row and several *)
(* tables which a transaction reads statement by statement, each from what *)
(* is committed by then, and where updates lock the row.  Databases of the *)
(* first schema, with everything in the row, are migrated on first use.    *)
(*                                                                         *)
(* A content is the set of the updates it holds.  A transaction is an      *)
(* update or a read (loadDb), made once.  Under PostgreSQL the queue of    *)
(* each process (mutationQueue) only orders what the row lock orders.  The *)
(* JSON file exists: the boot awaits its first updateDb before it listens, *)
(* and only loadDb's branch for a missing file writes outside the queue.   *)
(***************************************************************************)
EXTENDS Naturals, Sequences

CONSTANTS
    Updates, Reads,
    NoTxn,
    OldData,        \* what a database of the first schema held before
    TableCount      \* users, sessions, projects, chapters, drafts, ideas

Txns == Updates \cup Reads

ASSUME StoreAssumption ==
    /\ NoTxn \notin Txns
    /\ TableCount \in Nat \ {0}

TableIds == 1..TableCount

VARIABLES
    backend,        \* "json" or "postgres"
    file,           \* db.json
    row,            \* story_state, as committed
    tables,         \* the relational tables, as committed
    rowLock,        \* who has locked the row, or inserted it
    advisoryLock,   \* story-state-relational-migration
    txns,
    committed       \* history: the updates that were committed

storeStateVars == <<file, row, tables, rowLock, advisoryLock>>
storeAllVars == <<backend, storeStateVars, txns, committed>>

-----------------------------------------------------------------------------
Parts == 0..TableCount      \* 0 is data, the part kept in the row

Contents == SUBSET (Updates \cup {OldData})

\* data: everything under schema 1, the auxiliary state under schema 2, so that a
\* second migration would find nothing for the tables.
Row == [schema : 0..2, data : Contents]
NoRow == [schema |-> 0, data |-> {}]
NewRow(data) == [schema |-> 2, data |-> data]
ForTables(data, schema) == IF schema = 1 THEN data ELSE {}

\* writes: what the transaction has replaced and not yet committed: <<row, tables>>.
Txn ==
    [ pc : {"new", "select", "insert", "reselect", "advisory", "latest", "tables",
            "ready", "done", "failed"},
      seen : Row, view : Seq(Contents), writes : Seq(Row \X [TableIds -> Contents]),
      known : Contents ]
NewTxn ==
    [pc |-> "new", seen |-> NoRow, view |-> << >>, writes |-> << >>, known |-> {}]

EveryTable(content) == [i \in TableIds |-> content]

StoreInit ==
    /\ backend \in {"json", "postgres"}
    /\ file = {}
    /\ row \in IF backend = "json" THEN {NoRow}
               ELSE {NoRow, NewRow({}), [schema |-> 1, data |-> {OldData}]}
    /\ tables = EveryTable({})
    /\ rowLock = NoTxn
    /\ advisoryLock = NoTxn
    /\ txns = [x \in Txns |-> NewTxn]
    /\ committed = row.data

Step(x, from, to) == txns[x].pc = from /\ txns' = [txns EXCEPT ![x] = to]

Release(x) ==
    /\ rowLock' = IF rowLock = x THEN NoTxn ELSE rowLock
    /\ advisoryLock' = IF advisoryLock = x THEN NoTxn ELSE advisoryLock

-----------------------------------------------------------------------------
(* JSON                                                                    *)

\* Updates that do not wait for each other.
ReadFileAtOnce(x) ==
    /\ backend = "json"
    /\ Step(x, "new", [txns[x] EXCEPT !.pc = "ready", !.view = <<file>>, !.known = committed])
    /\ UNCHANGED <<backend, storeStateVars, committed>>

\* An update waits for the ones queued before it, a read does not.
ReadFile(x) ==
    /\ x \in Updates => \A y \in Updates : txns[y].pc # "ready"
    /\ ReadFileAtOnce(x)

\* The mutation, and writeDb: a temporary file is renamed over the old one.
WriteFile(x) ==
    /\ backend = "json"
    /\ x \in Updates
    /\ Step(x, "ready", [txns[x] EXCEPT !.pc = "done"])
    /\ file' = txns[x].view[1] \cup {x}
    /\ committed' = committed \cup {x}
    /\ UNCHANGED <<backend, row, tables, rowLock, advisoryLock>>

-----------------------------------------------------------------------------
(* PostgreSQL                                                              *)

Begin(x) ==
    /\ backend = "postgres"
    /\ Step(x, "new", [txns[x] EXCEPT !.pc = "select", !.known = committed])
    /\ UNCHANGED <<backend, storeStateVars, committed>>

\* The migration's lock is taken without looking at the schema.
AfterRowAlwaysMigrating(seen) == IF seen.schema = 0 THEN "insert" ELSE "advisory"

\* What a transaction does with the row it has read.
AfterRow(seen) ==
    IF seen.schema = 0 THEN "insert" ELSE IF seen.schema = 1 THEN "advisory" ELSE "tables"

ReadRow(x, from, next, locks) ==
    /\ locks /\ row # NoRow => rowLock \in {NoTxn, x}
    /\ Step(x, from, [txns[x] EXCEPT !.pc = next, !.seen = row, !.view = <<row.data>>])
    /\ rowLock' = IF locks /\ row # NoRow THEN x ELSE rowLock
    /\ UNCHANGED <<backend, file, row, tables, advisoryLock, committed>>

\* SELECT without FOR UPDATE in an update.
SelectRowUnlocked(x) == ReadRow(x, "select", AfterRow(row), FALSE)

\* SELECT ... [FOR UPDATE]: there is nothing to lock if there is no row.
SelectRow(x) == ReadRow(x, "select", AfterRow(row), x \in Updates)

\* INSERT ... ON CONFLICT DO NOTHING waits for the one that is inserting.
InsertRow(x) ==
    /\ rowLock = NoTxn
    /\ IF row = NoRow
       THEN /\ Step(x, "insert",
                [txns[x] EXCEPT !.pc = "ready", !.view = [i \in 1 .. TableCount + 1 |-> {}],
                                !.writes = <<<<NewRow({}), EveryTable({})>>>>])
            /\ rowLock' = x
       ELSE Step(x, "insert", [txns[x] EXCEPT !.pc = "reselect"]) /\ UNCHANGED rowLock
    /\ UNCHANGED <<backend, file, row, tables, advisoryLock, committed>>

\* After another's insertion, going on with the seed.
ReselectSeed(x) ==
    /\ rowLock \in {NoTxn, x}
    /\ Step(x, "reselect", [txns[x] EXCEPT !.pc = "tables", !.seen = row, !.view = <<{}>>])
    /\ rowLock' = x
    /\ UNCHANGED <<backend, file, row, tables, advisoryLock, committed>>

ReselectRow(x) == ReadRow(x, "reselect", AfterRow(row), TRUE)

\* pg_advisory_xact_lock
LockMigration(x) ==
    /\ advisoryLock = NoTxn
    /\ Step(x, "advisory", [txns[x] EXCEPT !.pc = "latest"])
    /\ advisoryLock' = x
    /\ UNCHANGED <<backend, file, row, tables, rowLock, committed>>

MigrateFrom(x, schema) ==
    /\ rowLock \in {NoTxn, x}
    /\ rowLock' = x
    /\ Step(x, "latest",
            [txns[x] EXCEPT !.pc = "tables", !.view = <<row.data>>,
                !.writes = IF schema = 1
                           THEN <<<<NewRow(row.data),
                                    EveryTable(ForTables(row.data, row.schema))>>>>
                           ELSE @])
    /\ UNCHANGED <<backend, file, row, tables, advisoryLock, committed>>

\* Trusting the schema read before the locks.
MigrateUnchecked(x) == MigrateFrom(x, txns[x].seen.schema)

\* The row again, under both locks: another transaction may have migrated it.
Migrate(x) == MigrateFrom(x, row.schema)

\* readRelationalState: one statement per table.
ReadTable(x) ==
    LET txn == txns[x]
        i   == Len(txn.view)
        now == IF txn.writes = << >> THEN tables ELSE txn.writes[1][2] IN
    /\ Step(x, "tables", [txn EXCEPT !.view = Append(@, now[i]),
                                     !.pc = IF i = TableCount THEN "ready" ELSE @])
    /\ UNCHANGED <<backend, storeStateVars, committed>>

\* The mutation, syncRelationalState, UPDATE story_state, COMMIT.
CommitUpdate(x) ==
    LET view == txns[x].view IN
    /\ backend = "postgres"
    /\ x \in Updates
    /\ Step(x, "ready", [txns[x] EXCEPT !.pc = "done"])
    /\ row' = NewRow(view[1] \cup {x})
    /\ tables' = [i \in TableIds |-> view[i + 1] \cup {x}]
    /\ committed' = committed \cup {x}
    /\ Release(x)
    /\ UNCHANGED <<backend, file>>

\* A read returns; if it inserted or migrated, that is committed with it.
CommitRead(x) ==
    /\ x \in Reads
    /\ Step(x, "ready", [txns[x] EXCEPT !.pc = "done"])
    /\ IF txns[x].writes = << >> THEN UNCHANGED <<row, tables>>
       ELSE row' = txns[x].writes[1][1] /\ tables' = txns[x].writes[1][2]
    /\ Release(x)
    /\ UNCHANGED <<backend, file, committed>>

\* The mutator throws, a statement or a write fails, PostgreSQL ends a deadlock,
\* the process dies.
Rollback(x) ==
    /\ txns[x].pc \notin {"new", "done", "failed"}
    /\ txns' = [txns EXCEPT ![x].pc = "failed"]
    /\ Release(x)
    /\ UNCHANGED <<backend, file, row, tables, committed>>

-----------------------------------------------------------------------------
StoreNext ==
    \E x \in Txns :
        \/ ReadFile(x) \/ WriteFile(x)
        \/ Begin(x) \/ SelectRow(x) \/ InsertRow(x) \/ ReselectRow(x)
        \/ LockMigration(x) \/ Migrate(x) \/ ReadTable(x)
        \/ CommitUpdate(x) \/ CommitRead(x)
        \/ Rollback(x)

StoreSpec == StoreInit /\ [][StoreNext]_storeAllVars

-----------------------------------------------------------------------------
(* Properties.                                                             *)

\* Every variable holds what the code keeps in it, and a lock is one's who is at work.
StoreTypeOK ==
    /\ file \in Contents /\ row \in Row /\ tables \in [TableIds -> Contents]
    /\ \A lock \in {rowLock, advisoryLock} \ {NoTxn} :
          lock \in Txns /\ txns[lock].pc \notin {"new", "done", "failed"}
    /\ \A x \in Txns : txns[x].seen \in Row /\ Len(txns[x].view) <= TableCount + 1

\* An update that was acknowledged stays in the state, in every part of it: no
\* other update, first insertion, migration, failure or crash takes it back.
NoUpdateLost ==
    IF backend = "json" THEN file = committed
    ELSE /\ row.data = committed
         /\ row.schema = 2 => \A i \in TableIds : tables[i] = committed

\* A mutator is given the state as the last update left it, all of its parts
\* together, though they are read by several statements.
UpdatesSeeTheLastState ==
    \A x \in Updates :
        txns[x].pc = "ready" => \A i \in DOMAIN txns[x].view : txns[x].view[i] = committed

\* A read may see a part newer than another, but no part is older than the part
\* read before it, nor than what was acknowledged before the read began.
ReadsNeverGoBack ==
    \A x \in Reads :
        LET view == txns[x].view IN
        \A i \in DOMAIN view :
            /\ txns[x].known \subseteq view[i]
            /\ view[i] \subseteq committed
            /\ i > 1 => view[i - 1] \subseteq view[i]

\* Transactions wait for each other in a circle only about the migration: once a
\* database has the current schema, none has to be given up for a deadlock.
Waits(x, y) ==
    \/ rowLock = y /\ x # y
       /\ \/ txns[x].pc \in {"select", "reselect"} /\ x \in Updates /\ row # NoRow
          \/ txns[x].pc \in {"insert", "latest"}
    \/ advisoryLock = y /\ x # y /\ txns[x].pc = "advisory"
NoCircleOnceMigrated ==
    row.schema = 2 => ~ \E x, y \in Txns : Waits(x, y) /\ Waits(y, x)
=============================================================================
