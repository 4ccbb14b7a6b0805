--------------------------- MODULE Saving_proofs ----------------------------
(***************************************************************************)
(* Proofs about what is saved: Store, for every set of updates and reads   *)
(* and any number of tables (no update is lost, each is given the state    *)
(* the last one left, no read goes back, and there is no deadlock but      *)
(* about the migration); StoryAgent, for every set of files, passages,     *)
(* tool calls and saves (the author's texts are kept, a proposal is        *)
(* applied once, nothing is called after a question); and Editor, for      *)
(* every book and any number of changes, selected chapters and saves under *)
(* way (until a load fails or an undo or a revision comes too early or too *)
(* late, no text is stored, or kept, as another chapter's).  The parts     *)
(* share nothing.                                                          *)
(***************************************************************************)
EXTENDS Store, StoryAgent, Editor, FiniteSetTheorems, TLAPS

(***************************************************************************)
(* Store.                                                                  *)
(***************************************************************************)

-----------------------------------------------------------------------------
(* The invariant.                                                          *)

AtRest == {"new", "done", "failed"}

\* Before a transaction has what it works on.
Looking == {"new", "select", "insert", "reselect", "advisory", "latest"}

StoreTypes ==
    /\ backend \in {"json", "postgres"}
    /\ file \in Contents /\ committed \in Contents
    /\ row \in Row /\ tables \in [TableIds -> Contents]
    /\ txns \in [Txns -> Txn]

LocksAreHeld ==
    /\ rowLock \in Txns \cup {NoTxn} /\ advisoryLock \in Txns \cup {NoTxn}
    /\ rowLock \in Txns => txns[rowLock].pc \notin AtRest
    /\ advisoryLock \in Txns => txns[advisoryLock].pc \notin AtRest

\* What is stored is what was committed, in every part the schema has.
Stored ==
    /\ backend = "json" =>
          file = committed /\ row = NoRow /\ rowLock = NoTxn /\ advisoryLock = NoTxn
    /\ backend = "postgres" =>
          /\ row.data = committed
          /\ row.schema = 2 => tables = EveryTable(committed)
          /\ row.schema = 0 => row = NoRow

OneWriter ==
    backend = "json" =>
        \A x, y \in Updates : txns[x].pc = "ready" /\ txns[y].pc = "ready" => x = y

\* What a transaction has read is between what it knew and what is committed.
ViewGrows(x) ==
    LET view == txns[x].view IN
    /\ txns[x].known \subseteq committed
    /\ \A i \in DOMAIN view :
          /\ txns[x].known \subseteq view[i]
          /\ view[i] \subseteq committed
          /\ i > 1 => view[i - 1] \subseteq view[i]
    /\ Len(view) <= TableCount + 1

\* Under JSON a transaction has one part and no writes.
FileSteps(x) ==
    backend = "json" =>
        /\ txns[x].pc \in AtRest \cup {"ready"}
        /\ txns[x].writes = << >>
        /\ txns[x].pc = "ready" => Len(txns[x].view) = 1

\* The parts a transaction has read, and the schema it relies on, by its step.
RowSteps(x) ==
    backend = "postgres" =>
        LET pc == txns[x].pc IN
        /\ pc \in Looking => txns[x].writes = << >>
        /\ pc \in {"new", "select"} => txns[x].view = << >>
        /\ pc = "tables" => Len(txns[x].view) \in 1..TableCount
        /\ pc = "ready" => Len(txns[x].view) = TableCount + 1
        /\ pc \in {"reselect", "advisory", "latest"} => row.schema # 0
        /\ pc = "advisory" /\ rowLock = x => row.schema = 1
        /\ pc \in {"tables", "ready"} /\ txns[x].writes = << >> => row.schema = 2

\* Who inserts or migrates has locked the row, and writes what is committed.
WritesAreLocked(x) ==
    txns[x].pc \in {"tables", "ready"} /\ txns[x].writes # << >> =>
        /\ rowLock = x
        /\ txns[x].writes = <<<<NewRow(committed), EveryTable(committed)>>>>

\* An update works on what is committed, under the lock.
UpdateIsLocked(x) ==
    x \in Updates /\ txns[x].pc \in {"tables", "ready"} =>
        /\ backend = "postgres" => rowLock = x
        /\ \A i \in DOMAIN txns[x].view : txns[x].view[i] = committed

Sane(x) ==
    /\ ViewGrows(x) /\ FileSteps(x) /\ RowSteps(x)
    /\ WritesAreLocked(x) /\ UpdateIsLocked(x)

StoreInv ==
    /\ StoreTypes /\ LocksAreHeld /\ Stored /\ OneWriter
    /\ \A x \in Txns : Sane(x)

USE DEF Txns, TableIds

-----------------------------------------------------------------------------
(* Steps that change nothing stored.                                       *)

\* A step of x gives and takes no lock of another's.
LocksMove(x) ==
    /\ rowLock' \in Txns \cup {NoTxn} /\ advisoryLock' \in Txns \cup {NoTxn}
    /\ \A y \in Txns \ {x} : (rowLock' = y <=> rowLock = y)
                          /\ (advisoryLock' = y <=> advisoryLock = y)
    /\ x \in {rowLock', advisoryLock'} => txns'[x].pc \notin AtRest
    /\ backend = "json" => rowLock' = NoTxn /\ advisoryLock' = NoTxn

\* What the other transactions rely on is still true after it.
LEMMA OthersStaySane ==
    ASSUME StoreInv, NEW x \in Txns, NEW y \in Txns, y # x,
           txns'[y] = txns[y],
           UNCHANGED <<backend, file, row, tables, committed>>, LocksMove(x)
    PROVE  Sane(y)'
<1>1. /\ Sane(y) /\ (rowLock' = y <=> rowLock = y)
  BY DEF StoreInv, LocksMove
<1>2. ViewGrows(y)'
  BY <1>1 DEF Sane, ViewGrows
<1>3. FileSteps(y)'
  BY <1>1 DEF Sane, FileSteps
<1>4. RowSteps(y)'
  BY <1>1 DEF Sane, RowSteps
<1>5. WritesAreLocked(y)'
  BY <1>1 DEF Sane, WritesAreLocked
<1>6. UpdateIsLocked(y)'
  BY <1>1 DEF Sane, UpdateIsLocked
<1> QED
  BY <1>2, <1>3, <1>4, <1>5, <1>6 DEF Sane

LEMMA QuietStep ==
    ASSUME StoreInv, NEW x \in Txns, NEW to \in Txn, txns' = [txns EXCEPT ![x] = to],
           UNCHANGED <<backend, file, row, tables, committed>>, LocksMove(x),
           OneWriter', Sane(x)'
    PROVE  StoreInv'
<1>1. \A y \in Txns : y # x => txns'[y] = txns[y]
  BY DEF StoreInv, StoreTypes
<1>2. StoreTypes'
  BY DEF StoreInv, StoreTypes
<1>3. LocksAreHeld'
  BY <1>1, StoreAssumption DEF StoreInv, LocksAreHeld, LocksMove
<1>4. Stored'
  BY DEF StoreInv, Stored, LocksMove
<1>5. \A y \in Txns : Sane(y)'
  BY <1>1, OthersStaySane
<1> QED
  BY <1>2, <1>3, <1>4, <1>5 DEF StoreInv

\* A view of one part.
LEMMA OnePart ==
    ASSUME NEW c \in Contents
    PROVE  /\ <<c>> \in Seq(Contents) /\ Len(<<c>>) = 1 /\ DOMAIN <<c>> = {1}
           /\ <<c>>[1] = c
<1>1. Len(<<c>>) = 1
  OBVIOUS
<1>2. <<c>> \in Seq(Contents)
  OBVIOUS
<1>3. DOMAIN <<c>> = 1..1
  BY <1>1, <1>2
<1>4. <<c>>[1] = c
  OBVIOUS
<1> QED
  BY <1>1, <1>2, <1>3, <1>4

LEMMA ReadFileQuiet ==
    ASSUME StoreInv, NEW x \in Txns, ReadFile(x)
    PROVE  StoreInv'
<1> DEFINE to == [txns[x] EXCEPT !.pc = "ready", !.view = <<file>>, !.known = committed]
<1>1. /\ backend = "json" /\ txns[x].pc = "new" /\ txns' = [txns EXCEPT ![x] = to]
      /\ UNCHANGED <<backend, file, row, tables, rowLock, advisoryLock, committed>>
      /\ x \in Updates => \A y \in Updates : txns[y].pc # "ready"
  BY DEF ReadFile, ReadFileAtOnce, Step, storeStateVars
<1>2. txns[x] \in Txn /\ file = committed /\ committed \in Contents /\ txns[x].writes = << >>
  BY <1>1 DEF StoreInv, StoreTypes, Stored, Sane, FileSteps
<1>3. /\ to \in Txn /\ to.pc = "ready" /\ to.known = committed /\ to.writes = << >>
      /\ Len(to.view) = 1 /\ DOMAIN to.view = {1} /\ to.view[1] = committed
  BY <1>2, OnePart DEF Txn
<1> HIDE DEF to
<1>4. txns'[x] = to /\ \A y \in Txns : y # x => txns'[y] = txns[y]
  BY <1>1 DEF StoreInv, StoreTypes
<1>5. LocksMove(x)
  BY <1>1, <1>3, <1>4, StoreAssumption DEF StoreInv, LocksAreHeld, Stored, LocksMove
<1>6. OneWriter'
  BY <1>1, <1>4 DEF StoreInv, OneWriter
<1>7. Sane(x)'
  BY <1>1, <1>3, <1>4, StoreAssumption
     DEF Sane, ViewGrows, FileSteps, RowSteps, WritesAreLocked, UpdateIsLocked
<1> QED
  BY <1>1, <1>3, <1>5, <1>6, <1>7, QuietStep

LEMMA BeginQuiet ==
    ASSUME StoreInv, NEW x \in Txns, Begin(x)
    PROVE  StoreInv'
<1> DEFINE to == [txns[x] EXCEPT !.pc = "select", !.known = committed]
<1>1. /\ backend = "postgres" /\ txns[x].pc = "new" /\ txns' = [txns EXCEPT ![x] = to]
      /\ UNCHANGED <<backend, file, row, tables, rowLock, advisoryLock, committed>>
  BY DEF Begin, Step, storeStateVars
<1>2. /\ txns[x] \in Txn /\ committed \in Contents
      /\ txns[x].view = << >> /\ txns[x].writes = << >>
  BY <1>1 DEF StoreInv, StoreTypes, Sane, RowSteps, Looking
<1>3. /\ to \in Txn /\ to.pc = "select" /\ to.view = << >> /\ to.known = committed
      /\ to.writes = << >>
  BY <1>2 DEF Txn
<1> HIDE DEF to
<1>4. txns'[x] = to
  BY <1>1 DEF StoreInv, StoreTypes
<1>5. LocksMove(x)
  BY <1>1, <1>3, <1>4, StoreAssumption DEF StoreInv, LocksAreHeld, LocksMove, AtRest
<1>6. OneWriter'
  BY <1>1 DEF OneWriter
<1>7. Sane(x)'
  BY <1>1, <1>3, <1>4, StoreAssumption
     DEF Sane, ViewGrows, FileSteps, RowSteps, WritesAreLocked, UpdateIsLocked
<1> QED
  BY <1>1, <1>3, <1>5, <1>6, <1>7, QuietStep

\* SELECT of the row, and the second SELECT after another's insertion.
LEMMA ReadRowQuiet ==
    ASSUME StoreInv, NEW x \in Txns, NEW from \in {"select", "reselect"}, NEW locks \in BOOLEAN,
           from = "reselect" => locks, x \in Updates => locks,
           ReadRow(x, from, AfterRow(row), locks)
    PROVE  StoreInv'
<1> DEFINE to == [txns[x] EXCEPT !.pc = AfterRow(row), !.seen = row, !.view = <<row.data>>]
<1>1. /\ txns[x].pc = from /\ txns' = [txns EXCEPT ![x] = to]
      /\ UNCHANGED <<backend, file, row, tables, advisoryLock, committed>>
      /\ locks /\ row # NoRow => rowLock \in {NoTxn, x}
      /\ rowLock' = IF locks /\ row # NoRow THEN x ELSE rowLock
  BY DEF ReadRow, Step
<1>2. /\ txns[x] \in Txn /\ row \in Row /\ committed \in Contents
      /\ backend \in {"json", "postgres"}
  BY DEF StoreInv, StoreTypes
<1>3. backend = "postgres"
  BY <1>1, <1>2 DEF StoreInv, Sane, FileSteps, AtRest
<1>4. /\ txns[x].writes = << >> /\ row.data = committed /\ txns[x].known \subseteq committed
      /\ row.schema = 0 => row = NoRow
      /\ from = "reselect" => row.schema # 0
  BY <1>1, <1>3 DEF StoreInv, Sane, RowSteps, Looking, Stored, ViewGrows
<1>5. row.schema \in {0, 1, 2} /\ (row.schema # 0 => row # NoRow)
  BY <1>2 DEF Row, NoRow
<1>6. AfterRow(row) \in {"insert", "advisory", "tables"}
  BY DEF AfterRow
<1>7. /\ to \in Txn /\ to.pc = AfterRow(row) /\ to.known = txns[x].known /\ to.writes = << >>
      /\ Len(to.view) = 1 /\ DOMAIN to.view = {1} /\ to.view[1] = committed
  BY <1>2, <1>4, <1>6, OnePart DEF Txn
<1> HIDE DEF to
<1>8. txns'[x] = to
  BY <1>1 DEF StoreInv, StoreTypes
<1>9. LocksMove(x)
  BY <1>1, <1>3, <1>6, <1>7, <1>8, StoreAssumption DEF StoreInv, LocksAreHeld, LocksMove, AtRest
<1>10. OneWriter'
  BY <1>1, <1>3 DEF OneWriter
<1>11. RowSteps(x)'
  <2>1. row.schema = 1 <=> AfterRow(row) = "advisory"
    BY <1>5 DEF AfterRow
  <2>2. row.schema = 2 <=> AfterRow(row) = "tables"
    BY <1>5 DEF AfterRow
  <2>3. row' = row /\ backend' = backend
    BY <1>1
  <2>4. to.writes = << >> /\ to.pc \in {"insert", "advisory", "tables"} /\ Len(to.view) \in 1..TableCount
    BY <1>6, <1>7, StoreAssumption
  <2>5. to.pc = "advisory" => row.schema = 1
    BY <1>7, <2>1
  <2>6. to.pc = "tables" => row.schema = 2
    BY <1>7, <2>2
  <2>7. to.pc \in {"reselect", "advisory", "latest"} => row.schema # 0
    BY <2>4, <2>5
  <2> QED
    BY <1>8, <2>3, <2>4, <2>5, <2>6, <2>7 DEF RowSteps, Looking
<1>12. UpdateIsLocked(x)'
  BY <1>1, <1>4, <1>5, <1>7, <1>8 DEF UpdateIsLocked, AfterRow
<1>13. ViewGrows(x)' /\ FileSteps(x)' /\ WritesAreLocked(x)'
  <2>1. committed' = committed /\ backend' = "postgres"
    BY <1>1, <1>3
  <2>2. ViewGrows(x)'
    <3>1. to.known \subseteq committed
      BY <1>4, <1>7
    <3>2. Len(to.view) <= TableCount + 1
      BY <1>7, StoreAssumption
    <3>3. \A i \in DOMAIN to.view : i = 1 /\ to.view[i] = committed
      BY <1>7
    <3> QED
      BY <1>8, <2>1, <3>1, <3>2, <3>3 DEF ViewGrows
  <2>3. FileSteps(x)'
    BY <2>1 DEF FileSteps
  <2>4. WritesAreLocked(x)'
    BY <1>7, <1>8 DEF WritesAreLocked
  <2> QED
    BY <2>2, <2>3, <2>4
<1> QED
  BY <1>1, <1>7, <1>9, <1>10, <1>11, <1>12, <1>13, QuietStep DEF Sane

\* A step that moves a transaction on and leaves what it has read.
LEMMA PcOnly ==
    ASSUME StoreInv, NEW x \in Txns,
           NEW p \in {"reselect", "latest", "done", "failed"},
           txns' = [txns EXCEPT ![x] = [txns[x] EXCEPT !.pc = p]],
           UNCHANGED <<backend, file, row, tables, committed>>, LocksMove(x),
           p \in {"reselect", "latest"} =>
               backend = "postgres" /\ row.schema # 0 /\ txns[x].writes = << >>
    PROVE  StoreInv'
<1> DEFINE to == [txns[x] EXCEPT !.pc = p]
<1>1. txns[x] \in Txn
  BY DEF StoreInv, StoreTypes
<1>2. /\ to \in Txn /\ to.pc = p /\ to.view = txns[x].view /\ to.writes = txns[x].writes
      /\ to.known = txns[x].known
  BY <1>1 DEF Txn
<1>3. txns' = [txns EXCEPT ![x] = to]
  OBVIOUS
<1> HIDE DEF to
<1>4. txns'[x] = to /\ \A y \in Txns : y # x => txns'[y] = txns[y]
  BY <1>3 DEF StoreInv, StoreTypes
<1>5. Sane(x)
  BY DEF StoreInv
<1>6. ViewGrows(x)'
  BY <1>2, <1>4, <1>5 DEF Sane, ViewGrows
<1>7. FileSteps(x)'
  BY <1>2, <1>4, <1>5 DEF Sane, FileSteps, AtRest
<1>8. RowSteps(x)'
  BY <1>2, <1>4, <1>5 DEF RowSteps, Looking
<1>9. WritesAreLocked(x)' /\ UpdateIsLocked(x)'
  BY <1>2, <1>4, <1>5 DEF WritesAreLocked, UpdateIsLocked
<1>10. OneWriter'
  BY <1>2, <1>4 DEF StoreInv, OneWriter
<1> QED
  BY <1>2, <1>3, <1>6, <1>7, <1>8, <1>9, <1>10, QuietStep DEF Sane

LEMMA LockMigrationQuiet ==
    ASSUME StoreInv, NEW x \in Txns, LockMigration(x)
    PROVE  StoreInv'
<1>1. /\ txns[x].pc = "advisory" /\ txns' = [txns EXCEPT ![x] = [txns[x] EXCEPT !.pc = "latest"]]
      /\ UNCHANGED <<backend, file, row, tables, rowLock, committed>>
      /\ advisoryLock = NoTxn /\ advisoryLock' = x
  BY DEF LockMigration, Step
<1>2. txns[x] \in Txn /\ txns'[x].pc = "latest" /\ backend \in {"json", "postgres"}
  BY <1>1 DEF StoreInv, StoreTypes, Txn
<1>3. backend = "postgres"
  BY <1>1, <1>2 DEF StoreInv, Sane, FileSteps, AtRest
<1>4. row.schema # 0 /\ txns[x].writes = << >>
  BY <1>1, <1>3 DEF StoreInv, Sane, RowSteps, Looking
<1>5. LocksMove(x)
  BY <1>1, <1>2, <1>3, StoreAssumption DEF StoreInv, LocksAreHeld, LocksMove, AtRest
<1> QED
  BY <1>1, <1>3, <1>4, <1>5, PcOnly

\* Giving up what it has locked.
LEMMA ReleaseMoves ==
    ASSUME StoreInv, NEW x \in Txns, Release(x)
    PROVE  LocksMove(x) /\ x \notin {rowLock', advisoryLock'}
  BY StoreAssumption DEF StoreInv, LocksAreHeld, Stored, LocksMove, Release

LEMMA RollbackQuiet ==
    ASSUME StoreInv, NEW x \in Txns, Rollback(x)
    PROVE  StoreInv'
<1>1. /\ txns' = [txns EXCEPT ![x] = [txns[x] EXCEPT !.pc = "failed"]]
      /\ UNCHANGED <<backend, file, row, tables, committed>> /\ Release(x)
  BY DEF Rollback
<1> QED
  BY <1>1, ReleaseMoves, PcOnly

\* The first insertion: the transaction works on the seed, which is empty.
LEMMA InsertRowQuiet ==
    ASSUME StoreInv, NEW x \in Txns, InsertRow(x)
    PROVE  StoreInv'
<1>1. /\ txns[x].pc = "insert" /\ rowLock = NoTxn
      /\ UNCHANGED <<backend, file, row, tables, advisoryLock, committed>>
  BY DEF InsertRow, Step
<1>2. txns[x] \in Txn /\ backend \in {"json", "postgres"} /\ row \in Row
  BY DEF StoreInv, StoreTypes
<1>3. backend = "postgres"
  BY <1>1, <1>2 DEF StoreInv, Sane, FileSteps, AtRest
<1>4. /\ txns[x].writes = << >> /\ txns[x].known \subseteq committed /\ row.data = committed
      /\ row.schema = 0 => row = NoRow
  BY <1>1, <1>3 DEF StoreInv, Sane, RowSteps, Looking, ViewGrows, Stored
<1>5. CASE row # NoRow
  <2>1. /\ txns' = [txns EXCEPT ![x] = [txns[x] EXCEPT !.pc = "reselect"]]
        /\ rowLock' = rowLock
    BY <1>5 DEF InsertRow, Step
  <2>2. txns'[x].pc = "reselect"
    BY <2>1, <1>2 DEF StoreInv, StoreTypes, Txn
  <2>3. LocksMove(x)
    BY <1>1, <1>3, <2>1, <2>2, StoreAssumption DEF StoreInv, LocksAreHeld, LocksMove, AtRest
  <2> QED
    BY <1>1, <1>3, <1>4, <1>5, <2>1, <2>3, PcOnly
<1>6. CASE row = NoRow
  <2> DEFINE seed   == [i \in 1 .. TableCount + 1 |-> {}]
             writes == <<<<NewRow({}), EveryTable({})>>>>
             to     == [txns[x] EXCEPT !.pc = "ready", !.view = seed, !.writes = writes]
  <2>1. txns' = [txns EXCEPT ![x] = to] /\ rowLock' = x
    BY <1>6 DEF InsertRow, Step
  <2>2. committed = {} /\ txns[x].known = {}
    BY <1>4, <1>6 DEF NoRow
  <2>3. /\ seed \in Seq(Contents) /\ Len(seed) = TableCount + 1
        /\ \A i \in DOMAIN seed : seed[i] = {}
    BY StoreAssumption DEF Contents
  <2>4. writes \in Seq(Row \X [TableIds -> Contents])
    <3>1. NewRow({}) \in Row
      BY DEF NewRow, Row, Contents
    <3>2. EveryTable({}) \in [TableIds -> Contents]
      BY DEF EveryTable, Contents
    <3> QED
      BY <3>1, <3>2
  <2> HIDE DEF seed, writes
  <2>5. /\ to \in Txn /\ to.pc = "ready" /\ to.view = seed /\ to.writes = writes /\ to.known = {}
    BY <1>2, <2>2, <2>3, <2>4 DEF Txn
  <2> HIDE DEF to
  <2>6. txns'[x] = to
    BY <2>1 DEF StoreInv, StoreTypes
  <2>7. LocksMove(x)
    BY <1>1, <1>3, <2>1, <2>5, <2>6, StoreAssumption
       DEF StoreInv, LocksAreHeld, LocksMove, AtRest
  <2>8. OneWriter'
    BY <1>1, <1>3 DEF OneWriter
  <2>9. ViewGrows(x)'
    <3>1. \A i \in DOMAIN seed : i > 1 => seed[i - 1] = {}
      BY <2>3, StoreAssumption DEF seed
    <3> QED
      BY <1>1, <2>2, <2>3, <2>5, <2>6, <3>1, StoreAssumption DEF ViewGrows
  <2>10. FileSteps(x)' /\ UpdateIsLocked(x)'
    BY <1>1, <1>3, <2>1, <2>2, <2>3, <2>5, <2>6 DEF FileSteps, UpdateIsLocked
  <2>11. writes # << >>
    BY DEF writes
  <2>12. RowSteps(x)'
    BY <1>1, <2>3, <2>5, <2>6, <2>11 DEF RowSteps, Looking
  <2>13. WritesAreLocked(x)'
    BY <1>1, <2>1, <2>2, <2>5, <2>6 DEF WritesAreLocked, writes
  <2> QED
    BY <1>1, <2>1, <2>5, <2>7, <2>8, <2>9, <2>10, <2>12, <2>13, QuietStep DEF Sane
<1> QED
  BY <1>5, <1>6

\* The migration, or finding it done.
LEMMA MigrateQuiet ==
    ASSUME StoreInv, NEW x \in Txns, Migrate(x)
    PROVE  StoreInv'
<1> DEFINE migrated == <<<<NewRow(row.data), EveryTable(ForTables(row.data, row.schema))>>>>
           writes   == IF row.schema = 1 THEN migrated ELSE txns[x].writes
           to       == [txns[x] EXCEPT !.pc = "tables", !.view = <<row.data>>, !.writes = writes]
<1>1. /\ txns[x].pc = "latest" /\ txns' = [txns EXCEPT ![x] = to]
      /\ UNCHANGED <<backend, file, row, tables, advisoryLock, committed>>
      /\ rowLock \in {NoTxn, x} /\ rowLock' = x
  BY DEF Migrate, MigrateFrom, Step
<1>2. /\ txns[x] \in Txn /\ row \in Row /\ committed \in Contents
      /\ backend \in {"json", "postgres"}
  BY DEF StoreInv, StoreTypes
<1>3. backend = "postgres"
  BY <1>1, <1>2 DEF StoreInv, Sane, FileSteps, AtRest
<1>4. /\ txns[x].writes = << >> /\ row.data = committed /\ txns[x].known \subseteq committed
      /\ row.schema # 0
  BY <1>1, <1>3 DEF StoreInv, Sane, RowSteps, Looking, Stored, ViewGrows
<1>5. row.schema \in {1, 2}
  BY <1>2, <1>4 DEF Row
<1>6. row.schema = 1 => migrated = <<<<NewRow(committed), EveryTable(committed)>>>>
  BY <1>4 DEF ForTables
<1>7. writes \in Seq(Row \X [TableIds -> Contents])
  <2>1. NewRow(committed) \in Row
    BY <1>2 DEF NewRow, Row
  <2>2. EveryTable(committed) \in [TableIds -> Contents]
    BY <1>2 DEF EveryTable
  <2>3. <<<<NewRow(committed), EveryTable(committed)>>>> \in Seq(Row \X [TableIds -> Contents])
    BY <2>1, <2>2
  <2>4. << >> \in Seq(Row \X [TableIds -> Contents])
    OBVIOUS
  <2> QED
    BY <1>4, <1>6, <2>3, <2>4
<1>8. /\ row.schema = 1 => writes = <<<<NewRow(committed), EveryTable(committed)>>>>
      /\ row.schema = 2 => writes = << >>
  BY <1>4, <1>6
<1> HIDE DEF writes
<1>9. /\ to \in Txn /\ to.pc = "tables" /\ to.known = txns[x].known /\ to.writes = writes
      /\ Len(to.view) = 1 /\ DOMAIN to.view = {1} /\ to.view[1] = committed
  BY <1>2, <1>4, <1>7, OnePart DEF Txn
<1> HIDE DEF to
<1>10. txns'[x] = to
  BY <1>1 DEF StoreInv, StoreTypes
<1>11. LocksMove(x)
  BY <1>1, <1>3, <1>9, <1>10, StoreAssumption DEF StoreInv, LocksAreHeld, LocksMove, AtRest
<1>12. OneWriter'
  BY <1>1, <1>3 DEF OneWriter
<1>13. ViewGrows(x)'
  <2>1. to.known \subseteq committed
    BY <1>4, <1>9
  <2>2. Len(to.view) <= TableCount + 1
    BY <1>9, StoreAssumption
  <2>3. \A i \in DOMAIN to.view : i = 1 /\ to.view[i] = committed
    BY <1>9
  <2>4. committed' = committed
    BY <1>1
  <2> QED
    BY <1>10, <2>1, <2>2, <2>3, <2>4 DEF ViewGrows
<1>14. FileSteps(x)' /\ UpdateIsLocked(x)'
  BY <1>1, <1>3, <1>9, <1>10 DEF FileSteps, UpdateIsLocked
<1>15. RowSteps(x)'
  <2>1. row' = row /\ Len(to.view) \in 1..TableCount
    BY <1>1, <1>9, StoreAssumption
  <2>2. writes = << >> => row.schema = 2
    BY <1>5, <1>8
  <2> QED
    BY <1>9, <1>10, <2>1, <2>2 DEF RowSteps, Looking
<1>16. WritesAreLocked(x)'
  BY <1>1, <1>5, <1>8, <1>9, <1>10 DEF WritesAreLocked
<1> QED
  BY <1>1, <1>9, <1>11, <1>12, <1>13, <1>14, <1>15, <1>16, QuietStep DEF Sane

\* A table is read after the parts before it, and is as new.
LEMMA ReadTableQuiet ==
    ASSUME StoreInv, NEW x \in Txns, ReadTable(x)
    PROVE  StoreInv'
<1> DEFINE i   == Len(txns[x].view)
           now == IF txns[x].writes = << >> THEN tables ELSE txns[x].writes[1][2]
           pc  == IF i = TableCount THEN "ready" ELSE "tables"
           to  == [txns[x] EXCEPT !.view = Append(@, now[i]), !.pc = pc]
<1>1. /\ txns[x].pc = "tables"
      /\ UNCHANGED <<backend, file, row, tables, rowLock, advisoryLock, committed>>
  BY DEF ReadTable, Step, storeStateVars
<1>2. /\ txns[x] \in Txn /\ committed \in Contents /\ tables \in [TableIds -> Contents]
      /\ backend \in {"json", "postgres"}
  BY DEF StoreInv, StoreTypes
<1>3. backend = "postgres"
  BY <1>1, <1>2 DEF StoreInv, Sane, FileSteps, AtRest
<1>4. /\ ViewGrows(x) /\ WritesAreLocked(x) /\ UpdateIsLocked(x) /\ i \in 1..TableCount
      /\ txns[x].writes = << >> => row.schema = 2 /\ tables = EveryTable(committed)
  BY <1>1, <1>3 DEF StoreInv, Sane, RowSteps, Stored
<1>5. now[i] = committed
  <2>1. CASE txns[x].writes = << >>
    BY <1>4, <2>1 DEF EveryTable
  <2>2. CASE txns[x].writes # << >>
    <3>1. txns[x].writes[1][2] = EveryTable(committed)
      BY <1>1, <1>4, <2>2 DEF WritesAreLocked
    <3> QED
      BY <1>4, <2>2, <3>1 DEF EveryTable
  <2> QED
    BY <2>1, <2>2
<1>6. txns' = [txns EXCEPT ![x] = to]
  BY <1>1 DEF ReadTable, Step
<1> HIDE DEF now
<1>7. txns[x].view \in Seq(Contents)
  BY <1>2 DEF Txn
<1> DEFINE view == Append(txns[x].view, now[i])
<1>8. /\ view \in Seq(Contents) /\ Len(view) = i + 1 /\ view[i + 1] = committed
      /\ \A j \in 1..i : view[j] = txns[x].view[j]
      /\ DOMAIN view = 1 .. i + 1 /\ DOMAIN txns[x].view = 1..i
  BY <1>2, <1>5, <1>7
<1>9. pc \in {"tables", "ready"}
  OBVIOUS
<1>10. /\ to \in Txn /\ to.pc = pc /\ to.view = view /\ to.known = txns[x].known
       /\ to.writes = txns[x].writes
  BY <1>2, <1>8, <1>9 DEF Txn
<1> HIDE DEF to, view
<1>11. txns'[x] = to
  BY <1>6 DEF StoreInv, StoreTypes
<1>12. LocksMove(x)
  BY <1>1, <1>3, <1>9, <1>10, <1>11, StoreAssumption
     DEF StoreInv, LocksAreHeld, LocksMove, AtRest
<1>13. OneWriter'
  BY <1>1, <1>3 DEF OneWriter
<1>14. ViewGrows(x)'
  <2>1. ASSUME NEW j \in 1 .. i + 1
        PROVE  /\ txns[x].known \subseteq view[j] /\ view[j] \subseteq committed
               /\ j > 1 => view[j - 1] \subseteq view[j]
    <3>1. CASE j = i + 1
      <4>1. view[j] = committed
        BY <1>8, <3>1
      <4>2. i \in 1..i /\ view[i] \subseteq committed
        <5>1. i \in 1..i
          BY <1>4
        <5>2. view[i] = txns[x].view[i] /\ i \in DOMAIN txns[x].view
          BY <1>8, <5>1
        <5> QED
          BY <1>4, <5>1, <5>2 DEF ViewGrows
      <4>3. j - 1 = i
        BY <1>4, <3>1
      <4> QED
        BY <1>4, <4>1, <4>2, <4>3 DEF ViewGrows
    <3>2. CASE j # i + 1
      <4>1. j \in 1..i /\ (j > 1 => j - 1 \in 1..i)
        BY <1>4, <3>2
      <4> QED
        BY <1>4, <1>8, <4>1 DEF ViewGrows
    <3> QED
      BY <3>1, <3>2
  <2>2. Len(view) <= TableCount + 1
    BY <1>4, <1>8, StoreAssumption
  <2>3. committed' = committed /\ txns[x].known \subseteq committed
    BY <1>1, <1>4 DEF ViewGrows
  <2> QED
    BY <1>8, <1>10, <1>11, <2>1, <2>2, <2>3 DEF ViewGrows
<1>15. FileSteps(x)'
  BY <1>1, <1>3 DEF FileSteps
<1>16. RowSteps(x)'
  <2>1. /\ pc = "tables" => Len(view) \in 1..TableCount
        /\ pc = "ready" => Len(view) = TableCount + 1
    BY <1>4, <1>8, StoreAssumption
  <2>2. row' = row /\ (txns[x].writes = << >> => row.schema = 2)
    BY <1>1, <1>4
  <2> HIDE DEF pc
  <2> QED
    BY <1>9, <1>10, <1>11, <2>1, <2>2 DEF RowSteps, Looking
<1>17. WritesAreLocked(x)'
  BY <1>1, <1>4, <1>10, <1>11 DEF WritesAreLocked
<1>18. UpdateIsLocked(x)'
  <2>1. x \in Updates => \A j \in 1 .. i + 1 : view[j] = committed
    BY <1>1, <1>4, <1>8 DEF UpdateIsLocked
  <2> QED
    BY <1>1, <1>4, <1>8, <1>10, <1>11, <2>1 DEF UpdateIsLocked
<1> QED
  BY <1>1, <1>6, <1>10, <1>12, <1>13, <1>14, <1>15, <1>16, <1>17, <1>18, QuietStep DEF Sane

-----------------------------------------------------------------------------
(* Steps that change what is stored.                                       *)

\* Under PostgreSQL only the one who has locked the row replaces it, so that nobody
\* else has read it for an update or has writes to make.
LEMMA CommitPreserves ==
    ASSUME StoreInv, NEW x \in Txns, NEW data \in Contents, committed \subseteq data,
           backend = "postgres", rowLock = x,
           txns' = [txns EXCEPT ![x] = [txns[x] EXCEPT !.pc = "done"]],
           row' = NewRow(data), tables' = EveryTable(data), committed' = data,
           Release(x), UNCHANGED <<backend, file>>
    PROVE  StoreInv'
<1> DEFINE to == [txns[x] EXCEPT !.pc = "done"]
<1>1. /\ to \in Txn /\ to.pc = "done" /\ to.view = txns[x].view /\ to.writes = txns[x].writes
      /\ to.known = txns[x].known
  BY DEF StoreInv, StoreTypes, Txn
<1>2. txns' = [txns EXCEPT ![x] = to]
  OBVIOUS
<1> HIDE DEF to
<1>3. txns'[x] = to /\ \A y \in Txns : y # x => txns'[y] = txns[y]
  BY <1>2 DEF StoreInv, StoreTypes
<1>4. row'.schema = 2 /\ row'.data = data
  BY DEF NewRow
<1>5. StoreTypes'
  <2>1. row' \in Row
    BY DEF NewRow, Row
  <2>2. tables' \in [TableIds -> Contents]
    BY DEF EveryTable
  <2>3. txns' \in [Txns -> Txn]
    BY <1>1, <1>2 DEF StoreInv, StoreTypes
  <2> QED
    BY <2>1, <2>2, <2>3 DEF StoreInv, StoreTypes
<1>6. LocksAreHeld'
  BY <1>1, <1>3, ReleaseMoves, StoreAssumption DEF StoreInv, LocksAreHeld, LocksMove
<1>7. Stored'
  BY <1>4 DEF Stored
<1>8. OneWriter'
  BY DEF OneWriter
<1>9. ASSUME NEW y \in Txns
      PROVE  Sane(y)'
  <2>1. Sane(y)
    BY DEF StoreInv
  <2>2. txns'[y].view = txns[y].view /\ txns'[y].known = txns[y].known
    BY <1>1, <1>3
  <2>3. ViewGrows(y)'
    BY <2>1, <2>2 DEF Sane, ViewGrows
  <2>4. FileSteps(y)'
    BY DEF FileSteps
  <2>5. CASE y = x
    <3>1. txns'[y].pc = "done"
      BY <1>1, <1>3, <2>5
    <3> QED
      BY <2>3, <2>4, <3>1 DEF Sane, RowSteps, Looking, WritesAreLocked, UpdateIsLocked
  <2>6. CASE y # x
    <3>1. txns'[y] = txns[y] /\ rowLock # y /\ rowLock' # y
      BY <1>3, <2>6, ReleaseMoves DEF LocksMove
    <3>2. RowSteps(y)'
      BY <1>4, <2>1, <3>1 DEF Sane, RowSteps
    <3>3. WritesAreLocked(y)' /\ UpdateIsLocked(y)'
      BY <2>1, <3>1 DEF Sane, WritesAreLocked, UpdateIsLocked
    <3> QED
      BY <2>3, <2>4, <3>2, <3>3 DEF Sane
  <2> QED
    BY <2>5, <2>6
<1> QED
  BY <1>5, <1>6, <1>7, <1>8, <1>9 DEF StoreInv

LEMMA CommitUpdatePreserves ==
    ASSUME StoreInv, NEW x \in Txns, CommitUpdate(x)
    PROVE  StoreInv'
<1> DEFINE data == committed \cup {x}
           view == txns[x].view
<1>1. /\ backend = "postgres" /\ x \in Updates /\ txns[x].pc = "ready"
      /\ txns' = [txns EXCEPT ![x] = [txns[x] EXCEPT !.pc = "done"]]
      /\ row' = NewRow(view[1] \cup {x}) /\ tables' = [i \in TableIds |-> view[i + 1] \cup {x}]
      /\ committed' = data /\ Release(x) /\ UNCHANGED <<backend, file>>
  BY DEF CommitUpdate, Step
<1>2. /\ rowLock = x /\ Len(view) = TableCount + 1
      /\ \A i \in DOMAIN view : view[i] = committed
  BY <1>1 DEF StoreInv, Sane, RowSteps, UpdateIsLocked
<1>3. DOMAIN view = 1 .. TableCount + 1
  BY <1>2 DEF StoreInv, StoreTypes, Txn
<1>4. view[1] = committed /\ \A i \in TableIds : view[i + 1] = committed
  <2>1. 1 \in DOMAIN view /\ \A i \in TableIds : i + 1 \in DOMAIN view
    BY <1>3, StoreAssumption
  <2> QED
    BY <1>2, <2>1
<1>5. row' = NewRow(data) /\ tables' = EveryTable(data)
  BY <1>1, <1>4 DEF EveryTable
<1>6. data \in Contents
  BY <1>1 DEF StoreInv, StoreTypes, Contents
<1> HIDE DEF view
<1> QED
  BY <1>1, <1>2, <1>5, <1>6, CommitPreserves

LEMMA CommitReadPreserves ==
    ASSUME StoreInv, NEW x \in Txns, CommitRead(x)
    PROVE  StoreInv'
<1>1. /\ txns[x].pc = "ready"
      /\ txns' = [txns EXCEPT ![x] = [txns[x] EXCEPT !.pc = "done"]]
      /\ Release(x) /\ UNCHANGED <<backend, file, committed>>
  BY DEF CommitRead, Step
<1>2. CASE txns[x].writes = << >>
  <2>1. UNCHANGED <<row, tables>>
    BY <1>2 DEF CommitRead
  <2> QED
    BY <1>1, <2>1, ReleaseMoves, PcOnly
<1>3. CASE txns[x].writes # << >>
  <2>1. /\ txns[x].writes = <<<<NewRow(committed), EveryTable(committed)>>>> /\ rowLock = x
        /\ committed \in Contents
    BY <1>1, <1>3 DEF StoreInv, StoreTypes, Sane, WritesAreLocked
  <2>2. backend = "postgres"
    BY <1>3 DEF StoreInv, StoreTypes, Sane, FileSteps
  <2>3. row' = txns[x].writes[1][1] /\ tables' = txns[x].writes[1][2]
    BY <1>3 DEF CommitRead
  <2>4. row' = NewRow(committed) /\ tables' = EveryTable(committed)
    BY <2>1, <2>3
  <2> QED
    BY <1>1, <2>1, <2>2, <2>4, CommitPreserves
<1> QED
  BY <1>2, <1>3

\* Under JSON the one update that is ready has read what it replaces.
LEMMA WriteFilePreserves ==
    ASSUME StoreInv, NEW x \in Txns, WriteFile(x)
    PROVE  StoreInv'
<1> DEFINE to == [txns[x] EXCEPT !.pc = "done"]
<1>1. /\ backend = "json" /\ x \in Updates /\ txns[x].pc = "ready"
      /\ txns' = [txns EXCEPT ![x] = to]
      /\ file' = txns[x].view[1] \cup {x} /\ committed' = committed \cup {x}
      /\ UNCHANGED <<backend, row, tables, rowLock, advisoryLock>>
  BY DEF WriteFile, Step
<1>2. /\ to \in Txn /\ to.pc = "done" /\ to.view = txns[x].view /\ to.writes = txns[x].writes
      /\ to.known = txns[x].known
  BY DEF StoreInv, StoreTypes, Txn
<1> HIDE DEF to
<1>3. txns'[x] = to /\ \A y \in Txns : y # x => txns'[y] = txns[y]
  BY <1>1 DEF StoreInv, StoreTypes
<1>4. txns[x].view[1] = committed
  <2>1. Len(txns[x].view) = 1 /\ txns[x].view \in Seq(Contents)
    BY <1>1 DEF StoreInv, StoreTypes, Txn, Sane, FileSteps
  <2>2. 1 \in DOMAIN txns[x].view
    BY <2>1
  <2> QED
    BY <1>1, <2>2 DEF StoreInv, Sane, UpdateIsLocked
<1>5. StoreTypes'
  BY <1>1, <1>2, <1>4 DEF StoreInv, StoreTypes, Contents
<1>6. LocksAreHeld'
  BY <1>1, StoreAssumption DEF StoreInv, Stored, LocksAreHeld
<1>7. Stored'
  BY <1>1, <1>4 DEF StoreInv, Stored
<1>8. OneWriter'
  BY <1>1, <1>2, <1>3 DEF StoreInv, OneWriter
<1>9. ASSUME NEW y \in Txns
      PROVE  Sane(y)'
  <2>1. Sane(y)
    BY DEF StoreInv
  <2>2. /\ txns'[y].view = txns[y].view /\ txns'[y].known = txns[y].known
        /\ txns'[y].writes = txns[y].writes
        /\ txns'[y].pc \in {txns[y].pc, "done"}
    BY <1>2, <1>3
  <2>3. ViewGrows(y)'
    BY <1>1, <2>1, <2>2 DEF Sane, ViewGrows
  <2>4. FileSteps(y)'
    BY <1>1, <2>1, <2>2 DEF Sane, FileSteps, AtRest
  <2>5. RowSteps(y)'
    BY <1>1 DEF RowSteps
  <2>6. WritesAreLocked(y)'
    BY <1>1, <2>1, <2>2 DEF Sane, FileSteps, WritesAreLocked
  <2>7. UpdateIsLocked(y)'
    <3>1. y \in Updates => txns'[y].pc \notin {"tables", "ready"}
      <4>1. txns[y].pc \in AtRest \cup {"ready"}
        BY <1>1, <2>1 DEF Sane, FileSteps
      <4>2. y \in Updates /\ txns[y].pc = "ready" => y = x
        BY <1>1 DEF StoreInv, OneWriter
      <4> QED
        BY <1>2, <1>3, <4>1, <4>2 DEF AtRest
    <3> QED
      BY <3>1 DEF UpdateIsLocked
  <2> QED
    BY <2>3, <2>4, <2>5, <2>6, <2>7 DEF Sane
<1> QED
  BY <1>5, <1>6, <1>7, <1>8, <1>9 DEF StoreInv

-----------------------------------------------------------------------------
LEMMA StoreInitInv == StoreInit => StoreInv
<1> SUFFICES ASSUME StoreInit PROVE StoreInv
  OBVIOUS
<1>1. /\ backend \in {"json", "postgres"} /\ file = {} /\ tables = EveryTable({})
      /\ rowLock = NoTxn /\ advisoryLock = NoTxn /\ committed = row.data
  BY DEF StoreInit
<1>2. \A x \in Txns : /\ txns[x].pc = "new" /\ txns[x].view = << >> /\ txns[x].writes = << >>
                      /\ txns[x].known = {} /\ txns[x] \in Txn
  <2>1. << >> \in Seq(Contents) /\ << >> \in Seq(Row \X [TableIds -> Contents])
    OBVIOUS
  <2>2. NoRow \in Row
    BY DEF NoRow, Row, Contents
  <2>3. NewTxn \in Txn
    BY <2>1, <2>2 DEF NewTxn, Txn, Contents
  <2> QED
    BY <2>3 DEF StoreInit, NewTxn
<1>3. /\ row \in Row /\ (backend = "json" => row = NoRow)
      /\ row.schema = 0 => row = NoRow
      /\ row.schema = 2 => row.data = {}
  <2>1. row \in {NoRow, NewRow({}), [schema |-> 1, data |-> {OldData}]}
        /\ (backend = "json" => row = NoRow)
    BY DEF StoreInit
  <2> QED
    BY <2>1 DEF NoRow, NewRow, Row, Contents
<1>4. StoreTypes
  <2>1. {} \in Contents /\ committed \in Contents /\ tables \in [TableIds -> Contents]
    BY <1>1, <1>3 DEF Row, Contents, EveryTable
  <2>2. txns \in [Txns -> Txn]
    BY <1>2 DEF StoreInit
  <2> QED
    BY <1>1, <1>3, <2>1, <2>2 DEF StoreTypes
<1>5. LocksAreHeld
  BY <1>1, StoreAssumption DEF LocksAreHeld
<1>6. Stored
  BY <1>1, <1>3 DEF Stored, NoRow
<1>7. OneWriter
  BY <1>2 DEF OneWriter
<1>8. ASSUME NEW x \in Txns PROVE Sane(x)
  <2>1. /\ txns[x].pc = "new" /\ txns[x].view = << >> /\ txns[x].writes = << >>
        /\ txns[x].known = {}
    BY <1>2
  <2>2. Len(<< >>) = 0 /\ \A i \in DOMAIN << >> : FALSE
    OBVIOUS
  <2>3. ViewGrows(x)
    BY <2>1, <2>2, StoreAssumption DEF ViewGrows
  <2> QED
    BY <2>1, <2>3 DEF Sane, FileSteps, RowSteps, WritesAreLocked, UpdateIsLocked, AtRest
<1> QED
  BY <1>4, <1>5, <1>6, <1>7, <1>8 DEF StoreInv

LEMMA StoreNextInv == StoreInv /\ [StoreNext]_storeAllVars => StoreInv'
<1> SUFFICES ASSUME StoreInv, [StoreNext]_storeAllVars PROVE StoreInv'
  OBVIOUS
<1>1. CASE UNCHANGED storeAllVars
  <2>1. UNCHANGED <<backend, file, row, tables, rowLock, advisoryLock, txns, committed>>
    BY <1>1 DEF storeAllVars, storeStateVars
  <2>2. StoreTypes' /\ LocksAreHeld' /\ Stored' /\ OneWriter'
    BY <2>1 DEF StoreInv, StoreTypes, LocksAreHeld, Stored, OneWriter
  <2>3. ASSUME NEW x \in Txns PROVE Sane(x)'
    BY <2>1 DEF StoreInv, Sane, ViewGrows, FileSteps, RowSteps, WritesAreLocked, UpdateIsLocked
  <2> QED
    BY <2>2, <2>3 DEF StoreInv
<1>2. ASSUME NEW x \in Txns, ReadFile(x) PROVE StoreInv'
  BY <1>2, ReadFileQuiet
<1>3. ASSUME NEW x \in Txns, WriteFile(x) PROVE StoreInv'
  BY <1>3, WriteFilePreserves
<1>4. ASSUME NEW x \in Txns, Begin(x) PROVE StoreInv'
  BY <1>4, BeginQuiet
<1>5. ASSUME NEW x \in Txns, SelectRow(x) PROVE StoreInv'
  <2>1. ReadRow(x, "select", AfterRow(row), x \in Updates)
    BY <1>5 DEF SelectRow
  <2> DEFINE locks == x \in Updates
  <2>2. locks \in BOOLEAN
    OBVIOUS
  <2> QED
    BY <2>1, <2>2, ReadRowQuiet
<1>6. ASSUME NEW x \in Txns, InsertRow(x) PROVE StoreInv'
  BY <1>6, InsertRowQuiet
<1>7. ASSUME NEW x \in Txns, ReselectRow(x) PROVE StoreInv'
  BY <1>7, ReadRowQuiet DEF ReselectRow
<1>8. ASSUME NEW x \in Txns, LockMigration(x) PROVE StoreInv'
  BY <1>8, LockMigrationQuiet
<1>9. ASSUME NEW x \in Txns, Migrate(x) PROVE StoreInv'
  BY <1>9, MigrateQuiet
<1>10. ASSUME NEW x \in Txns, ReadTable(x) PROVE StoreInv'
  BY <1>10, ReadTableQuiet
<1>11. ASSUME NEW x \in Txns, CommitUpdate(x) PROVE StoreInv'
  BY <1>11, CommitUpdatePreserves
<1>12. ASSUME NEW x \in Txns, CommitRead(x) PROVE StoreInv'
  BY <1>12, CommitReadPreserves
<1>13. ASSUME NEW x \in Txns, Rollback(x) PROVE StoreInv'
  BY <1>13, RollbackQuiet
<1> QED
  BY <1>1, <1>2, <1>3, <1>4, <1>5, <1>6, <1>7, <1>8, <1>9, <1>10, <1>11, <1>12, <1>13
     DEF StoreNext

-----------------------------------------------------------------------------
(* Theorems.                                                               *)

\* The invariant holds of every behaviour of the store.
THEOREM StoreInvariance == StoreSpec => []StoreInv
  BY StoreInitInv, StoreNextInv, PTL DEF StoreSpec

\* Every variable holds what the code keeps in it (initPg, loadDb, updateDb).
THEOREM StoreTypeCorrect == StoreSpec => []StoreTypeOK
<1>1. StoreInv => StoreTypeOK
  <2> SUFFICES ASSUME StoreInv PROVE StoreTypeOK
    OBVIOUS
  <2>1. \A lock \in {rowLock, advisoryLock} \ {NoTxn} :
           lock \in Txns /\ txns[lock].pc \notin {"new", "done", "failed"}
    BY DEF StoreInv, LocksAreHeld, AtRest
  <2>2. \A x \in Txns : txns[x].seen \in Row /\ Len(txns[x].view) <= TableCount + 1
    BY DEF StoreInv, StoreTypes, Txn, Sane, ViewGrows
  <2> QED
    BY <2>1, <2>2 DEF StoreInv, StoreTypes, StoreTypeOK
<1> QED
  BY <1>1, StoreInvariance, PTL

\* An acknowledged update stays in every part of the state (updateDb), whatever other
\* updates, insertions, migrations, failures and crashes there are.
THEOREM NoUpdateIsLost == StoreSpec => []NoUpdateLost
<1>1. StoreInv => NoUpdateLost
  <2> SUFFICES ASSUME StoreInv PROVE NoUpdateLost
    OBVIOUS
  <2>1. backend \in {"json", "postgres"} /\ Stored
    BY DEF StoreInv, StoreTypes
  <2> QED
    BY <2>1 DEF Stored, NoUpdateLost, EveryTable
<1> QED
  BY <1>1, StoreInvariance, PTL

\* A mutator of updateDb is given every part of the state as it was last committed,
\* though they are read by several statements.
THEOREM UpdatesAreCurrent == StoreSpec => []UpdatesSeeTheLastState
<1>1. StoreInv => UpdatesSeeTheLastState
  BY DEF StoreInv, Sane, UpdateIsLocked, UpdatesSeeTheLastState
<1> QED
  BY <1>1, StoreInvariance, PTL

\* No part loadDb reads is older than the part before, or than what was known.
THEOREM ReadsAreMonotonic == StoreSpec => []ReadsNeverGoBack
<1>1. StoreInv => ReadsNeverGoBack
  BY DEF StoreInv, Sane, ViewGrows, ReadsNeverGoBack
<1> QED
  BY <1>1, StoreInvariance, PTL

\* Under the current schema no two transactions wait for each other: the migration's
\* lock is the only one taken after the row's.
THEOREM NoDeadlockOnceMigrated == StoreSpec => []NoCircleOnceMigrated
<1>1. StoreInv => NoCircleOnceMigrated
  <2> SUFFICES ASSUME StoreInv, row.schema = 2, NEW x \in Txns, NEW y \in Txns,
                      Waits(x, y), Waits(y, x)
               PROVE  FALSE
    BY DEF NoCircleOnceMigrated
  <2>1. \A z \in Txns : txns[z].pc = "advisory" => rowLock # z
    <3> SUFFICES ASSUME NEW z \in Txns, txns[z].pc = "advisory", rowLock = z PROVE FALSE
      OBVIOUS
    <3>1. backend = "postgres"
      BY DEF StoreInv, StoreTypes, Sane, FileSteps, AtRest
    <3>2. row.schema = 1
      BY <3>1 DEF StoreInv, Sane, RowSteps
    <3> QED
      BY <3>2
  <2> QED
    BY <2>1 DEF Waits
<1> QED
  BY <1>1, StoreInvariance, PTL

(***************************************************************************)
(* StoryAgent and Editor.                                                  *)
(***************************************************************************)

-----------------------------------------------------------------------------
(* The story agent: the invariant.                                         *)

AgentTypes ==
    /\ policy \in {"allow", "propose"} /\ required \in RequiredFiles
    /\ drafts \in Texts /\ workspace \in Texts /\ proposal \in Texts /\ standing \in Texts
    /\ history \in [Chapters -> SUBSET Text]
    /\ saves \in [Saves -> Chapters \cup {NoFile}]
    /\ changes \in SUBSET Files
    /\ toolCalls \in [ToolCalls -> ToolCall]
    /\ agentRun \in AgentRun
    /\ agentRun.recoveries <= MaxRecoveries /\ agentRun.validations <= required
    /\ applied \in BOOLEAN

\* Every call but a question is about a file.
CallsHaveFiles ==
    \A c \in ToolCalls :
        /\ toolCalls[c].pc # "unused" /\ toolCalls[c].tool # "ask" => toolCalls[c].file \in Files
        /\ toolCalls[c].pc \in {"loading", "read", "stored"} => toolCalls[c].tool # "ask"

\* Calls are under way in the phase of the tools only ...
CallsAreInBatch ==
    \A c \in ToolCalls : toolCalls[c].pc \notin {"unused", "done"} => agentRun.phase = "tools"

\* ... and no model call is made once the author was asked.
QuestionEndsTheRun == agentRun.question => agentRun.phase # "model"

\* A proposal is what the finished run left, until it is applied.
ProposalIsNew ==
    policy = "propose" =>
        /\ applied => agentRun.phase = "completed"
        /\ proposal # NoTexts => agentRun.phase = "completed" /\ ~ applied

AgentInv ==
    /\ AgentTypes /\ CallsHaveFiles /\ CallsAreInBatch /\ QuestionEndsTheRun
    /\ ProposalIsNew /\ ProposalAppliedOnce /\ AuthorTextIsKept

-----------------------------------------------------------------------------
(* What is stored.                                                         *)

LEMMA OneIsTexts ==
    ASSUME NEW f, NEW text \in Text
    PROVE  One(f, text) \in Texts
<1>1. {} \in Text
  BY DEF Text
<1> QED
  BY <1>1 DEF One, NoTexts, Texts

LEMMA NoTextsIsTexts == NoTexts \in Texts
<1>1. {} \in Text
  BY DEF Text
<1> QED
  BY <1>1 DEF NoTexts, Texts

\* applyStoryArtifacts keeps the author's versions, whatever it puts in their place.
LEMMA DocumentsKeep ==
    ASSUME AuthorTextIsKept, drafts \in Texts,
           history \in [Chapters -> SUBSET Text],
           NEW texts \in Texts, ApplyDocuments(texts), saves' = saves
    PROVE  /\ AuthorTextIsKept'
           /\ drafts' \in Texts /\ history' \in [Chapters -> SUBSET Text]
<1>1. /\ drafts' = [f \in Files |-> IF texts[f] = {} THEN drafts[f] ELSE texts[f]]
      /\ history' = [f \in Chapters |->
            IF texts[f] \in {{}, drafts[f]} THEN history[f]
            ELSE history[f] \cup ({drafts[f]} \ {{}})]
  BY DEF ApplyDocuments, DocumentsOver
<1>2. ASSUME NEW f \in Chapters, NEW text, text # {}, text \in history[f] \cup {drafts[f]}
      PROVE  text \in history'[f] \cup {drafts'[f]}
  <2>1. f \in Files
    BY StoryAgentAssumption
  <2>2. CASE texts[f] \in {{}, drafts[f]}
    BY <1>1, <1>2, <2>1, <2>2
  <2>3. CASE texts[f] \notin {{}, drafts[f]}
    BY <1>1, <1>2, <2>1, <2>3
  <2> QED
    BY <2>2, <2>3
<1>3. AuthorTextIsKept'
  <2>1. ASSUME NEW f \in Chapters
        PROVE  /\ Passages \in history'[f] \cup {drafts'[f]}
               /\ \A a \in Saves :
                     saves[a] = f => Passages \cup {a} \in history'[f] \cup {drafts'[f]}
    BY <1>2, StoryAgentAssumption DEF AuthorTextIsKept
  <2> QED
    BY <2>1 DEF AuthorTextIsKept
<1>4. drafts' \in Texts
  BY <1>1 DEF Texts
<1>5. history' \in [Chapters -> SUBSET Text]
  <2>1. \A f \in Chapters : drafts[f] \in Text /\ history[f] \in SUBSET Text
    BY StoryAgentAssumption DEF Texts
  <2> QED
    BY <1>1, <2>1
<1> QED
  BY <1>3, <1>4, <1>5

LEMMA SaveKeeps ==
    ASSUME AgentInv, NEW a \in Saves, NEW f \in Chapters, SaveChapter(a, f)
    PROVE  AgentInv'
<1> DEFINE content == Passages \cup {a}
<1>1. /\ saves[a] = NoFile /\ saves' = [saves EXCEPT ![a] = f]
      /\ standing' = [standing EXCEPT ![f] = content]
      /\ drafts' = [drafts EXCEPT ![f] = content]
      /\ history' = [history EXCEPT ![f] = IF drafts[f] \in {{}, content} THEN history[f]
                                            ELSE history[f] \cup {drafts[f]}]
      /\ UNCHANGED <<policy, required, workspace, changes, toolCalls, agentRun, proposal, applied>>
  BY DEF SaveChapter, agentRunVars
<1>2. content \in Text /\ content # {} /\ f \in Files
  BY StoryAgentAssumption DEF Text
<1> HIDE DEF content
<1>3. AgentTypes'
  <2>1. drafts' \in Texts /\ standing' \in Texts
    BY <1>1, <1>2 DEF AgentInv, AgentTypes, Texts
  <2>2. history' \in [Chapters -> SUBSET Text]
    <3>1. drafts[f] \in Text /\ history \in [Chapters -> SUBSET Text]
      BY <1>2 DEF AgentInv, AgentTypes, Texts
    <3> QED
      BY <1>1, <3>1
  <2>3. saves' \in [Saves -> Chapters \cup {NoFile}]
    BY <1>1 DEF AgentInv, AgentTypes
  <2> QED
    BY <1>1, <2>1, <2>2, <2>3 DEF AgentInv, AgentTypes
<1>4. CallsHaveFiles' /\ CallsAreInBatch' /\ QuestionEndsTheRun' /\ ProposalIsNew'
  BY <1>1 DEF AgentInv, CallsHaveFiles, CallsAreInBatch, QuestionEndsTheRun, ProposalIsNew
<1>5. ProposalAppliedOnce'
  BY <1>1 DEF AgentInv, AgentTypes, Texts, ProposalAppliedOnce
<1>6. AuthorTextIsKept'
  <2>1. /\ drafts'[f] = content
        /\ drafts[f] \in history'[f] \cup {drafts'[f], {}}
        /\ history[f] \subseteq history'[f]
        /\ \A g \in Chapters : g # f => drafts'[g] = drafts[g] /\ history'[g] = history[g]
        /\ \A b \in Saves : b # a => saves'[b] = saves[b]
        /\ saves'[a] = f
    BY <1>1, <1>2, StoryAgentAssumption DEF AgentInv, AgentTypes, Texts
  <2>2. ASSUME NEW text, text # {}, text \in history[f] \cup {drafts[f]}
        PROVE  text \in history'[f] \cup {drafts'[f]}
    BY <2>1, <2>2
  <2>3. ASSUME NEW g \in Chapters
        PROVE  /\ Passages \in history'[g] \cup {drafts'[g]}
               /\ \A b \in Saves :
                     saves'[b] = g => Passages \cup {b} \in history'[g] \cup {drafts'[g]}
    <3>1. CASE g = f
      <4>1. Passages \in history'[f] \cup {drafts'[f]}
        BY <2>2, StoryAgentAssumption DEF AgentInv, AuthorTextIsKept
      <4>2. ASSUME NEW b \in Saves, saves'[b] = f
            PROVE  Passages \cup {b} \in history'[f] \cup {drafts'[f]}
        <5>1. CASE b = a
          BY <2>1, <5>1 DEF content
        <5>2. CASE b # a
          BY <2>1, <2>2, <4>2, <5>2, StoryAgentAssumption DEF AgentInv, AuthorTextIsKept
        <5> QED
          BY <5>1, <5>2
      <4> QED
        BY <3>1, <4>1, <4>2
    <3>2. CASE g # f
      BY <2>1, <3>2 DEF AgentInv, AuthorTextIsKept
    <3> QED
      BY <3>1, <3>2
  <2> QED
    BY <2>3 DEF AuthorTextIsKept
<1> QED
  BY <1>3, <1>4, <1>5, <1>6 DEF AgentInv

-----------------------------------------------------------------------------
(* Steps that store nothing.                                               *)

LEMMA UnstoredStep ==
    ASSUME AgentInv,
           UNCHANGED <<policy, required, drafts, history, saves, proposal, applied, standing>>,
           workspace' \in Texts, changes' \in SUBSET Files,
           toolCalls' \in [ToolCalls -> ToolCall], agentRun' \in AgentRun,
           agentRun'.recoveries <= MaxRecoveries, agentRun'.validations <= required,
           CallsHaveFiles', CallsAreInBatch', QuestionEndsTheRun',
           agentRun.phase = "completed" => agentRun'.phase = "completed"
    PROVE  AgentInv'
<1>1. AgentTypes'
  BY DEF AgentInv, AgentTypes
<1>2. ProposalIsNew' /\ ProposalAppliedOnce'
  BY DEF AgentInv, ProposalIsNew, ProposalAppliedOnce
<1>3. AuthorTextIsKept'
  BY DEF AgentInv, AuthorTextIsKept
<1> QED
  BY <1>1, <1>2, <1>3 DEF AgentInv

\* A call that is under way goes on.
LEMMA CallStep ==
    ASSUME AgentInv, NEW c \in ToolCalls, toolCalls[c].pc \notin {"unused", "done"},
           NEW pc \in {"loading", "read", "stored", "done"}, NEW text \in Text,
           toolCalls' = [toolCalls EXCEPT ![c] = [toolCalls[c] EXCEPT !.text = text, !.pc = pc]],
           pc # "done" => toolCalls[c].tool # "ask",
           agentRun'.phase = agentRun.phase
    PROVE  /\ toolCalls' \in [ToolCalls -> ToolCall] /\ CallsHaveFiles' /\ CallsAreInBatch'
           /\ \A d \in ToolCalls : toolCalls[d].pc = "unused" => toolCalls'[d].pc = "unused"
<1> DEFINE call == [toolCalls[c] EXCEPT !.text = text, !.pc = pc]
<1>1. toolCalls[c] \in ToolCall
  BY DEF AgentInv, AgentTypes
<1>2. /\ call \in ToolCall /\ call.pc = pc /\ call.tool = toolCalls[c].tool
      /\ call.file = toolCalls[c].file
  BY <1>1 DEF ToolCall
<1>3. toolCalls' = [toolCalls EXCEPT ![c] = call]
  OBVIOUS
<1> HIDE DEF call
<1>4. toolCalls'[c] = call /\ \A d \in ToolCalls : d # c => toolCalls'[d] = toolCalls[d]
  BY <1>3 DEF AgentInv, AgentTypes
<1>5. toolCalls' \in [ToolCalls -> ToolCall]
  BY <1>2, <1>3 DEF AgentInv, AgentTypes
<1>6. CallsHaveFiles'
  BY <1>2, <1>4 DEF AgentInv, CallsHaveFiles
<1>7. CallsAreInBatch'
  BY <1>2, <1>4 DEF AgentInv, CallsAreInBatch
<1> QED
  BY <1>2, <1>4, <1>5, <1>6, <1>7

LEMMA GotoStep ==
    ASSUME AgentInv, NEW c \in ToolCalls, toolCalls[c].pc \notin {"unused", "done"},
           NEW pc \in {"loading", "read", "stored", "done"}, Goto(c, pc),
           pc # "done" => toolCalls[c].tool # "ask",
           agentRun'.phase = agentRun.phase
    PROVE  /\ toolCalls' \in [ToolCalls -> ToolCall] /\ CallsHaveFiles' /\ CallsAreInBatch'
           /\ \A d \in ToolCalls : toolCalls[d].pc = "unused" => toolCalls'[d].pc = "unused"
<1>1. toolCalls[c] \in ToolCall
  BY DEF AgentInv, AgentTypes
<1>2. [toolCalls[c] EXCEPT !.pc = pc] =
         [toolCalls[c] EXCEPT !.text = toolCalls[c].text, !.pc = pc]
  BY <1>1 DEF ToolCall
<1>3. toolCalls' = [toolCalls EXCEPT ![c] = [toolCalls[c] EXCEPT !.pc = pc]]
  BY DEF Goto
<1>4. toolCalls[c].text \in Text
  BY <1>1 DEF ToolCall
<1>5. toolCalls' = [toolCalls EXCEPT ![c] =
                        [toolCalls[c] EXCEPT !.text = toolCalls[c].text, !.pc = pc]]
  BY <1>2, <1>3
<1> QED
  BY <1>4, <1>5, CallStep

LEMMA RunTypes ==
    ASSUME AgentInv
    PROVE  /\ agentRun \in AgentRun /\ agentRun.recoveries <= MaxRecoveries
           /\ agentRun.validations <= required /\ required \in Nat
           /\ Cardinality(changes) \in Nat
           /\ workspace \in Texts /\ changes \in SUBSET Files
           /\ toolCalls \in [ToolCalls -> ToolCall]
<1>1. IsFiniteSet(changes)
  BY StoryAgentAssumption, FS_Subset DEF AgentInv, AgentTypes
<1> QED
  BY <1>1, StoryAgentAssumption, FS_CardinalityType DEF AgentInv, AgentTypes

LEMMA ReadStoryFileStep ==
    ASSUME AgentInv, NEW c \in ToolCalls, ReadStoryFile(c)
    PROVE  AgentInv'
<1> DEFINE f     == toolCalls[c].file
           empty == workspace[f] = {}
           text  == IF empty THEN drafts[f] ELSE workspace[f]
           pc    == IF empty THEN "loading" ELSE AfterRead(c)
<1>1. /\ toolCalls[c].pc = "new" /\ toolCalls[c].tool \in {"read", "edit"}
      /\ toolCalls' = [toolCalls EXCEPT ![c].text = text, ![c].pc = pc]
      /\ UNCHANGED <<policy, required, drafts, history, saves, workspace, changes, agentRun,
                     proposal, applied, standing>>
  BY DEF ReadStoryFile, Unstored, ToolsUnchanged
<1>2. f \in Files
  BY <1>1 DEF AgentInv, CallsHaveFiles
<1>3. text \in Text
  BY <1>2 DEF AgentInv, AgentTypes, Texts
<1>4. pc \in {"loading", "read", "done"}
  BY DEF AfterRead
<1> HIDE DEF text, pc
<1>5. toolCalls' = [toolCalls EXCEPT ![c] = [toolCalls[c] EXCEPT !.text = text, !.pc = pc]]
  BY <1>1, RunTypes
<1>6. /\ toolCalls' \in [ToolCalls -> ToolCall] /\ CallsHaveFiles' /\ CallsAreInBatch'
  BY <1>1, <1>3, <1>4, <1>5, CallStep
<1>7. QuestionEndsTheRun'
  BY <1>1 DEF AgentInv, QuestionEndsTheRun
<1> QED
  BY <1>1, <1>6, <1>7, RunTypes, UnstoredStep

LEMMA LoadedStep ==
    ASSUME AgentInv, NEW c \in ToolCalls, Loaded(c)
    PROVE  AgentInv'
<1>1. /\ toolCalls[c].pc = "loading" /\ Goto(c, AfterRead(c))
      /\ workspace' = [workspace EXCEPT ![toolCalls[c].file] = toolCalls[c].text]
      /\ UNCHANGED <<policy, required, drafts, history, saves, changes, agentRun,
                     proposal, applied, standing>>
  BY DEF Loaded, Unstored, ToolsUnchanged
<1>2. workspace' \in Texts
  <2>1. toolCalls[c].text \in Text
    BY RunTypes DEF ToolCall
  <2> QED
    BY <1>1, <2>1, RunTypes DEF Texts
<1>3. AfterRead(c) \in {"read", "done"} /\ toolCalls[c].tool # "ask"
  BY <1>1 DEF AfterRead, AgentInv, CallsHaveFiles
<1>4. /\ toolCalls' \in [ToolCalls -> ToolCall] /\ CallsHaveFiles' /\ CallsAreInBatch'
  BY <1>1, <1>3, GotoStep
<1>5. QuestionEndsTheRun'
  BY <1>1 DEF AgentInv, QuestionEndsTheRun
<1> QED
  BY <1>1, <1>2, <1>4, <1>5, RunTypes, UnstoredStep

LEMMA NewTextIsText ==
    ASSUME AgentInv, NEW c \in ToolCalls
    PROVE  NewText(c) \in Text
<1>1. toolCalls[c].text \in Text
  BY RunTypes DEF ToolCall
<1> QED
  BY <1>1 DEF NewText, Text

LEMMA KeepStep ==
    ASSUME AgentInv, NEW c \in ToolCalls, Keep(c)
    PROVE  AgentInv'
<1>1. /\ toolCalls[c].pc = "stored" /\ Goto(c, "done")
      /\ workspace' = [workspace EXCEPT ![toolCalls[c].file] = NewText(c)]
      /\ changes' = changes \cup {toolCalls[c].file}
      /\ UNCHANGED <<policy, required, drafts, history, saves, agentRun,
                     proposal, applied, standing>>
  BY DEF Keep, Unstored, ToolsUnchanged
<1>2. toolCalls[c].file \in Files
  BY <1>1 DEF AgentInv, CallsHaveFiles
<1>3. workspace' \in Texts /\ changes' \in SUBSET Files
  BY <1>1, <1>2, NewTextIsText, RunTypes DEF Texts
<1>4. /\ toolCalls' \in [ToolCalls -> ToolCall] /\ CallsHaveFiles' /\ CallsAreInBatch'
  BY <1>1, GotoStep
<1>5. QuestionEndsTheRun'
  BY <1>1 DEF AgentInv, QuestionEndsTheRun
<1> QED
  BY <1>1, <1>3, <1>4, <1>5, RunTypes, UnstoredStep

\* A question is asked, and a result submitted, in the phase of the tools.
LEMMA AskStep ==
    ASSUME AgentInv, NEW c \in ToolCalls, Ask(c)
    PROVE  AgentInv'
<1>1. /\ toolCalls[c].pc = "new" /\ Goto(c, "done")
      /\ UNCHANGED <<policy, required, drafts, history, saves, workspace, changes,
                     proposal, applied, standing>>
  BY DEF Ask, Unstored, ToolsUnchanged
<1>2. PICK fresh \in BOOLEAN :
         agentRun' = [agentRun EXCEPT
             !.question = @ \/ (fresh /\ changes = {} /\ ~ agentRun.submitted)]
  BY DEF Ask
<1> DEFINE question == agentRun.question \/ (fresh /\ changes = {} /\ ~ agentRun.submitted)
<1>3. question \in BOOLEAN
  OBVIOUS
<1>4. agentRun' = [agentRun EXCEPT !.question = question]
  BY <1>2
<1> HIDE DEF question
<1>5. /\ agentRun' \in AgentRun /\ agentRun'.phase = agentRun.phase
      /\ agentRun'.recoveries = agentRun.recoveries
      /\ agentRun'.validations = agentRun.validations
  BY <1>3, <1>4, RunTypes DEF AgentRun
<1>6. agentRun.phase = "tools"
  BY <1>1 DEF AgentInv, CallsAreInBatch
<1>7. /\ toolCalls' \in [ToolCalls -> ToolCall] /\ CallsHaveFiles' /\ CallsAreInBatch'
  BY <1>1, <1>5, GotoStep
<1>8. QuestionEndsTheRun'
  BY <1>5, <1>6 DEF QuestionEndsTheRun
<1> QED
  BY <1>1, <1>5, <1>7, <1>8, RunTypes, UnstoredStep

LEMMA SubmitStep ==
    ASSUME AgentInv, NEW c \in ToolCalls, Submit(c)
    PROVE  AgentInv'
<1>1. /\ toolCalls[c].pc = "new" /\ Goto(c, "done")
      /\ UNCHANGED <<policy, required, drafts, history, saves, workspace, changes,
                     proposal, applied, standing>>
  BY DEF Submit, Unstored, ToolsUnchanged
<1>2. PICK artifacts \in {NoTexts, One(toolCalls[c].file, {c})} :
         agentRun' = [agentRun EXCEPT !.submitted = TRUE, !.artifacts = artifacts]
  BY DEF Submit
<1>3. artifacts \in Texts
  <2>1. {c} \in Text
    BY DEF Text
  <2> QED
    BY <2>1, OneIsTexts, NoTextsIsTexts
<1>4. /\ agentRun' \in AgentRun /\ agentRun'.phase = agentRun.phase
      /\ agentRun'.recoveries = agentRun.recoveries
      /\ agentRun'.validations = agentRun.validations
  BY <1>2, <1>3, RunTypes DEF AgentRun
<1>5. agentRun.phase = "tools"
  BY <1>1 DEF AgentInv, CallsAreInBatch
<1>6. /\ toolCalls' \in [ToolCalls -> ToolCall] /\ CallsHaveFiles' /\ CallsAreInBatch'
  BY <1>1, <1>4, GotoStep
<1>7. QuestionEndsTheRun'
  BY <1>4, <1>5 DEF QuestionEndsTheRun
<1> QED
  BY <1>1, <1>4, <1>6, <1>7, RunTypes, UnstoredStep

LEMMA FailCallStep ==
    ASSUME AgentInv, NEW c \in ToolCalls, FailCall(c)
    PROVE  AgentInv'
<1>1. /\ toolCalls[c].pc \in {"new", "loading", "read"} /\ Goto(c, "done")
      /\ UNCHANGED <<policy, required, drafts, history, saves, workspace, changes, agentRun,
                     proposal, applied, standing>>
  BY DEF FailCall, Unstored, ToolsUnchanged
<1>2. /\ toolCalls' \in [ToolCalls -> ToolCall] /\ CallsHaveFiles' /\ CallsAreInBatch'
  BY <1>1, GotoStep
<1>3. QuestionEndsTheRun'
  BY <1>1 DEF AgentInv, QuestionEndsTheRun
<1> QED
  BY <1>1, <1>2, <1>3, RunTypes, UnstoredStep

LEMMA CallToolsStep ==
    ASSUME AgentInv, CallTools
    PROVE  AgentInv'
<1>1. /\ agentRun.phase = "model" /\ agentRun' = [agentRun EXCEPT !.phase = "tools"]
      /\ UNCHANGED <<policy, required, drafts, history, saves, workspace, changes,
                     proposal, applied, standing>>
  BY DEF CallTools
<1>2. PICK batch \in SUBSET ToolCalls :
         \E tool \in [batch -> Tools], target \in [batch -> Files] :
             toolCalls' = [c \in ToolCalls |->
                 IF c \in batch
                 THEN [pc |-> "new", tool |-> tool[c], text |-> {},
                       file |-> IF tool[c] = "ask" THEN NoFile ELSE target[c]]
                 ELSE toolCalls[c]]
  BY DEF CallTools
<1>3. PICK tool \in [batch -> Tools], target \in [batch -> Files] :
             toolCalls' = [c \in ToolCalls |->
                 IF c \in batch
                 THEN [pc |-> "new", tool |-> tool[c], text |-> {},
                       file |-> IF tool[c] = "ask" THEN NoFile ELSE target[c]]
                 ELSE toolCalls[c]]
  BY <1>2
<1>4. ASSUME NEW c \in ToolCalls
      PROVE  /\ toolCalls'[c] \in ToolCall
             /\ c \in batch => /\ toolCalls'[c].pc = "new"
                               /\ toolCalls'[c].tool # "ask" => toolCalls'[c].file \in Files
             /\ c \notin batch => toolCalls'[c] = toolCalls[c]
  <2>1. CASE c \in batch
    <3> DEFINE aFile == IF tool[c] = "ask" THEN NoFile ELSE target[c]
    <3>1. tool[c] \in Tools /\ target[c] \in Files
      BY <2>1
    <3>2. toolCalls'[c] = [pc |-> "new", tool |-> tool[c], text |-> {}, file |-> aFile]
      BY <1>3, <2>1
    <3>3. aFile \in Files \cup {NoFile} /\ (tool[c] # "ask" => aFile \in Files)
      BY <3>1
    <3>4. {} \in Text
      BY DEF Text
    <3> HIDE DEF aFile
    <3> QED
      BY <2>1, <3>1, <3>2, <3>3, <3>4 DEF ToolCall
  <2>2. CASE c \notin batch
    BY <1>3, <2>2, RunTypes
  <2> QED
    BY <2>1, <2>2
<1>5. /\ agentRun' \in AgentRun /\ agentRun'.phase = "tools"
      /\ agentRun'.recoveries = agentRun.recoveries
      /\ agentRun'.validations = agentRun.validations
  BY <1>1, RunTypes DEF AgentRun
<1>6. toolCalls' \in [ToolCalls -> ToolCall]
  BY <1>3, <1>4
<1>7. CallsHaveFiles'
  BY <1>4 DEF AgentInv, CallsHaveFiles
<1>8. CallsAreInBatch' /\ QuestionEndsTheRun'
  BY <1>5 DEF CallsAreInBatch, QuestionEndsTheRun
<1> QED
  BY <1>1, <1>5, <1>6, <1>7, <1>8, RunTypes, UnstoredStep

\* Steps of the run itself, which leave its calls as they are.
LEMMA RunStep ==
    ASSUME AgentInv,
           UNCHANGED <<policy, required, drafts, history, saves, workspace, changes, toolCalls,
                       proposal, applied, standing>>,
           agentRun' \in AgentRun,
           agentRun'.recoveries <= MaxRecoveries, agentRun'.validations <= required,
           agentRun.phase = "tools" => \/ agentRun'.phase = "tools"
                                       \/ \A c \in ToolCalls : toolCalls[c].pc \in {"unused", "done"},
           QuestionEndsTheRun',
           agentRun.phase = "completed" => agentRun'.phase = "completed"
    PROVE  AgentInv'
<1>1. CallsHaveFiles' /\ CallsAreInBatch'
  BY DEF AgentInv, CallsHaveFiles, CallsAreInBatch
<1> QED
  BY <1>1, RunTypes, UnstoredStep

LEMMA AnswerStep ==
    ASSUME AgentInv, Answer
    PROVE  AgentInv'
<1>1. /\ agentRun.phase = "model"
      /\ UNCHANGED <<policy, required, drafts, history, saves, workspace, changes, toolCalls,
                     proposal, applied, standing>>
  BY DEF Answer
<1>2. PICK length \in BOOLEAN, error \in BOOLEAN :
         agentRun' = [agentRun EXCEPT !.phase = "settled", !.length = length, !.error = error]
  BY DEF Answer
<1>3. /\ agentRun' \in AgentRun /\ agentRun'.phase = "settled"
      /\ agentRun'.recoveries = agentRun.recoveries
      /\ agentRun'.validations = agentRun.validations
  BY <1>2, RunTypes DEF AgentRun
<1>4. QuestionEndsTheRun'
  BY <1>3 DEF QuestionEndsTheRun
<1> QED
  BY <1>1, <1>3, <1>4, RunTypes, RunStep

LEMMA EndBatchStep ==
    ASSUME AgentInv, EndBatch
    PROVE  AgentInv'
<1>1. /\ agentRun.phase = "tools"
      /\ \A c \in ToolCalls : toolCalls[c].pc \in {"unused", "done"}
      /\ UNCHANGED <<policy, required, drafts, history, saves, workspace, changes, toolCalls,
                     proposal, applied, standing>>
  BY DEF EndBatch, Unstored, ToolsUnchanged
<1>2. PICK late \in BOOLEAN :
         agentRun' = IF agentRun.question \/ agentRun.submitted
              THEN [agentRun EXCEPT !.phase = "settled", !.length = FALSE, !.error = late]
              ELSE [agentRun EXCEPT !.phase = "model"]
  BY DEF EndBatch
<1>3. /\ agentRun' \in AgentRun /\ QuestionEndsTheRun'
      /\ agentRun'.recoveries = agentRun.recoveries
      /\ agentRun'.validations = agentRun.validations
  <2>1. CASE agentRun.question \/ agentRun.submitted
    BY <1>2, <2>1, RunTypes DEF AgentRun, QuestionEndsTheRun
  <2>2. CASE ~ (agentRun.question \/ agentRun.submitted)
    BY <1>2, <2>2, RunTypes DEF AgentRun, QuestionEndsTheRun
  <2> QED
    BY <2>1, <2>2
<1> QED
  BY <1>1, <1>3, RunTypes, RunStep

LEMMA StopStep ==
    ASSUME AgentInv, StopAgentRun
    PROVE  AgentInv'
<1>1. /\ agentRun' = [agentRun EXCEPT !.stopped = TRUE]
      /\ UNCHANGED <<policy, required, drafts, history, saves, workspace, changes, toolCalls,
                     proposal, applied, standing>>
  BY DEF StopAgentRun, Unstored, ToolsUnchanged
<1>2. /\ agentRun' \in AgentRun /\ agentRun'.phase = agentRun.phase
      /\ agentRun'.question = agentRun.question
      /\ agentRun'.recoveries = agentRun.recoveries
      /\ agentRun'.validations = agentRun.validations
  BY <1>1, RunTypes DEF AgentRun
<1>3. QuestionEndsTheRun'
  BY <1>2 DEF AgentInv, QuestionEndsTheRun
<1> QED
  BY <1>1, <1>2, <1>3, RunTypes, RunStep

\* The repairs keep to their budgets, and are not made once the author was asked.
LEMMA RecoverOutputStep ==
    ASSUME AgentInv, RecoverOutput
    PROVE  AgentInv'
<1>1. /\ agentRun.phase = "settled" /\ agentRun.recoveries < MaxRecoveries
      /\ ~ agentRun.question
      /\ UNCHANGED <<policy, required, drafts, history, saves, workspace, changes, toolCalls,
                     proposal, applied, standing>>
  BY DEF RecoverOutput, Prompt, Truncated
<1>2. PICK stage \in {"first", "last"} :
         agentRun' = [agentRun EXCEPT !.recoveries = @ + 1, !.stage = stage,
                         !.phase = "model", !.error = FALSE, !.length = FALSE]
  <2> DEFINE stage == IF agentRun.stage = "first" THEN "first" ELSE "last"
  <2>1. agentRun' = [[agentRun EXCEPT !.recoveries = @ + 1, !.stage = stage]
                        EXCEPT !.phase = "model", !.error = FALSE, !.length = FALSE]
    BY DEF RecoverOutput, Prompt
  <2>2. stage \in {"first", "last"}
    OBVIOUS
  <2> HIDE DEF stage
  <2> QED
    BY <2>1, <2>2
<1>3. /\ agentRun' \in AgentRun /\ agentRun'.recoveries = agentRun.recoveries + 1
      /\ agentRun'.validations = agentRun.validations
      /\ agentRun'.question = agentRun.question
  <2> DEFINE n == agentRun.recoveries + 1
  <2>1. n \in Nat
    BY RunTypes DEF AgentRun
  <2>2. agentRun' = [agentRun EXCEPT !.recoveries = n, !.stage = stage,
                         !.phase = "model", !.error = FALSE, !.length = FALSE]
    BY <1>2
  <2>3. agentRun \in AgentRun
    BY RunTypes
  <2> HIDE DEF n
  <2>4. /\ agentRun' \in AgentRun /\ agentRun'.recoveries = n
        /\ agentRun'.validations = agentRun.validations
        /\ agentRun'.question = agentRun.question
    BY <2>1, <2>2, <2>3 DEF AgentRun
  <2> QED
    BY <2>4 DEF n
<1>4. agentRun'.recoveries <= MaxRecoveries
  BY <1>1, <1>3, RunTypes, StoryAgentAssumption DEF AgentRun
<1>5. QuestionEndsTheRun'
  BY <1>1, <1>3 DEF QuestionEndsTheRun
<1> QED
  BY <1>1, <1>3, <1>4, <1>5, RunTypes, RunStep

LEMMA ValidateStep ==
    ASSUME AgentInv, Validate
    PROVE  AgentInv'
<1>1. /\ agentRun.phase = "settled" /\ agentRun.validations < required
      /\ ~ agentRun.question
      /\ UNCHANGED <<policy, required, drafts, history, saves, workspace, changes, toolCalls,
                     proposal, applied, standing>>
  BY DEF Validate, Prompt, Incomplete, FilesMissing
<1>2. agentRun' = [agentRun EXCEPT !.validations = @ + 1, !.before = Cardinality(changes),
                      !.stage = "validation", !.submitted = FALSE, !.artifacts = NoTexts,
                      !.phase = "model", !.error = FALSE, !.length = FALSE]
  BY DEF Validate, Prompt
<1>3. /\ agentRun' \in AgentRun /\ agentRun'.validations = agentRun.validations + 1
      /\ agentRun'.recoveries = agentRun.recoveries
      /\ agentRun'.question = agentRun.question
  <2> DEFINE n == agentRun.validations + 1
  <2>1. n \in Nat
    BY RunTypes DEF AgentRun
  <2>2. agentRun' = [agentRun EXCEPT !.validations = n, !.before = Cardinality(changes),
                        !.stage = "validation", !.submitted = FALSE, !.artifacts = NoTexts,
                        !.phase = "model", !.error = FALSE, !.length = FALSE]
    BY <1>2
  <2>3. agentRun \in AgentRun /\ Cardinality(changes) \in Nat
    BY RunTypes
  <2> HIDE DEF n
  <2>4. /\ agentRun' \in AgentRun /\ agentRun'.validations = n
        /\ agentRun'.recoveries = agentRun.recoveries
        /\ agentRun'.question = agentRun.question
    BY <2>1, <2>2, <2>3, NoTextsIsTexts DEF AgentRun
  <2> QED
    BY <2>4 DEF n
<1>4. agentRun'.validations <= required
  BY <1>1, <1>3, RunTypes DEF AgentRun
<1>5. QuestionEndsTheRun'
  BY <1>1, <1>3 DEF QuestionEndsTheRun
<1> QED
  BY <1>1, <1>3, <1>4, <1>5, RunTypes, RunStep

-----------------------------------------------------------------------------
(* Steps that store something.                                             *)

LEMMA PersistStep ==
    ASSUME AgentInv, NEW c \in ToolCalls, Persist(c)
    PROVE  AgentInv'
<1>1. /\ toolCalls[c].pc \in {"read", "new"}
      /\ toolCalls[c].pc = "new" => toolCalls[c].tool = "write"
      /\ Goto(c, "stored")
      /\ UNCHANGED <<policy, required, saves, workspace, changes, agentRun,
                     proposal, applied, standing>>
  BY DEF Persist, ToolsUnchanged
<1>2. toolCalls[c].tool # "ask"
  BY <1>1 DEF AgentInv, CallsHaveFiles
<1>3. /\ toolCalls' \in [ToolCalls -> ToolCall] /\ CallsHaveFiles' /\ CallsAreInBatch'
  BY <1>1, <1>2, GotoStep
<1>4. QuestionEndsTheRun'
  BY <1>1 DEF AgentInv, QuestionEndsTheRun
<1>5. CASE policy = "allow"
  <2> DEFINE texts == One(toolCalls[c].file, NewText(c))
  <2>1. texts \in Texts
    BY NewTextIsText, OneIsTexts
  <2>2. ApplyDocuments(texts)
    BY <1>5 DEF Persist
  <2> HIDE DEF texts
  <2>3. /\ AuthorTextIsKept' /\ drafts' \in Texts /\ history' \in [Chapters -> SUBSET Text]
    BY <1>1, <2>1, <2>2, DocumentsKeep DEF AgentInv, AgentTypes
  <2>4. AgentTypes'
    BY <1>1, <1>3, <2>3 DEF AgentInv, AgentTypes
  <2>5. ProposalIsNew' /\ ProposalAppliedOnce'
    BY <1>1, <1>5 DEF ProposalIsNew, ProposalAppliedOnce
  <2> QED
    BY <1>3, <1>4, <2>3, <2>4, <2>5 DEF AgentInv
<1>6. CASE policy # "allow"
  <2>1. UNCHANGED <<drafts, history>>
    BY <1>6 DEF Persist, Unstored
  <2> QED
    BY <1>1, <1>3, <1>4, <2>1, RunTypes, UnstoredStep
<1> QED
  BY <1>5, <1>6

LEMMA ResultIsTexts ==
    ASSUME AgentInv
    PROVE  Result \in Texts
<1>1. agentRun.artifacts \in Texts /\ workspace \in Texts
  BY RunTypes DEF AgentRun
<1> QED
  BY <1>1 DEF Result, Texts

LEMMA FinishStep ==
    ASSUME AgentInv, FinishAgentRun
    PROVE  AgentInv'
<1>1. /\ agentRun.phase = "settled"
      /\ UNCHANGED <<policy, required, saves, workspace, changes, toolCalls, standing>>
  BY DEF FinishAgentRun
<1>2. PICK outcome \in {"failed", "needs_input", "completed"} :
         /\ agentRun' = [agentRun EXCEPT !.phase = outcome]
         /\ IF outcome = "completed" /\ policy = "allow"
            THEN ApplyDocuments(Result) /\ applied' = (Result # NoTexts) /\ UNCHANGED proposal
            ELSE /\ Unstored /\ UNCHANGED applied
                 /\ proposal' = IF outcome = "completed" THEN Result ELSE proposal
  <2> DEFINE failed == agentRun.stopped \/ agentRun.error
                          \/ (agentRun.length /\ ~ agentRun.question /\ ~ agentRun.submitted)
             outcome == IF failed THEN "failed"
                        ELSE IF agentRun.question THEN "needs_input" ELSE "completed"
  <2>1. /\ agentRun' = [agentRun EXCEPT !.phase = outcome]
        /\ IF outcome = "completed" /\ policy = "allow"
           THEN ApplyDocuments(Result) /\ applied' = (Result # NoTexts) /\ UNCHANGED proposal
           ELSE /\ Unstored /\ UNCHANGED applied
                /\ proposal' = IF outcome = "completed" THEN Result ELSE proposal
    BY DEF FinishAgentRun
  <2>2. outcome \in {"failed", "needs_input", "completed"}
    OBVIOUS
  <2> HIDE DEF outcome
  <2> QED
    BY <2>1, <2>2
<1>3. /\ agentRun' \in AgentRun /\ agentRun'.phase = outcome
      /\ agentRun'.recoveries = agentRun.recoveries
      /\ agentRun'.validations = agentRun.validations
  BY <1>2, RunTypes DEF AgentRun
<1>4. CallsHaveFiles' /\ CallsAreInBatch' /\ QuestionEndsTheRun'
  BY <1>1, <1>3 DEF AgentInv, CallsHaveFiles, CallsAreInBatch, QuestionEndsTheRun
<1>5. CASE outcome = "completed" /\ policy = "allow"
  <2>1. ApplyDocuments(Result) /\ applied' = (Result # NoTexts) /\ proposal' = proposal
    BY <1>2, <1>5
  <2>2. /\ AuthorTextIsKept' /\ drafts' \in Texts /\ history' \in [Chapters -> SUBSET Text]
    BY <1>1, <2>1, ResultIsTexts, DocumentsKeep DEF AgentInv, AgentTypes
  <2>3. applied' \in BOOLEAN
    BY <2>1
  <2>4. AgentTypes'
    BY <1>1, <1>3, <2>1, <2>2, <2>3 DEF AgentInv, AgentTypes
  <2>5. ProposalIsNew' /\ ProposalAppliedOnce'
    BY <1>1, <1>5 DEF ProposalIsNew, ProposalAppliedOnce
  <2> QED
    BY <1>4, <2>2, <2>4, <2>5 DEF AgentInv
<1>6. CASE ~ (outcome = "completed" /\ policy = "allow")
  <2>1. /\ UNCHANGED <<drafts, history, applied>>
        /\ proposal' = IF outcome = "completed" THEN Result ELSE proposal
    BY <1>2, <1>6 DEF Unstored
  <2>2. AgentTypes'
    BY <1>1, <1>3, <2>1, ResultIsTexts DEF AgentInv, AgentTypes
  <2>3. ProposalIsNew'
    BY <1>1, <1>3, <2>1 DEF AgentInv, ProposalIsNew
  <2>4. ProposalAppliedOnce' /\ AuthorTextIsKept'
    BY <1>1, <2>1 DEF AgentInv, ProposalAppliedOnce, AuthorTextIsKept
  <2> QED
    BY <1>4, <2>2, <2>3, <2>4 DEF AgentInv
<1> QED
  BY <1>5, <1>6

LEMMA ApplyProposalStep ==
    ASSUME AgentInv, ApplyProposal
    PROVE  AgentInv'
<1>1. /\ proposal # NoTexts /\ ApplyDocuments(proposal)
      /\ applied' = TRUE /\ proposal' = NoTexts
      /\ standing' = [f \in Files |->
            IF applied \/ proposal[f] = {} THEN standing[f] ELSE proposal[f]]
      /\ UNCHANGED <<policy, required, saves, workspace, changes, toolCalls, agentRun>>
  BY DEF ApplyProposal, ApplyProposalAnd, agentRunVars
<1>2. /\ AuthorTextIsKept' /\ drafts' \in Texts /\ history' \in [Chapters -> SUBSET Text]
  BY <1>1, DocumentsKeep DEF AgentInv, AgentTypes
<1>3. standing' \in Texts
  BY <1>1 DEF AgentInv, AgentTypes, Texts
<1>4. AgentTypes'
  BY <1>1, <1>2, <1>3, NoTextsIsTexts DEF AgentInv, AgentTypes
<1>5. CallsHaveFiles' /\ CallsAreInBatch' /\ QuestionEndsTheRun'
  BY <1>1 DEF AgentInv, CallsHaveFiles, CallsAreInBatch, QuestionEndsTheRun
<1>6. ProposalIsNew'
  BY <1>1 DEF AgentInv, ProposalIsNew
<1>7. ProposalAppliedOnce'
  <2> SUFFICES ASSUME policy = "propose" PROVE drafts' = standing'
    BY <1>1 DEF ProposalAppliedOnce
  <2>1. drafts = standing /\ ~ applied
    BY <1>1 DEF AgentInv, ProposalAppliedOnce, ProposalIsNew
  <2>2. drafts' = [f \in Files |-> IF proposal[f] = {} THEN drafts[f] ELSE proposal[f]]
    BY <1>1 DEF ApplyDocuments, DocumentsOver
  <2> QED
    BY <1>1, <2>1, <2>2
<1> QED
  BY <1>2, <1>4, <1>5, <1>6, <1>7 DEF AgentInv

-----------------------------------------------------------------------------
LEMMA AgentInitInv == AgentInit => AgentInv
<1> SUFFICES ASSUME AgentInit PROVE AgentInv
  OBVIOUS
<1>1. /\ policy \in {"allow", "propose"} /\ required \in RequiredFiles
      /\ drafts = [f \in Files |-> Passages] /\ standing = [f \in Files |-> Passages]
      /\ history = [f \in Chapters |-> {}] /\ saves = [a \in Saves |-> NoFile]
      /\ changes = {} /\ toolCalls = [c \in ToolCalls |-> Unused]
      /\ proposal = NoTexts /\ applied = FALSE
  BY DEF AgentInit
<1>2. Passages \in Text /\ {} \in Text
  BY DEF Text
<1>3. /\ agentRun \in AgentRun /\ ~ agentRun.question
      /\ agentRun.recoveries = 0 /\ agentRun.validations = 0
  BY NoTextsIsTexts DEF AgentInit, AgentRun
<1>4. Unused \in ToolCall /\ Unused.pc = "unused"
  BY <1>2 DEF Unused, ToolCall, Tools
<1>5. workspace \in Texts
  <2>1. \A f \in Files : drafts[f] = Passages
    BY <1>1
  <2>2. Excerpt(Passages) \in Text
    BY DEF Excerpt, Text
  <2>3. workspace = [f \in Files |-> IF f \in LoadedFiles THEN Excerpt(drafts[f]) ELSE {}]
    BY DEF AgentInit
  <2> QED
    BY <1>2, <2>1, <2>2, <2>3 DEF Texts
<1>6. AgentTypes
  <2>1. drafts \in Texts /\ standing \in Texts
    BY <1>1, <1>2 DEF Texts
  <2>2. agentRun.recoveries <= MaxRecoveries /\ agentRun.validations <= required
    BY <1>1, <1>3, StoryAgentAssumption
  <2> QED
    BY <1>1, <1>3, <1>4, <1>5, <2>1, <2>2, NoTextsIsTexts DEF AgentTypes
<1>7. CallsHaveFiles /\ CallsAreInBatch /\ QuestionEndsTheRun
  BY <1>1, <1>3, <1>4 DEF CallsHaveFiles, CallsAreInBatch, QuestionEndsTheRun
<1>8. ProposalIsNew /\ ProposalAppliedOnce
  BY <1>1 DEF ProposalIsNew, ProposalAppliedOnce
<1>9. AuthorTextIsKept
  BY <1>1, StoryAgentAssumption DEF AuthorTextIsKept
<1> QED
  BY <1>6, <1>7, <1>8, <1>9 DEF AgentInv

LEMMA AgentNextInv == AgentInv /\ [AgentNext]_agentVars => AgentInv'
<1> SUFFICES ASSUME AgentInv, [AgentNext]_agentVars PROVE AgentInv'
  OBVIOUS
<1>1. CASE UNCHANGED agentVars
  <2>1. UNCHANGED <<policy, required, drafts, history, saves, workspace, changes, toolCalls,
                    agentRun, proposal, applied, standing>>
    BY <1>1 DEF agentVars, agentRunVars
  <2>2. QuestionEndsTheRun'
    BY <2>1 DEF AgentInv, QuestionEndsTheRun
  <2> QED
    BY <2>1, <2>2, RunTypes, RunStep
<1>2. CASE CallTools
  BY <1>2, CallToolsStep
<1>3. CASE Answer
  BY <1>3, AnswerStep
<1>4. CASE EndBatch
  BY <1>4, EndBatchStep
<1>5. ASSUME NEW c \in ToolCalls,
             ReadStoryFile(c) \/ Loaded(c) \/ Persist(c) \/ Keep(c)
                \/ Ask(c) \/ Submit(c) \/ FailCall(c)
      PROVE  AgentInv'
  BY <1>5, ReadStoryFileStep, LoadedStep, PersistStep, KeepStep, AskStep, SubmitStep,
     FailCallStep
<1>6. CASE RecoverOutput
  BY <1>6, RecoverOutputStep
<1>7. CASE Validate
  BY <1>7, ValidateStep
<1>8. CASE FinishAgentRun
  BY <1>8, FinishStep
<1>9. ASSUME NEW a \in Saves, NEW f \in Chapters, SaveChapter(a, f)
      PROVE  AgentInv'
  BY <1>9, SaveKeeps
<1>10. CASE ApplyProposal
  BY <1>10, ApplyProposalStep
<1>11. CASE StopAgentRun
  BY <1>11, StopStep
<1> QED
  BY <1>1, <1>2, <1>3, <1>4, <1>5, <1>6, <1>7, <1>8, <1>9, <1>10, <1>11 DEF AgentNext

-----------------------------------------------------------------------------
(* Theorems.                                                               *)

\* The invariant holds of every run of the agent, beside every author.
THEOREM AgentInvariance == AgentSpec => []AgentInv
  BY AgentInitInv, AgentNextInv, PTL DEF AgentSpec

\* Every variable holds what the code keeps in it, and runRuntime's repairs of
\* truncated and incomplete runs keep to their budgets.
THEOREM AgentTypeCorrect == AgentSpec => []AgentTypeOK
<1>1. AgentInv => AgentTypeOK
  <2> SUFFICES ASSUME AgentInv PROVE AgentTypeOK
    OBVIOUS
  <2>1. agentRun.recoveries \in 0..MaxRecoveries /\ agentRun.validations \in 0..required
    BY RunTypes, StoryAgentAssumption DEF AgentRun
  <2> QED
    BY <2>1, StoryAgentAssumption DEF AgentInv, AgentTypes, AgentTypeOK
<1> QED
  BY <1>1, AgentInvariance, PTL

\* Every version of a chapter the author wrote is the chapter's text or in its
\* history, whatever the agent's tools, its result (applyStoryArtifacts) or an
\* approved proposal put in its place.
THEOREM AuthorKeepsEveryVersion == AgentSpec => []AuthorTextIsKept
<1>1. AgentInv => AuthorTextIsKept
  BY DEF AgentInv
<1> QED
  BY <1>1, AgentInvariance, PTL

\* A proposal (pendingArtifacts) changes nothing until it is approved, and is
\* applied once.
THEOREM ProposalsAreAppliedOnce == AgentSpec => []ProposalAppliedOnce
<1>1. AgentInv => ProposalAppliedOnce
  BY DEF AgentInv
<1> QED
  BY <1>1, AgentInvariance, PTL

\* Once request_user_input was accepted, no tool is called: neither recoverOutputLimit
\* nor the validation of the files prompts the model again.
THEOREM QuestionIsTheLastCall == AgentSpec => NothingAfterTheQuestion
<1>1. AgentInv /\ [AgentNext]_agentVars
        => [agentRun.question =>
              \A c \in ToolCalls : toolCalls[c].pc = "unused" => toolCalls'[c].pc = "unused"
           ]_agentVars
  <2> SUFFICES ASSUME AgentInv, [AgentNext]_agentVars, agentRun.question,
                      NEW d \in ToolCalls, toolCalls[d].pc = "unused"
               PROVE  toolCalls'[d].pc = "unused"
    OBVIOUS
  <2>1. ~ CallTools
    BY DEF AgentInv, QuestionEndsTheRun, CallTools
  <2>2. CASE toolCalls' = toolCalls
    BY <2>2
  <2>3. ASSUME NEW c \in ToolCalls, toolCalls[c].pc # "unused",
               \A e \in ToolCalls : e # c => toolCalls'[e] = toolCalls[e]
        PROVE  toolCalls'[d].pc = "unused"
    BY <2>3
  <2>4. ASSUME NEW c \in ToolCalls, NEW pc, Goto(c, pc), toolCalls[c].pc # "unused"
        PROVE  toolCalls'[d].pc = "unused"
    <3>1. \A e \in ToolCalls : e # c => toolCalls'[e] = toolCalls[e]
      BY <2>4, RunTypes DEF Goto
    <3> QED
      BY <2>3, <2>4, <3>1
  <2>5. ASSUME NEW c \in ToolCalls, ReadStoryFile(c)
        PROVE  toolCalls'[d].pc = "unused"
    <3>1. toolCalls[c].pc = "new" /\ \A e \in ToolCalls : e # c => toolCalls'[e] = toolCalls[e]
      BY <2>5, RunTypes DEF ReadStoryFile
    <3> QED
      BY <2>3, <3>1
  <2>6. ASSUME NEW c \in ToolCalls,
               Loaded(c) \/ Persist(c) \/ Keep(c) \/ Ask(c) \/ Submit(c) \/ FailCall(c)
        PROVE  toolCalls'[d].pc = "unused"
    <3>1. toolCalls[c].pc # "unused" /\ \E pc \in {AfterRead(c), "stored", "done"} : Goto(c, pc)
      BY <2>6 DEF Loaded, Persist, Keep, Ask, Submit, FailCall
    <3> QED
      BY <2>4, <3>1
  <2>7. ASSUME Answer \/ EndBatch \/ RecoverOutput \/ Validate \/ FinishAgentRun
                  \/ ApplyProposal \/ StopAgentRun \/ UNCHANGED agentVars
        PROVE  toolCalls' = toolCalls
    BY <2>7 DEF Answer, EndBatch, RecoverOutput, Validate, Prompt, FinishAgentRun,
                ApplyProposal, ApplyProposalAnd, StopAgentRun, agentVars, agentRunVars
  <2>8. ASSUME NEW a \in Saves, NEW f \in Chapters, SaveChapter(a, f)
        PROVE  toolCalls' = toolCalls
    BY <2>8 DEF SaveChapter, agentRunVars
  <2> QED
    BY <2>1, <2>2, <2>5, <2>6, <2>7, <2>8 DEF AgentNext
<1> QED
  BY <1>1, AgentInvariance, PTL DEF AgentSpec, NothingAfterTheQuestion

-----------------------------------------------------------------------------
(* The editor: what its variables hold.                                    *)

EditorState ==
    [selected : Book, draft : Manuscript, saved : Manuscript, loading : BOOLEAN, timer : BOOLEAN]

\* An answer holds a text of a chapter, which is what the screen will show.
AnswersAreTexts ==
    \A l \in DOMAIN loads : loads[l].pc = "answered" => loads[l].text \in Manuscript

EditorTyped ==
    /\ onServer \in [Book -> Manuscript] /\ editHistory \in [Book -> SUBSET Manuscript]
    /\ editor \in EditorState /\ undo \in Undo
    /\ loads \in Seq(Load) /\ saveQueue \in Seq(Save)
    /\ revision \in Revision \cup {NoRevision} /\ restore \in Note \cup {NoNote}
    /\ news \subseteq Book /\ refresh \in Note \cup {NoNote}
    /\ lapses \subseteq Lapse /\ made \in 0..MaxChanges
    /\ AnswersAreTexts

-----------------------------------------------------------------------------
(* What its helpers return.                                                *)

LEMMA RearmedIs ==
    ASSUME NEW e \in EditorState
    PROVE  /\ Rearmed(e) \in EditorState
           /\ Rearmed(e).selected = e.selected /\ Rearmed(e).loading = e.loading
           /\ Rearmed(e).draft = e.draft
           /\ Rearmed(e).timer => ~ e.loading
<1> DEFINE timer == ~ e.loading /\ e.draft # e.saved
<1>1. timer \in BOOLEAN /\ (timer => ~ e.loading)
  BY DEF EditorState
<1>2. Rearmed(e) = [e EXCEPT !.timer = timer]
  BY DEF Rearmed
<1> HIDE DEF timer
<1> QED
  BY <1>1, <1>2 DEF EditorState

LEMMA DraftIs ==
    ASSUME EditorTyped, NEW text \in Manuscript
    PROVE  LET e == Rearmed([editor EXCEPT !.draft = text]) IN
           /\ e \in EditorState /\ e.selected = editor.selected /\ e.loading = editor.loading
           /\ e.draft = text /\ (e.timer => ~ e.loading)
<1> DEFINE e == [editor EXCEPT !.draft = text]
<1>1. /\ e \in EditorState /\ e.selected = editor.selected /\ e.loading = editor.loading
      /\ e.draft = text
  BY DEF EditorTyped, EditorState
<1> HIDE DEF e
<1>2. /\ Rearmed(e) \in EditorState /\ Rearmed(e).selected = editor.selected
      /\ Rearmed(e).loading = editor.loading /\ Rearmed(e).draft = text
      /\ Rearmed(e).timer => ~ Rearmed(e).loading
  BY <1>1, RearmedIs
<1> QED
  BY <1>2 DEF e

LEMMA ShownIs ==
    ASSUME EditorTyped, NEW text \in Manuscript
    PROVE  /\ Shown(text) \in EditorState
           /\ Shown(text).selected = editor.selected /\ Shown(text).loading = editor.loading
           /\ Shown(text).draft = text
  BY DEF EditorTyped, EditorState, Shown

\* A text made by the author or the agent, from the one on the screen.
LEMMA ChangedIs ==
    ASSUME EditorTyped, made < MaxChanges
    PROVE  /\ made + 1 \in 0..MaxChanges
           /\ [editor.draft EXCEPT !.change = made + 1] \in Manuscript
           /\ [editor.draft EXCEPT !.change = made + 1].of = editor.draft.of
           /\ [editor EXCEPT !.draft.change = made + 1] =
                  [editor EXCEPT !.draft = [editor.draft EXCEPT !.change = made + 1]]
<1>1. made + 1 \in 0..MaxChanges
  BY EditorAssumption DEF EditorTyped
<1>2. editor \in EditorState /\ editor.draft \in Manuscript
  BY DEF EditorTyped, EditorState
<1> QED
  BY <1>1, <1>2 DEF EditorState, Manuscript

LEMMA PendingIs ==
    ASSUME EditorTyped
    PROVE  /\ Pending \subseteq Manuscript
           /\ \A text \in Pending : text = undo.pending /\ undo.pending # NoManuscript
  BY DEF EditorTyped, Undo, Pending

LEMMA RememberedIs ==
    ASSUME EditorTyped, NEW texts \in SUBSET Manuscript
    PROVE  /\ Remembered(texts) \in Undo
           /\ Remembered(texts).texts = undo.texts \cup Pending \cup texts
           /\ Remembered(texts).pending = NoManuscript
           /\ Remembered(texts).loading = undo.loading
<1>1. Pending \subseteq Manuscript
  BY PendingIs
<1>2. undo \in Undo
  BY DEF EditorTyped
<1> QED
  BY <1>1, <1>2 DEF Remembered, Undo

LEMMA RecordedIs ==
    ASSUME EditorTyped, NEW c \in Book, NEW texts \in SUBSET Manuscript
    PROVE  /\ Recorded(c, texts) \in [Book -> SUBSET Manuscript]
           /\ Recorded(c, texts)[c] = editHistory[c] \cup texts
           /\ \A d \in Book : d # c => Recorded(c, texts)[d] = editHistory[d]
  BY DEF EditorTyped, Recorded

LEMMA LapsedIs ==
    ASSUME EditorTyped, NEW lapse \in Lapse, NEW happened \in BOOLEAN
    PROVE  /\ Lapsed(lapse, happened) \subseteq Lapse
           /\ Lapsed(lapse, happened) = {} => lapses = {} /\ ~ happened
  BY DEF EditorTyped, Lapsed

-----------------------------------------------------------------------------
(* The types of a step.                                                    *)

LEMMA CommitIsTyped ==
    ASSUME EditorTyped, NEW text \in Manuscript, Commit(text)
    PROVE  /\ editor' \in EditorState /\ undo' \in Undo
           /\ editHistory' \in [Book -> SUBSET Manuscript] /\ lapses' \subseteq Lapse
<1>1. CASE text = editor.draft
  BY <1>1 DEF Commit, EditorTyped
<1>2. CASE text # editor.draft
  <2>1. /\ editor' = Rearmed([editor EXCEPT !.draft = text])
        /\ undo' = Remembered({editor.draft})
        /\ editHistory' = Recorded(editor.selected, Pending \cup {editor.draft})
        /\ lapses' = Lapsed("early", editor.loading)
    BY <1>2 DEF Commit
  <2>2. editor.draft \in Manuscript /\ editor.selected \in Book /\ editor.loading \in BOOLEAN
    BY DEF EditorTyped, EditorState
  <2>3. Pending \cup {editor.draft} \in SUBSET Manuscript
    BY <2>2, PendingIs
  <2>4. editor' \in EditorState
    BY <2>1, DraftIs
  <2>5. undo' \in Undo /\ editHistory' \in [Book -> SUBSET Manuscript]
    BY <2>1, <2>2, <2>3, RememberedIs, RecordedIs
  <2>6. lapses' \subseteq Lapse
    BY <2>1, <2>2, LapsedIs DEF Lapse
  <2> QED
    BY <2>4, <2>5, <2>6
<1> QED
  BY <1>1, <1>2

LEMMA SelectIsTyped ==
    ASSUME EditorTyped, NEW e \in EditorState, NEW c \in Book \cup {NoChapter}, Select(e, c)
    PROVE  editor' \in EditorState /\ undo' \in Undo /\ loads' \in Seq(Load) /\ AnswersAreTexts'
<1>1. CASE c \in {e.selected, NoChapter}
  BY <1>1 DEF Select, EditorTyped, AnswersAreTexts
<1>2. CASE c \notin {e.selected, NoChapter}
  <2> DEFINE chosen == [e EXCEPT !.selected = c, !.loading = TRUE]
             load   == [chapter |-> c, text |-> NoManuscript, pc |-> "asked"]
             texts  == IF undo.loading THEN {} ELSE undo.snapshots
  <2>1. editor' = Rearmed(chosen) /\ loads' = Append(loads, load)
    BY <1>2 DEF Select
  <2>2. chosen \in EditorState
    BY <1>2 DEF EditorState
  <2>3. load \in Load /\ load.pc = "asked"
    BY <1>2 DEF Load
  <2> HIDE DEF chosen, load
  <2>4. editor' \in EditorState
    BY <2>1, <2>2, RearmedIs
  <2>5. /\ loads' \in Seq(Load)
        /\ \A l \in DOMAIN loads' :
              (l \in DOMAIN loads /\ loads'[l] = loads[l]) \/ loads'[l] = load
    BY <2>1, <2>3 DEF EditorTyped
  <2>6. AnswersAreTexts'
    BY <2>3, <2>5 DEF EditorTyped, AnswersAreTexts
  <2>7. undo' \in Undo
    <3>1. undo \in Undo /\ texts \in SUBSET Manuscript
      BY DEF EditorTyped, Undo
    <3>2. undo' = [undo EXCEPT !.texts = texts, !.pending = NoManuscript, !.loading = TRUE]
      BY <1>2 DEF Select
    <3> HIDE DEF texts
    <3> QED
      BY <3>1, <3>2 DEF Undo
  <2> QED
    BY <2>4, <2>5, <2>6, <2>7
<1> QED
  BY <1>1, <1>2

LEMMA QueueIsTyped ==
    ASSUME EditorTyped, NEW next \in Book \cup {NoChapter},
           QueueSave(editor.selected, editor.draft, next)
    PROVE  saveQueue' \in Seq(Save)
<1> DEFINE save == [chapter |-> editor.selected, text |-> editor.draft, next |-> next,
                    pc |-> "asked"]
<1>1. save \in Save
  BY DEF EditorTyped, EditorState, Save
<1>2. saveQueue' = Append(saveQueue, save)
  BY DEF QueueSave
<1> QED
  BY <1>1, <1>2 DEF EditorTyped

LEMMA ChangingIsTyped ==
    ASSUME EditorTyped, ChangeDraft \/ Reformat
    PROVE  EditorTyped'
<1> DEFINE text == [editor.draft EXCEPT !.change = made + 1]
<1>1. made < MaxChanges /\ made' = made + 1
  BY DEF ChangeDraft, Reformat
<1>2. made' \in 0..MaxChanges /\ text \in Manuscript
  BY <1>1, ChangedIs
<1>3. CASE ChangeDraft
  <2>1. /\ editor' = Rearmed([editor EXCEPT !.draft.change = made + 1])
        /\ undo' = [undo EXCEPT !.pending = IF @ = NoManuscript THEN editor.draft ELSE @]
        /\ UNCHANGED <<onServer, editHistory, loads, saveQueue, revision, restore, news, refresh,
                       lapses>>
    BY <1>1, <1>3 DEF ChangeDraft, serverTexts, revisions, agentNews
  <2>2. editor' = Rearmed([editor EXCEPT !.draft = text])
    BY <1>1, <2>1, ChangedIs
  <2> HIDE DEF text
  <2>3. editor' \in EditorState
    BY <1>2, <2>2, DraftIs
  <2>4. undo' \in Undo
    BY <2>1 DEF EditorTyped, EditorState, Undo
  <2> QED
    BY <1>2, <2>1, <2>3, <2>4 DEF EditorTyped, AnswersAreTexts
<1>4. CASE Reformat
  <2>1. /\ Commit(text)
        /\ UNCHANGED <<onServer, loads, saveQueue, revision, restore, news, refresh>>
    BY <1>1, <1>4 DEF Reformat, revisions, agentNews
  <2> HIDE DEF text
  <2> QED
    BY <1>2, <2>1, CommitIsTyped DEF EditorTyped, AnswersAreTexts
<1> QED
  BY <1>3, <1>4

LEMMA UndoingIsTyped ==
    ASSUME EditorTyped,
           RestoreText \/ RememberTyped \/ HistoryReturns \/ \E text \in Manuscript : BringBack(text)
    PROVE  EditorTyped'
<1>0. editor.draft \in Manuscript /\ editor.selected \in Book /\ undo \in Undo
  BY DEF EditorTyped, EditorState
<1>1. CASE RestoreText
  <2>1. /\ restore.chapter = editor.selected /\ Commit(restore.text) /\ restore' = NoNote
        /\ UNCHANGED <<onServer, loads, saveQueue, revision, news, refresh, made>>
    BY <1>1 DEF RestoreText, agentNews
  <2>2. restore.text \in Manuscript
    BY <1>0, <2>1, EditorAssumption DEF EditorTyped, Note, NoNote
  <2> QED
    BY <2>1, <2>2, CommitIsTyped DEF EditorTyped, AnswersAreTexts
<1>2. CASE RememberTyped
  <2>1. /\ undo' = Remembered({}) /\ editHistory' = Recorded(editor.selected, Pending)
        /\ UNCHANGED <<onServer, editor, loads, saveQueue, revision, restore, news, refresh,
                       lapses, made>>
    BY <1>2 DEF RememberTyped, revisions, agentNews
  <2>2. undo' \in Undo /\ editHistory' \in [Book -> SUBSET Manuscript]
    BY <1>0, <2>1, PendingIs, RememberedIs, RecordedIs
  <2> QED
    BY <2>1, <2>2 DEF EditorTyped, AnswersAreTexts
<1>3. CASE HistoryReturns
  <2>1. UNCHANGED <<onServer, editHistory, editor, loads, saveQueue, revision, restore, news,
                    refresh, lapses, made>>
    BY <1>3 DEF HistoryReturns, serverTexts, revisions, agentNews
  <2>2. PICK found \in {editHistory[editor.selected], {}} :
           undo' = [undo EXCEPT !.texts = found, !.snapshots = found, !.loading = FALSE]
    BY <1>3 DEF HistoryReturns
  <2>3. found \in SUBSET Manuscript
    BY <1>0, <2>2 DEF EditorTyped
  <2>4. undo' \in Undo
    BY <1>0, <2>2, <2>3 DEF Undo
  <2> QED
    BY <2>1, <2>4 DEF EditorTyped, AnswersAreTexts
<1>4. ASSUME NEW text \in Manuscript, BringBack(text)
      PROVE  EditorTyped'
  <2>1. /\ editor' = Rearmed([editor EXCEPT !.draft = text])
        /\ undo' = Remembered({editor.draft})
        /\ editHistory' = Recorded(editor.selected, Pending)
        /\ lapses' = Lapsed("early", editor.loading \/ undo.loading)
        /\ UNCHANGED <<onServer, loads, saveQueue, revision, restore, news, refresh, made>>
    BY <1>4 DEF BringBack, revisions, agentNews
  <2>2. editor' \in EditorState
    BY <2>1, DraftIs
  <2>3. undo' \in Undo /\ editHistory' \in [Book -> SUBSET Manuscript]
    BY <1>0, <2>1, PendingIs, RememberedIs, RecordedIs
  <2>4. lapses' \subseteq Lapse
    <3>1. (editor.loading \/ undo.loading) \in BOOLEAN /\ "early" \in Lapse
      BY DEF Lapse
    <3> QED
      BY <2>1, <3>1, LapsedIs
  <2> QED
    BY <2>1, <2>2, <2>3, <2>4 DEF EditorTyped, AnswersAreTexts
<1> QED
  BY <1>1, <1>2, <1>3, <1>4

LEMMA QueueingIsTyped ==
    ASSUME EditorTyped, SaveDraft \/ AutoSave \/ \E c \in Book : SelectChapter(c)
    PROVE  EditorTyped'
<1>1. CASE SaveDraft
  <2>1. /\ QueueSave(editor.selected, editor.draft, NoChapter)
        /\ UNCHANGED <<onServer, editHistory, editor, undo, loads, revision, restore, news,
                       refresh, lapses, made>>
    BY <1>1 DEF SaveDraft, serverTexts, revisions, agentNews
  <2>2. saveQueue' \in Seq(Save)
    BY <2>1, QueueIsTyped
  <2> QED
    BY <2>1, <2>2 DEF EditorTyped, AnswersAreTexts
<1>2. CASE AutoSave
  <2>1. /\ editor' = [editor EXCEPT !.timer = FALSE]
        /\ QueueSave(editor.selected, editor.draft, NoChapter)
        /\ UNCHANGED <<onServer, editHistory, undo, loads, revision, restore, news, refresh,
                       lapses, made>>
    BY <1>2 DEF AutoSave, serverTexts, revisions, agentNews
  <2>2. saveQueue' \in Seq(Save)
    BY <2>1, QueueIsTyped
  <2>3. editor' \in EditorState
    BY <2>1 DEF EditorTyped, EditorState
  <2> QED
    BY <2>1, <2>2, <2>3 DEF EditorTyped, AnswersAreTexts
<1>3. ASSUME NEW c \in Book, SelectChapter(c)
      PROVE  EditorTyped'
  <2>1. UNCHANGED <<onServer, editHistory, revision, restore, news, refresh, lapses, made>>
    BY <1>3 DEF SelectChapter, serverTexts, revisions, agentNews
  <2>2. CASE Unsaved /\ ~ editor.loading
    <3>1. QueueSave(editor.selected, editor.draft, c) /\ UNCHANGED <<editor, loads, undo>>
      BY <1>3, <2>2 DEF SelectChapter
    <3>2. saveQueue' \in Seq(Save)
      BY <3>1, QueueIsTyped
    <3> QED
      BY <2>1, <3>1, <3>2 DEF EditorTyped, AnswersAreTexts
  <2>3. CASE ~ (Unsaved /\ ~ editor.loading)
    <3>1. Select(editor, c) /\ saveQueue' = saveQueue
      BY <1>3, <2>3 DEF SelectChapter
    <3>2. editor \in EditorState
      BY DEF EditorTyped
    <3>3. editor' \in EditorState /\ undo' \in Undo /\ loads' \in Seq(Load) /\ AnswersAreTexts'
      BY <3>1, <3>2, SelectIsTyped
    <3> QED
      BY <2>1, <3>1, <3>3 DEF EditorTyped
  <2> QED
    BY <2>2, <2>3
<1> QED
  BY <1>1, <1>2, <1>3

LEMMA StoresIsTyped ==
    ASSUME EditorTyped, NEW c \in Book, NEW text \in Manuscript, Stores(c, text)
    PROVE  onServer' \in [Book -> Manuscript] /\ editHistory' \in [Book -> SUBSET Manuscript]
<1>1. onServer[c] \in Manuscript /\ onServer' \in [Book -> Manuscript]
  BY DEF EditorTyped, Stores
<1>2. {onServer[c]} \ {text} \in SUBSET Manuscript
  BY <1>1
<1>3. editHistory' = Recorded(c, {onServer[c]} \ {text})
  BY DEF Stores
<1> QED
  BY <1>1, <1>2, <1>3, RecordedIs

\* The save at the head of the queue is answered.
LEMMA AnsweredSave ==
    ASSUME EditorTyped, saveQueue # << >>, NEW pc \in {"stored", "failed"},
           saveQueue' = [saveQueue EXCEPT ![1].pc = pc]
    PROVE  /\ Head(saveQueue) = saveQueue[1] /\ 1 \in DOMAIN saveQueue
           /\ saveQueue[1] \in Save
           /\ saveQueue' \in Seq(Save) /\ DOMAIN saveQueue' = DOMAIN saveQueue
           /\ saveQueue'[1].text = saveQueue[1].text
           /\ saveQueue'[1].chapter = saveQueue[1].chapter
           /\ \A s \in DOMAIN saveQueue : s # 1 => saveQueue'[s] = saveQueue[s]
<1> DEFINE save == [saveQueue[1] EXCEPT !.pc = pc]
<1>1. /\ Head(saveQueue) = saveQueue[1] /\ 1 \in DOMAIN saveQueue /\ saveQueue[1] \in Save
  BY DEF EditorTyped
<1>2. save \in Save /\ save.text = saveQueue[1].text /\ save.chapter = saveQueue[1].chapter
  BY <1>1 DEF Save
<1>3. saveQueue' = [saveQueue EXCEPT ![1] = save]
  OBVIOUS
<1> HIDE DEF save
<1> QED
  BY <1>1, <1>2, <1>3 DEF EditorTyped

LEMMA SavingIsTyped ==
    ASSUME EditorTyped, ServerSaves \/ SaveReturns
    PROVE  EditorTyped'
<1>1. CASE ServerSaves
  <2>1. /\ saveQueue # << >>
        /\ UNCHANGED <<editor, undo, loads, revision, restore, news, refresh, lapses, made>>
    BY <1>1 DEF ServerSaves, revisions, agentNews
  <2>2. CASE /\ Stores(Head(saveQueue).chapter, Head(saveQueue).text)
             /\ saveQueue' = [saveQueue EXCEPT ![1].pc = "stored"]
    <3>1. /\ Stores(saveQueue[1].chapter, saveQueue[1].text)
          /\ saveQueue[1] \in Save /\ saveQueue' \in Seq(Save)
      BY <2>1, <2>2, AnsweredSave
    <3>2. saveQueue[1].chapter \in Book /\ saveQueue[1].text \in Manuscript
      BY <3>1 DEF Save
    <3> QED
      BY <2>1, <3>1, <3>2, StoresIsTyped DEF EditorTyped, AnswersAreTexts
  <2>3. CASE /\ saveQueue' = [saveQueue EXCEPT ![1].pc = "failed"]
             /\ UNCHANGED serverTexts
    <3>1. saveQueue' \in Seq(Save)
      BY <2>1, <2>3, AnsweredSave
    <3> QED
      BY <2>1, <2>3, <3>1 DEF serverTexts, EditorTyped, AnswersAreTexts
  <2> QED
    BY <1>1, <2>2, <2>3 DEF ServerSaves
<1>2. CASE SaveReturns
  <2> DEFINE save == Head(saveQueue)
             e    == IF save.chapter = editor.selected
                     THEN [editor EXCEPT !.saved = save.text] ELSE editor
  <2>1. /\ saveQueue # << >> /\ saveQueue' = Tail(saveQueue)
        /\ IF save.pc = "failed" THEN UNCHANGED <<editor, loads, undo>> ELSE Select(e, save.next)
        /\ UNCHANGED <<onServer, editHistory, revision, restore, news, refresh, lapses, made>>
    BY <1>2 DEF SaveReturns, serverTexts, revisions, agentNews
  <2>2. save \in Save /\ saveQueue' \in Seq(Save)
    BY <2>1 DEF EditorTyped
  <2>3. e \in EditorState /\ save.next \in Book \cup {NoChapter}
    BY <2>2 DEF EditorTyped, EditorState, Save
  <2>4. editor' \in EditorState /\ undo' \in Undo /\ loads' \in Seq(Load) /\ AnswersAreTexts'
    <3>1. CASE save.pc = "failed"
      BY <2>1, <3>1 DEF EditorTyped, AnswersAreTexts
    <3>2. CASE save.pc # "failed"
      <4>1. Select(e, save.next)
        BY <2>1, <3>2
      <4> HIDE DEF e, save
      <4> QED
        BY <2>3, <4>1, SelectIsTyped
    <3> QED
      BY <3>1, <3>2
  <2> QED
    BY <2>1, <2>2, <2>4 DEF EditorTyped
<1> QED
  BY <1>1, <1>2

\* A load goes on: it is as it becomes, and the others are as they were.
LEMMA LoadGoesOn ==
    ASSUME EditorTyped, NEW l \in DOMAIN loads, NEW load \in Load,
           loads' = [loads EXCEPT ![l] = load]
    PROVE  /\ loads' \in Seq(Load) /\ DOMAIN loads' = DOMAIN loads /\ Len(loads') = Len(loads)
           /\ loads # << >> /\ loads' # << >> /\ Len(loads) \in DOMAIN loads
           /\ loads'[l] = load
           /\ \A k \in DOMAIN loads : k # l => loads'[k] = loads[k]
           /\ (load.pc = "answered" => load.text \in Manuscript) => AnswersAreTexts'
<1>1. /\ loads' \in Seq(Load) /\ DOMAIN loads' = DOMAIN loads /\ Len(loads') = Len(loads)
      /\ loads # << >> /\ loads' # << >> /\ Len(loads) \in DOMAIN loads
      /\ loads'[l] = load
      /\ \A k \in DOMAIN loads : k # l => loads'[k] = loads[k]
  BY DEF EditorTyped
<1> QED
  BY <1>1 DEF EditorTyped, AnswersAreTexts

\* The server answers a request for a text, or it fails.
LEMMA AnsweredLoad ==
    ASSUME EditorTyped, NEW l \in DOMAIN loads, ServerLoads(l)
    PROVE  \E load \in Load :
              /\ loads' = [loads EXCEPT ![l] = load]
              /\ load.chapter = loads[l].chapter /\ load.chapter \in Book
              /\ load.pc \in {"answered", "failed"}
              /\ load.pc = "answered" => load.text = onServer[load.chapter]
<1>1. loads[l] \in Load /\ loads[l].chapter \in Book
  <2>1. loads[l] \in Load
    BY DEF EditorTyped
  <2> QED
    BY <2>1 DEF Load
<1>2. onServer[loads[l].chapter] \in Manuscript
  BY <1>1 DEF EditorTyped
<1>3. CASE loads' = [loads EXCEPT ![l].pc = "answered", ![l].text = onServer[loads[l].chapter]]
  <2> DEFINE load == [loads[l] EXCEPT !.pc = "answered", !.text = onServer[loads[l].chapter]]
  <2>1. loads' = [loads EXCEPT ![l] = load]
    BY <1>1, <1>3 DEF EditorTyped, Load
  <2>2. /\ load \in Load /\ load.chapter = loads[l].chapter /\ load.pc = "answered"
        /\ load.text = onServer[load.chapter]
    BY <1>1, <1>2 DEF Load
  <2> HIDE DEF load
  <2> QED
    BY <1>1, <2>1, <2>2
<1>4. CASE loads' = [loads EXCEPT ![l].pc = "failed"]
  <2> DEFINE load == [loads[l] EXCEPT !.pc = "failed"]
  <2>1. loads' = [loads EXCEPT ![l] = load]
    BY <1>1, <1>4 DEF EditorTyped, Load
  <2>2. load \in Load /\ load.chapter = loads[l].chapter /\ load.pc = "failed"
    BY <1>1 DEF Load
  <2> HIDE DEF load
  <2> QED
    BY <1>1, <2>1, <2>2
<1> QED
  BY <1>3, <1>4 DEF ServerLoads

\* What an answer is to the editor: the load is over; if it is the last one, its text
\* is shown, if it has one.
LEMMA OverLoad ==
    ASSUME EditorTyped, NEW l \in DOMAIN loads, LoadReturns(l)
    PROVE  /\ \E load \in Load : /\ loads' = [loads EXCEPT ![l] = load]
                                 /\ load.chapter = loads[l].chapter /\ load.pc = "over"
           /\ UNCHANGED <<onServer, editHistory, undo, saveQueue, revision, restore, news,
                          refresh, made>>
           /\ IF l # Len(loads) THEN UNCHANGED <<editor, lapses>>
              ELSE /\ lapses' = Lapsed("unread", loads[l].pc = "failed")
                   /\ editor' \in EditorState /\ editor'.selected = editor.selected
                   /\ ~ editor'.loading
                   /\ loads[l].pc \in {"answered", "failed"}
                   /\ loads[l].pc = "answered" => editor'.draft = loads[l].text
<1> DEFINE load == [loads[l] EXCEPT !.pc = "over", !.text = NoManuscript]
<1>1. loads[l] \in Load
  BY DEF EditorTyped
<1>2. loads' = [loads EXCEPT ![l] = load]
  <2>1. loads' = [loads EXCEPT ![l].pc = "over", ![l].text = NoManuscript]
    BY DEF LoadReturns, ShowLoad
  <2> QED
    BY <1>1, <2>1 DEF EditorTyped, Load
<1>3. load \in Load /\ load.chapter = loads[l].chapter /\ load.pc = "over"
  BY <1>1 DEF Load
<1> HIDE DEF load
<1>4. UNCHANGED <<onServer, editHistory, undo, saveQueue, revision, restore, news, refresh, made>>
  BY DEF LoadReturns, ShowLoad, serverTexts, revisions, agentNews
<1>5. CASE l # Len(loads)
  BY <1>2, <1>3, <1>4, <1>5 DEF LoadReturns
<1>6. CASE l = Len(loads)
  <2> DEFINE shown == IF loads[l].pc = "answered" THEN Shown(loads[l].text) ELSE editor
             e     == [shown EXCEPT !.loading = FALSE]
  <2>1. /\ editor' = Rearmed(e) /\ lapses' = Lapsed("unread", loads[l].pc = "failed")
        /\ loads[l].pc \in {"answered", "failed"}
    BY <1>6 DEF LoadReturns, ShowLoad
  <2>2. /\ shown \in EditorState /\ shown.selected = editor.selected
        /\ loads[l].pc = "answered" => shown.draft = loads[l].text
    BY ShownIs DEF EditorTyped, AnswersAreTexts
  <2> HIDE DEF shown
  <2>3. /\ e \in EditorState /\ e.selected = editor.selected /\ ~ e.loading
        /\ loads[l].pc = "answered" => e.draft = loads[l].text
    BY <2>2 DEF EditorState
  <2> HIDE DEF e
  <2>4. /\ editor' \in EditorState /\ editor'.selected = editor.selected /\ ~ editor'.loading
        /\ loads[l].pc = "answered" => editor'.draft = loads[l].text
    BY <2>1, <2>3, RearmedIs
  <2> QED
    BY <1>2, <1>3, <1>4, <1>6, <2>1, <2>4
<1> QED
  BY <1>5, <1>6

LEMMA LoadingIsTyped ==
    ASSUME EditorTyped, NEW l \in DOMAIN loads, ServerLoads(l) \/ LoadReturns(l)
    PROVE  EditorTyped'
<1>1. CASE ServerLoads(l)
  <2>1. UNCHANGED <<onServer, editHistory, editor, undo, saveQueue, revision, restore, news,
                    refresh, lapses, made>>
    BY <1>1 DEF ServerLoads, serverTexts, revisions, agentNews
  <2>2. PICK load \in Load :
           /\ loads' = [loads EXCEPT ![l] = load] /\ load.chapter \in Book
           /\ load.pc = "answered" => load.text = onServer[load.chapter]
    BY <1>1, AnsweredLoad
  <2>3. load.pc = "answered" => load.text \in Manuscript
    BY <2>2 DEF EditorTyped
  <2>4. loads' \in Seq(Load) /\ AnswersAreTexts'
    BY <2>2, <2>3, LoadGoesOn
  <2> QED
    BY <2>1, <2>4 DEF EditorTyped
<1>2. CASE LoadReturns(l)
  <2>1. UNCHANGED <<onServer, editHistory, undo, saveQueue, revision, restore, news, refresh, made>>
    BY <1>2, OverLoad
  <2>2. loads' \in Seq(Load) /\ AnswersAreTexts'
    <3>1. PICK load \in Load : loads' = [loads EXCEPT ![l] = load] /\ load.pc = "over"
      BY <1>2, OverLoad
    <3> QED
      BY <3>1, LoadGoesOn
  <2>3. editor' \in EditorState
    BY <1>2, OverLoad DEF EditorTyped
  <2>4. lapses' \subseteq Lapse
    <3>1. CASE l # Len(loads)
      BY <1>2, <3>1, OverLoad DEF EditorTyped
    <3>2. CASE l = Len(loads)
      <4>1. lapses' = Lapsed("unread", loads[l].pc = "failed")
        BY <1>2, <3>2, OverLoad
      <4>2. (loads[l].pc = "failed") \in BOOLEAN /\ "unread" \in Lapse
        BY DEF Lapse
      <4> QED
        BY <4>1, <4>2, LapsedIs
    <3> QED
      BY <3>1, <3>2
  <2> QED
    BY <2>1, <2>2, <2>3, <2>4 DEF EditorTyped
<1> QED
  BY <1>1, <1>2

LEMMA RevisingIsTyped ==
    ASSUME EditorTyped, BeginRevision \/ ApplyRevision \/ AbandonRevision
    PROVE  EditorTyped'
<1>0. editor.draft \in Manuscript /\ editor.selected \in Book
  BY DEF EditorTyped, EditorState
<1>1. CASE BeginRevision
  <2> DEFINE text == [editor.draft EXCEPT !.change = made + 1]
  <2>1. /\ made < MaxChanges /\ made' = made + 1
        /\ revision' = [chapter |-> editor.selected, before |-> editor.draft, text |-> text]
        /\ editHistory' \in {editHistory, Recorded(editor.selected, {editor.draft})}
        /\ UNCHANGED <<onServer, editor, undo, loads, saveQueue, restore, news, refresh, lapses>>
    BY <1>1 DEF BeginRevision, agentNews
  <2>2. made' \in 0..MaxChanges /\ text \in Manuscript
    BY <2>1, ChangedIs
  <2> HIDE DEF text
  <2>3. revision' \in Revision
    BY <1>0, <2>1, <2>2 DEF Revision
  <2>4. editHistory' \in [Book -> SUBSET Manuscript]
    BY <1>0, <2>1, RecordedIs DEF EditorTyped
  <2> QED
    BY <2>1, <2>2, <2>3, <2>4 DEF EditorTyped, AnswersAreTexts
<1>2. CASE ApplyRevision
  <2>1. /\ revision # NoRevision
        /\ editor' = Rearmed([editor EXCEPT !.draft = revision.text])
        /\ undo' = Remembered({revision.before})
        /\ editHistory' = Recorded(revision.chapter, Pending \cup {revision.before})
        /\ restore' = [chapter |-> revision.chapter, text |-> revision.before]
        /\ revision' = NoRevision
        /\ lapses' = Lapsed("late", revision.chapter # editor.selected)
        /\ UNCHANGED <<onServer, loads, saveQueue, news, refresh, made>>
    BY <1>2 DEF ApplyRevision, agentNews
  <2>2. revision.chapter \in Book /\ revision.before \in Manuscript /\ revision.text \in Manuscript
    BY <2>1 DEF EditorTyped, Revision
  <2>3. editor' \in EditorState
    BY <2>1, <2>2, DraftIs
  <2>4. undo' \in Undo /\ editHistory' \in [Book -> SUBSET Manuscript]
    BY <2>1, <2>2, PendingIs, RememberedIs, RecordedIs
  <2>5. lapses' \subseteq Lapse
    <3>1. (revision.chapter # editor.selected) \in BOOLEAN /\ "late" \in Lapse
      BY DEF Lapse
    <3> QED
      BY <2>1, <3>1, LapsedIs
  <2>6. restore' \in Note
    BY <2>1, <2>2 DEF Note
  <2> QED
    BY <2>1, <2>3, <2>4, <2>5, <2>6 DEF EditorTyped, AnswersAreTexts
<1>3. CASE AbandonRevision
  BY <1>3 DEF AbandonRevision, serverTexts, agentNews, EditorTyped, AnswersAreTexts
<1> QED
  BY <1>1, <1>2, <1>3

LEMMA HearingIsTyped ==
    ASSUME EditorTyped,
           RefreshReturns \/ RefreshFails \/ \E c \in Book : AgentStores(c) \/ HearOfChange(c)
    PROVE  EditorTyped'
<1>0. editor.draft \in Manuscript /\ editor.selected \in Book /\ editor.loading \in BOOLEAN
  BY DEF EditorTyped, EditorState
<1>1. ASSUME NEW c \in Book, AgentStores(c)
      PROVE  EditorTyped'
  <2> DEFINE text == [of |-> c, change |-> made + 1]
  <2>1. /\ made < MaxChanges /\ made' = made + 1 /\ news' = news \cup {c} /\ Stores(c, text)
        /\ UNCHANGED <<editor, undo, loads, saveQueue, revision, restore, refresh, lapses>>
    BY <1>1 DEF AgentStores, revisions
  <2>2. made' \in 0..MaxChanges
    BY <2>1, ChangedIs
  <2>3. text \in Manuscript
    BY <2>1, <2>2 DEF Manuscript
  <2> HIDE DEF text
  <2>4. onServer' \in [Book -> Manuscript] /\ editHistory' \in [Book -> SUBSET Manuscript]
    BY <2>1, <2>3, StoresIsTyped
  <2> QED
    BY <2>1, <2>2, <2>4 DEF EditorTyped, AnswersAreTexts
<1>2. ASSUME NEW c \in Book, HearOfChange(c)
      PROVE  EditorTyped'
  <2>1. /\ news' = news \ {c}
        /\ refresh' = IF c = editor.selected THEN [chapter |-> c, text |-> onServer[c]]
                      ELSE refresh
        /\ UNCHANGED <<onServer, editHistory, editor, undo, loads, saveQueue, revision, restore,
                       lapses, made>>
    BY <1>2 DEF HearOfChange, serverTexts, revisions
  <2>2. onServer[c] \in Manuscript
    BY DEF EditorTyped
  <2>3. [chapter |-> c, text |-> onServer[c]] \in Note
    BY <2>2 DEF Note
  <2>4. news' \subseteq Book /\ refresh' \in Note \cup {NoNote}
    BY <2>1, <2>3 DEF EditorTyped
  <2> QED
    BY <2>1, <2>4 DEF EditorTyped, AnswersAreTexts
<1>3. CASE RefreshReturns
  <2> DEFINE kept == Unsaved /\ editor.draft # refresh.text
  <2>1. /\ refresh # NoNote /\ refresh' = NoNote
        /\ UNCHANGED <<onServer, editHistory, loads, saveQueue, revision, news, made>>
    BY <1>3 DEF RefreshReturns, serverTexts
  <2>2. CASE refresh.chapter = editor.selected
    <3>1. /\ editor' = Rearmed(Shown(refresh.text))
          /\ undo' = [undo EXCEPT !.snapshots = editHistory[editor.selected]]
          /\ restore' = IF kept THEN [chapter |-> editor.selected, text |-> editor.draft]
                        ELSE restore
          /\ lapses' = Lapsed("early", kept /\ editor.loading)
      BY <1>3, <2>2 DEF RefreshReturns
    <3>2. refresh.text \in Manuscript
      BY <2>1 DEF EditorTyped, Note
    <3>3. editor' \in EditorState
      BY <3>1, <3>2, ShownIs, RearmedIs
    <3>4. undo' \in Undo
      BY <1>0, <3>1 DEF EditorTyped, Undo
    <3>5. [chapter |-> editor.selected, text |-> editor.draft] \in Note
      BY <1>0 DEF Note
    <3>6. restore' \in Note \cup {NoNote}
      BY <3>1, <3>5 DEF EditorTyped
    <3>7. lapses' \subseteq Lapse
      <4>1. (kept /\ editor.loading) \in BOOLEAN /\ "early" \in Lapse
        BY DEF Lapse
      <4> HIDE DEF kept
      <4> QED
        BY <3>1, <4>1, LapsedIs
    <3> QED
      BY <2>1, <3>3, <3>4, <3>6, <3>7 DEF EditorTyped, AnswersAreTexts
  <2>3. CASE refresh.chapter # editor.selected
    <3>1. UNCHANGED <<editor, undo, restore, lapses>>
      BY <1>3, <2>3 DEF RefreshReturns
    <3> QED
      BY <2>1, <3>1 DEF EditorTyped, AnswersAreTexts
  <2> QED
    BY <2>2, <2>3
<1>4. CASE RefreshFails
  BY <1>4 DEF RefreshFails, serverTexts, revisions, EditorTyped, AnswersAreTexts
<1> QED
  BY <1>1, <1>2, <1>3, <1>4

LEMMA EditorInitTyped ==
    ASSUME EditorInit
    PROVE  EditorTyped
<1>1. PICK c \in Book :
         /\ editor = [selected |-> c, draft |-> onServer[c], saved |-> onServer[c],
                      loading |-> FALSE, timer |-> FALSE]
         /\ undo = [texts |-> editHistory[c], pending |-> NoManuscript,
                    snapshots |-> editHistory[c], loading |-> FALSE]
  BY DEF EditorInit
<1>2. made = 0 /\ made \in 0..MaxChanges
  BY EditorAssumption DEF EditorInit
<1>3. \A d \in Book : [of |-> d, change |-> 0] \in Manuscript
  BY <1>2 DEF Manuscript
<1>4. /\ onServer \in [Book -> Manuscript] /\ editHistory \in [Book -> SUBSET Manuscript]
  BY <1>3 DEF EditorInit
<1>5. editor \in EditorState
  BY <1>1, <1>4 DEF EditorState
<1>6. undo \in Undo
  BY <1>1, <1>4 DEF Undo
<1> QED
  BY <1>2, <1>4, <1>5, <1>6 DEF EditorInit, EditorTyped, AnswersAreTexts

LEMMA EditorNextTyped ==
    ASSUME EditorTyped, [EditorNext]_editorVars
    PROVE  EditorTyped'
<1>1. CASE UNCHANGED editorVars
  BY <1>1 DEF editorVars, serverTexts, revisions, agentNews, EditorTyped, AnswersAreTexts
<1>2. CASE EditorNext
  BY <1>2, ChangingIsTyped, UndoingIsTyped, QueueingIsTyped, SavingIsTyped, LoadingIsTyped,
     RevisingIsTyped, HearingIsTyped DEF EditorNext
<1> QED
  BY <1>1, <1>2

\* Whatever requests fail, what the editor shows, remembers, loads and saves are texts
\* of the project's chapters (App.jsx): it never takes what a request has not brought.
THEOREM EditorTypeCorrect == EditorSpec => []EditorTypeOK
<1>1. EditorInit => EditorTyped
  BY EditorInitTyped
<1>2. EditorTyped /\ [EditorNext]_editorVars => EditorTyped'
  BY EditorNextTyped
<1>3. EditorTyped => EditorTypeOK
  BY DEF EditorTyped, EditorTypeOK, EditorState
<1> QED
  BY <1>1, <1>2, <1>3, PTL DEF EditorSpec

-----------------------------------------------------------------------------
(* The editor: the invariant, as long as nothing has lapsed.               *)

HistoryIsTheChapters == \A c \in Book : \A text \in editHistory[c] : text.of = c

\* The load that is still mounted is for the chapter selected, and under way as long
\* as the editor says so.
MountedLoad ==
    IF loads = << >> THEN ~ editor.loading
    ELSE LET load == loads[Len(loads)] IN
         /\ load.chapter = editor.selected
         /\ editor.loading <=> load.pc # "over"

AnswersAreTheChapters ==
    \A l \in DOMAIN loads : loads[l].pc = "answered" => loads[l].text.of = loads[l].chapter

SavesAreTheChapters == \A s \in DOMAIN saveQueue : saveQueue[s].text.of = saveQueue[s].chapter

\* The text on the screen is the selected chapter's, or another is loading; then no
\* timer runs.
ScreenIsTheChapters ==
    /\ ~ editor.loading => editor.draft.of = editor.selected
    /\ editor.timer => ~ editor.loading

\* So is what was typed over, and, once the snapshots are there, what undo brings back.
UndoIsTheChapters ==
    /\ undo.pending # NoManuscript => undo.pending.of = editor.selected
    /\ ~ undo.loading => \A text \in undo.texts : text.of = editor.selected

NotesAreTheChapters ==
    /\ revision # NoRevision => /\ revision.before.of = revision.chapter
                                /\ revision.text.of = revision.chapter
    /\ restore # NoNote => restore.text.of = restore.chapter
    /\ refresh # NoNote => refresh.text.of = refresh.chapter

TextsAreTheChapters ==
    /\ TextStaysInItsChapter /\ HistoryIsTheChapters
    /\ MountedLoad /\ AnswersAreTheChapters /\ SavesAreTheChapters
    /\ ScreenIsTheChapters /\ UndoIsTheChapters /\ NotesAreTheChapters

EditorInv == EditorTyped /\ (lapses = {} => TextsAreTheChapters)

\* A step with its types, before which all is as it should be, and with no lapse.
EditorGoesOn == EditorTyped /\ EditorTyped' /\ TextsAreTheChapters /\ lapses' = {}

LEMMA PendingIsOwn ==
    ASSUME EditorTyped, UndoIsTheChapters
    PROVE  Pending \subseteq Manuscript /\ \A text \in Pending : text.of = editor.selected
  BY PendingIs DEF UndoIsTheChapters

LEMMA RecordedIsOwn ==
    ASSUME EditorTyped, HistoryIsTheChapters, NEW c \in Book, NEW texts \in SUBSET Manuscript,
           \A text \in texts : text.of = c, editHistory' = Recorded(c, texts)
    PROVE  HistoryIsTheChapters'
<1>1. /\ editHistory'[c] = editHistory[c] \cup texts
      /\ \A d \in Book : d # c => editHistory'[d] = editHistory[d]
  BY RecordedIs
<1> QED
  BY <1>1 DEF HistoryIsTheChapters

\* The draft becomes a text of the selected chapter, or of any while it is loading.
LEMMA DraftIsOwn ==
    ASSUME EditorTyped, MountedLoad, NEW text \in Manuscript,
           ~ editor.loading => text.of = editor.selected,
           editor' = Rearmed([editor EXCEPT !.draft = text]), loads' = loads
    PROVE  /\ ScreenIsTheChapters' /\ MountedLoad'
           /\ editor'.selected = editor.selected /\ editor'.loading = editor.loading
<1>1. /\ editor'.selected = editor.selected /\ editor'.loading = editor.loading
      /\ editor'.draft = text /\ (editor'.timer => ~ editor'.loading)
  BY DraftIs
<1> QED
  BY <1>1 DEF ScreenIsTheChapters, MountedLoad

LEMMA RememberedIsOwn ==
    ASSUME EditorTyped, UndoIsTheChapters, NEW texts \in SUBSET Manuscript,
           ~ undo.loading => \A text \in texts : text.of = editor.selected,
           undo' = Remembered(texts), editor'.selected = editor.selected
    PROVE  UndoIsTheChapters'
<1>1. /\ undo'.texts = undo.texts \cup Pending \cup texts
      /\ undo'.pending = NoManuscript /\ undo'.loading = undo.loading
  BY RememberedIs
<1>2. \A text \in Pending : text.of = editor.selected
  BY PendingIsOwn
<1> QED
  BY <1>1, <1>2 DEF UndoIsTheChapters

LEMMA CommitIsOwn ==
    ASSUME EditorTyped, TextsAreTheChapters, NEW text \in Manuscript, Commit(text),
           ~ editor.loading => text.of = editor.selected, lapses' = {}, loads' = loads
    PROVE  /\ HistoryIsTheChapters' /\ MountedLoad' /\ ScreenIsTheChapters'
           /\ UndoIsTheChapters'
<1>1. CASE text = editor.draft
  <2>1. UNCHANGED <<editHistory, editor, undo>>
    BY <1>1 DEF Commit
  <2> QED
    BY <2>1 DEF TextsAreTheChapters, HistoryIsTheChapters, MountedLoad, ScreenIsTheChapters,
                UndoIsTheChapters
<1>2. CASE text # editor.draft
  <2>1. /\ editor' = Rearmed([editor EXCEPT !.draft = text])
        /\ undo' = Remembered({editor.draft})
        /\ editHistory' = Recorded(editor.selected, Pending \cup {editor.draft})
        /\ lapses' = Lapsed("early", editor.loading)
    BY <1>2 DEF Commit
  <2>2. editor.draft \in Manuscript /\ editor.selected \in Book /\ editor.loading \in BOOLEAN
    BY DEF EditorTyped, EditorState
  <2>3. ~ editor.loading
    BY <2>1, <2>2, LapsedIs DEF Lapse
  <2>4. editor.draft.of = editor.selected
    BY <2>3 DEF TextsAreTheChapters, ScreenIsTheChapters
  <2>5. MountedLoad' /\ ScreenIsTheChapters' /\ editor'.selected = editor.selected
    BY <2>1, DraftIsOwn DEF TextsAreTheChapters
  <2>6. UndoIsTheChapters'
    BY <2>1, <2>2, <2>4, <2>5, RememberedIsOwn DEF TextsAreTheChapters
  <2>7. HistoryIsTheChapters'
    <3> DEFINE texts == Pending \cup {editor.draft}
    <3>1. texts \in SUBSET Manuscript /\ \A t \in texts : t.of = editor.selected
      BY <2>2, <2>4, PendingIsOwn DEF TextsAreTheChapters
    <3>2. editHistory' = Recorded(editor.selected, texts)
      BY <2>1
    <3> HIDE DEF texts
    <3> QED
      BY <2>2, <3>1, <3>2, RecordedIsOwn DEF TextsAreTheChapters
  <2> QED
    BY <2>5, <2>6, <2>7
<1> QED
  BY <1>1, <1>2

\* Selecting a chapter mounts a load of it.
LEMMA SelectMounts ==
    ASSUME EditorTyped, TextsAreTheChapters, NEW e \in EditorState,
           NEW c \in Book \cup {NoChapter}, Select(e, c),
           e.selected = editor.selected, e.loading = editor.loading, e.draft = editor.draft,
           e.timer = editor.timer
    PROVE  /\ MountedLoad' /\ AnswersAreTheChapters' /\ ScreenIsTheChapters'
           /\ UndoIsTheChapters'
<1>1. CASE c \in {e.selected, NoChapter}
  <2>1. editor' = e /\ loads' = loads /\ undo' = undo
    BY <1>1 DEF Select
  <2> QED
    BY <2>1 DEF TextsAreTheChapters, MountedLoad, AnswersAreTheChapters, ScreenIsTheChapters,
                UndoIsTheChapters
<1>2. CASE c \notin {e.selected, NoChapter}
  <2> DEFINE chosen == [e EXCEPT !.selected = c, !.loading = TRUE]
             load   == [chapter |-> c, text |-> NoManuscript, pc |-> "asked"]
  <2>1. editor' = Rearmed(chosen) /\ loads' = Append(loads, load)
    BY <1>2 DEF Select
  <2>2. chosen \in EditorState /\ chosen.selected = c /\ chosen.loading
    BY <1>2 DEF EditorState
  <2>3. load \in Load /\ load.chapter = c /\ load.pc = "asked"
    BY <1>2 DEF Load
  <2> HIDE DEF chosen, load
  <2>4. editor' \in EditorState /\ editor'.selected = c /\ editor'.loading /\ ~ editor'.timer
    BY <2>1, <2>2, RearmedIs DEF EditorState
  <2>5. /\ loads' \in Seq(Load) /\ Len(loads') = Len(loads) + 1 /\ loads' # << >>
        /\ loads'[Len(loads')] = load
        /\ \A l \in DOMAIN loads' :
              (l \in DOMAIN loads /\ loads'[l] = loads[l]) \/ loads'[l] = load
    BY <2>1, <2>3 DEF EditorTyped
  <2>6. MountedLoad'
    BY <2>3, <2>4, <2>5 DEF MountedLoad
  <2>7. AnswersAreTheChapters'
    BY <2>3, <2>5 DEF TextsAreTheChapters, AnswersAreTheChapters
  <2>8. ScreenIsTheChapters'
    BY <2>4 DEF ScreenIsTheChapters
  <2>9. UndoIsTheChapters'
    <3>1. undo \in Undo
      BY DEF EditorTyped
    <3>2. undo'.pending = NoManuscript /\ undo'.loading
      BY <1>2, <3>1 DEF Select, Undo
    <3> QED
      BY <3>2 DEF UndoIsTheChapters
  <2> QED
    BY <2>6, <2>7, <2>8, <2>9
<1> QED
  BY <1>1, <1>2

LEMMA QueueSaveKeeps ==
    ASSUME EditorTyped, TextsAreTheChapters, NEW next \in Book \cup {NoChapter},
           ~ editor.loading, QueueSave(editor.selected, editor.draft, next)
    PROVE  SavesAreTheChapters'
<1> DEFINE save == [chapter |-> editor.selected, text |-> editor.draft, next |-> next,
                    pc |-> "asked"]
<1>1. save \in Save /\ save.text.of = save.chapter
  BY DEF EditorTyped, TextsAreTheChapters, ScreenIsTheChapters, EditorState, Save
<1>2. saveQueue' = Append(saveQueue, save)
  BY DEF QueueSave
<1> HIDE DEF save
<1>3. \A s \in DOMAIN saveQueue' :
         (s \in DOMAIN saveQueue /\ saveQueue'[s] = saveQueue[s]) \/ saveQueue'[s] = save
  BY <1>1, <1>2 DEF EditorTyped
<1> QED
  BY <1>1, <1>3 DEF TextsAreTheChapters, SavesAreTheChapters

-----------------------------------------------------------------------------
(* The invariant, step by step.                                            *)

LEMMA ChangeDraftStep ==
    ASSUME EditorGoesOn, ChangeDraft
    PROVE  TextsAreTheChapters'
<1> USE DEF EditorGoesOn
<1> DEFINE text == [editor.draft EXCEPT !.change = made + 1]
<1>1. /\ ~ editor.loading /\ made < MaxChanges /\ made' = made + 1
      /\ editor' = Rearmed([editor EXCEPT !.draft.change = made + 1])
      /\ undo' = [undo EXCEPT !.pending = IF @ = NoManuscript THEN editor.draft ELSE @]
      /\ UNCHANGED <<onServer, editHistory, loads, saveQueue, revision, restore, refresh>>
  BY DEF ChangeDraft, serverTexts, revisions, agentNews
<1>2. editor.draft.of = editor.selected
  BY <1>1 DEF TextsAreTheChapters, ScreenIsTheChapters
<1>3. /\ text \in Manuscript /\ text.of = editor.selected
      /\ editor' = Rearmed([editor EXCEPT !.draft = text])
  BY <1>1, <1>2, ChangedIs
<1> HIDE DEF text
<1>4. ScreenIsTheChapters' /\ MountedLoad' /\ editor'.selected = editor.selected
  BY <1>1, <1>3, DraftIsOwn DEF TextsAreTheChapters
<1>5. UndoIsTheChapters'
  <2>1. undo \in Undo
    BY DEF EditorTyped
  <2>2. /\ undo'.texts = undo.texts /\ undo'.loading = undo.loading
        /\ undo'.pending = IF undo.pending = NoManuscript THEN editor.draft ELSE undo.pending
    BY <1>1, <2>1 DEF Undo
  <2> QED
    BY <1>2, <1>4, <2>2 DEF TextsAreTheChapters, UndoIsTheChapters
<1> QED
  BY <1>1, <1>4, <1>5
     DEF TextsAreTheChapters, TextStaysInItsChapter, HistoryIsTheChapters,
         AnswersAreTheChapters, SavesAreTheChapters, NotesAreTheChapters

LEMMA ReformatStep ==
    ASSUME EditorGoesOn, Reformat
    PROVE  TextsAreTheChapters'
<1> USE DEF EditorGoesOn
<1> DEFINE text == [editor.draft EXCEPT !.change = made + 1]
<1>1. /\ made < MaxChanges /\ Commit(text)
      /\ UNCHANGED <<onServer, loads, saveQueue, revision, restore, refresh>>
  BY DEF Reformat, revisions, agentNews
<1>2. text \in Manuscript /\ text.of = editor.draft.of
  BY <1>1, ChangedIs
<1>3. ~ editor.loading => text.of = editor.selected
  BY <1>2 DEF TextsAreTheChapters, ScreenIsTheChapters
<1> HIDE DEF text
<1>4. /\ HistoryIsTheChapters' /\ MountedLoad' /\ ScreenIsTheChapters' /\ UndoIsTheChapters'
  BY <1>1, <1>2, <1>3, CommitIsOwn
<1> QED
  BY <1>1, <1>4 DEF TextsAreTheChapters, TextStaysInItsChapter, AnswersAreTheChapters,
                    SavesAreTheChapters, NotesAreTheChapters

LEMMA RestoreTextStep ==
    ASSUME EditorGoesOn, RestoreText
    PROVE  TextsAreTheChapters'
<1> USE DEF EditorGoesOn
<1>1. /\ restore.chapter = editor.selected /\ Commit(restore.text) /\ restore' = NoNote
      /\ UNCHANGED <<onServer, loads, saveQueue, revision, refresh>>
  BY DEF RestoreText, agentNews
<1>2. editor.selected \in Book
  BY DEF EditorTyped, EditorState
<1>3. restore # NoNote /\ restore.text \in Manuscript
  BY <1>1, <1>2, EditorAssumption DEF EditorTyped, Note, NoNote
<1>4. restore.text.of = editor.selected
  BY <1>1, <1>3 DEF TextsAreTheChapters, NotesAreTheChapters
<1>5. /\ HistoryIsTheChapters' /\ MountedLoad' /\ ScreenIsTheChapters' /\ UndoIsTheChapters'
  BY <1>1, <1>3, <1>4, CommitIsOwn
<1> QED
  BY <1>1, <1>5 DEF TextsAreTheChapters, TextStaysInItsChapter, AnswersAreTheChapters,
                    SavesAreTheChapters, NotesAreTheChapters

LEMMA BringBackStep ==
    ASSUME EditorGoesOn, NEW text \in Manuscript, BringBack(text)
    PROVE  TextsAreTheChapters'
<1> USE DEF EditorGoesOn
<1>1. /\ text \in undo.texts \cup Pending
      /\ editor' = Rearmed([editor EXCEPT !.draft = text])
      /\ undo' = Remembered({editor.draft})
      /\ editHistory' = Recorded(editor.selected, Pending)
      /\ lapses' = Lapsed("early", editor.loading \/ undo.loading)
      /\ UNCHANGED <<onServer, loads, saveQueue, revision, restore, refresh>>
  BY DEF BringBack, revisions, agentNews
<1>2. editor.draft \in Manuscript /\ editor.selected \in Book
  BY DEF EditorTyped, EditorState
<1>3. ~ editor.loading /\ ~ undo.loading
  <2>1. (editor.loading \/ undo.loading) \in BOOLEAN /\ "early" \in Lapse
    BY DEF Lapse
  <2> QED
    BY <1>1, <2>1, LapsedIs
<1>4. Pending \subseteq Manuscript /\ \A t \in Pending : t.of = editor.selected
  BY PendingIsOwn DEF TextsAreTheChapters
<1>5. editor.draft.of = editor.selected /\ text.of = editor.selected
  BY <1>1, <1>3, <1>4 DEF TextsAreTheChapters, ScreenIsTheChapters, UndoIsTheChapters
<1>6. ScreenIsTheChapters' /\ MountedLoad' /\ editor'.selected = editor.selected
  BY <1>1, <1>5, DraftIsOwn DEF TextsAreTheChapters
<1>7. UndoIsTheChapters'
  BY <1>1, <1>2, <1>5, <1>6, RememberedIsOwn DEF TextsAreTheChapters
<1>8. HistoryIsTheChapters'
  BY <1>1, <1>2, <1>4, RecordedIsOwn DEF TextsAreTheChapters
<1> QED
  BY <1>1, <1>6, <1>7, <1>8
     DEF TextsAreTheChapters, TextStaysInItsChapter, AnswersAreTheChapters,
         SavesAreTheChapters, NotesAreTheChapters

LEMMA RememberTypedStep ==
    ASSUME EditorGoesOn, RememberTyped
    PROVE  TextsAreTheChapters'
<1> USE DEF EditorGoesOn
<1>1. /\ undo' = Remembered({}) /\ editHistory' = Recorded(editor.selected, Pending)
      /\ UNCHANGED <<onServer, editor, loads, saveQueue, revision, restore, refresh>>
  BY DEF RememberTyped, revisions, agentNews
<1>2. editor.selected \in Book
  BY DEF EditorTyped, EditorState
<1>3. HistoryIsTheChapters'
  BY <1>1, <1>2, PendingIsOwn, RecordedIsOwn DEF TextsAreTheChapters
<1>4. UndoIsTheChapters'
  BY <1>1, RememberedIsOwn DEF TextsAreTheChapters
<1> QED
  BY <1>1, <1>3, <1>4
     DEF TextsAreTheChapters, TextStaysInItsChapter, MountedLoad, AnswersAreTheChapters,
         SavesAreTheChapters, ScreenIsTheChapters, NotesAreTheChapters

LEMMA HistoryReturnsStep ==
    ASSUME EditorGoesOn, HistoryReturns
    PROVE  TextsAreTheChapters'
<1> USE DEF EditorGoesOn
<1>1. UNCHANGED <<onServer, editHistory, editor, loads, saveQueue, revision, restore, refresh>>
  BY DEF HistoryReturns, serverTexts, revisions, agentNews
<1>2. PICK found \in {editHistory[editor.selected], {}} :
         undo' = [undo EXCEPT !.texts = found, !.snapshots = found, !.loading = FALSE]
  BY DEF HistoryReturns
<1>3. undo \in Undo /\ editor.selected \in Book
  BY DEF EditorTyped, EditorState
<1>4. undo'.texts = found /\ undo'.pending = undo.pending
  BY <1>2, <1>3 DEF Undo
<1>5. \A text \in found : text.of = editor.selected
  BY <1>2, <1>3 DEF TextsAreTheChapters, HistoryIsTheChapters
<1>6. UndoIsTheChapters'
  BY <1>1, <1>4, <1>5 DEF TextsAreTheChapters, UndoIsTheChapters
<1> QED
  BY <1>1, <1>6
     DEF TextsAreTheChapters, TextStaysInItsChapter, HistoryIsTheChapters, MountedLoad,
         AnswersAreTheChapters, SavesAreTheChapters, ScreenIsTheChapters, NotesAreTheChapters

LEMMA SaveDraftStep ==
    ASSUME EditorGoesOn, SaveDraft \/ AutoSave
    PROVE  TextsAreTheChapters'
<1> USE DEF EditorGoesOn
<1>1. /\ QueueSave(editor.selected, editor.draft, NoChapter)
      /\ UNCHANGED <<onServer, editHistory, undo, loads, revision, restore, refresh>>
  BY DEF SaveDraft, AutoSave, serverTexts, revisions, agentNews
<1>2. /\ ~ editor.loading
      /\ editor'.selected = editor.selected /\ editor'.loading = editor.loading
      /\ editor'.draft = editor.draft /\ (editor'.timer => editor.timer)
  <2>1. CASE SaveDraft
    BY <2>1 DEF SaveDraft
  <2>2. CASE AutoSave
    <3>1. editor.timer /\ editor' = [editor EXCEPT !.timer = FALSE]
      BY <2>2 DEF AutoSave
    <3> QED
      BY <3>1 DEF EditorTyped, EditorState, TextsAreTheChapters, ScreenIsTheChapters
  <2> QED
    BY <2>1, <2>2
<1>3. SavesAreTheChapters'
  BY <1>1, <1>2, QueueSaveKeeps
<1> QED
  BY <1>1, <1>2, <1>3
     DEF TextsAreTheChapters, TextStaysInItsChapter, HistoryIsTheChapters, MountedLoad,
         AnswersAreTheChapters, ScreenIsTheChapters, UndoIsTheChapters, NotesAreTheChapters

LEMMA SelectChapterStep ==
    ASSUME EditorGoesOn, NEW c \in Book, SelectChapter(c)
    PROVE  TextsAreTheChapters'
<1> USE DEF EditorGoesOn
<1>1. UNCHANGED <<onServer, editHistory, revision, restore, refresh>>
  BY DEF SelectChapter, serverTexts, revisions, agentNews
<1>2. TextStaysInItsChapter' /\ HistoryIsTheChapters' /\ NotesAreTheChapters'
  BY <1>1 DEF TextsAreTheChapters, TextStaysInItsChapter, HistoryIsTheChapters,
              NotesAreTheChapters
<1>3. CASE Unsaved /\ ~ editor.loading
  <2>1. QueueSave(editor.selected, editor.draft, c) /\ UNCHANGED <<editor, loads, undo>>
    BY <1>3 DEF SelectChapter
  <2>2. SavesAreTheChapters'
    BY <1>3, <2>1, QueueSaveKeeps
  <2> QED
    BY <1>2, <2>1, <2>2 DEF TextsAreTheChapters, MountedLoad, AnswersAreTheChapters,
                            ScreenIsTheChapters, UndoIsTheChapters
<1>4. CASE ~ (Unsaved /\ ~ editor.loading)
  <2>1. Select(editor, c) /\ saveQueue' = saveQueue
    BY <1>4 DEF SelectChapter
  <2>2. editor \in EditorState
    BY DEF EditorTyped
  <2>3. /\ MountedLoad' /\ AnswersAreTheChapters' /\ ScreenIsTheChapters'
        /\ UndoIsTheChapters'
    BY <2>1, <2>2, SelectMounts
  <2> QED
    BY <1>2, <2>1, <2>3 DEF TextsAreTheChapters, SavesAreTheChapters
<1> QED
  BY <1>3, <1>4

\* What the server stores for a chapter, and what that replaces, are its texts.
LEMMA StoresKeeps ==
    ASSUME EditorTyped, TextsAreTheChapters, NEW c \in Book, NEW text \in Manuscript,
           text.of = c, Stores(c, text)
    PROVE  TextStaysInItsChapter' /\ HistoryIsTheChapters'
<1>1. onServer' = [onServer EXCEPT ![c] = text]
  BY DEF Stores
<1>2. TextStaysInItsChapter'
  BY <1>1 DEF EditorTyped, TextsAreTheChapters, TextStaysInItsChapter
<1>3. onServer[c] \in Manuscript /\ onServer[c].of = c
  BY DEF EditorTyped, TextsAreTheChapters, TextStaysInItsChapter
<1> DEFINE texts == {onServer[c]} \ {text}
<1>4. texts \in SUBSET Manuscript /\ \A t \in texts : t.of = c
  BY <1>3
<1>5. editHistory' = Recorded(c, texts)
  BY DEF Stores
<1> HIDE DEF texts
<1> QED
  BY <1>2, <1>4, <1>5, RecordedIsOwn DEF TextsAreTheChapters

LEMMA ServerSavesStep ==
    ASSUME EditorGoesOn, ServerSaves
    PROVE  TextsAreTheChapters'
<1> USE DEF EditorGoesOn
<1>1. /\ saveQueue # << >> /\ UNCHANGED <<editor, undo, loads, revision, restore, refresh>>
  BY DEF ServerSaves, revisions, agentNews
<1>2. /\ MountedLoad' /\ AnswersAreTheChapters' /\ ScreenIsTheChapters'
      /\ UndoIsTheChapters' /\ NotesAreTheChapters'
  BY <1>1 DEF TextsAreTheChapters, MountedLoad, AnswersAreTheChapters, ScreenIsTheChapters,
              UndoIsTheChapters, NotesAreTheChapters
<1>3. ASSUME NEW pc \in {"stored", "failed"}, saveQueue' = [saveQueue EXCEPT ![1].pc = pc]
      PROVE  SavesAreTheChapters'
  <2>1. /\ DOMAIN saveQueue' = DOMAIN saveQueue /\ 1 \in DOMAIN saveQueue
        /\ saveQueue'[1].text = saveQueue[1].text
        /\ saveQueue'[1].chapter = saveQueue[1].chapter
        /\ \A s \in DOMAIN saveQueue : s # 1 => saveQueue'[s] = saveQueue[s]
    BY <1>1, <1>3, AnsweredSave
  <2> QED
    BY <2>1 DEF TextsAreTheChapters, SavesAreTheChapters
<1>4. CASE /\ Stores(Head(saveQueue).chapter, Head(saveQueue).text)
           /\ saveQueue' = [saveQueue EXCEPT ![1].pc = "stored"]
  <2>1. /\ Stores(saveQueue[1].chapter, saveQueue[1].text)
        /\ 1 \in DOMAIN saveQueue /\ saveQueue[1] \in Save
    BY <1>1, <1>4, AnsweredSave
  <2>2. /\ saveQueue[1].chapter \in Book /\ saveQueue[1].text \in Manuscript
    BY <2>1 DEF Save
  <2>3. saveQueue[1].text.of = saveQueue[1].chapter
    BY <2>1 DEF TextsAreTheChapters, SavesAreTheChapters
  <2>4. TextStaysInItsChapter' /\ HistoryIsTheChapters'
    BY <2>1, <2>2, <2>3, StoresKeeps
  <2> QED
    BY <1>2, <1>3, <1>4, <2>4 DEF TextsAreTheChapters
<1>5. CASE saveQueue' = [saveQueue EXCEPT ![1].pc = "failed"] /\ UNCHANGED serverTexts
  <2>1. TextStaysInItsChapter' /\ HistoryIsTheChapters'
    BY <1>5 DEF serverTexts, TextsAreTheChapters, TextStaysInItsChapter, HistoryIsTheChapters
  <2> QED
    BY <1>2, <1>3, <1>5, <2>1 DEF TextsAreTheChapters
<1> QED
  BY <1>4, <1>5 DEF ServerSaves

LEMMA SaveReturnsStep ==
    ASSUME EditorGoesOn, SaveReturns
    PROVE  TextsAreTheChapters'
<1> USE DEF EditorGoesOn
<1> DEFINE save == Head(saveQueue)
           e    == IF save.chapter = editor.selected
                   THEN [editor EXCEPT !.saved = save.text] ELSE editor
<1>1. /\ saveQueue # << >> /\ saveQueue' = Tail(saveQueue)
      /\ IF save.pc = "failed" THEN UNCHANGED <<editor, loads, undo>> ELSE Select(e, save.next)
      /\ UNCHANGED <<onServer, editHistory, revision, restore, refresh>>
  BY DEF SaveReturns, serverTexts, revisions, agentNews
<1>2. save \in Save
  BY <1>1 DEF EditorTyped
<1>3. SavesAreTheChapters'
  <2>1. \A s \in DOMAIN saveQueue' :
           s + 1 \in DOMAIN saveQueue /\ saveQueue'[s] = saveQueue[s + 1]
    BY <1>1 DEF EditorTyped
  <2> QED
    BY <2>1 DEF TextsAreTheChapters, SavesAreTheChapters
<1>4. TextStaysInItsChapter' /\ HistoryIsTheChapters' /\ NotesAreTheChapters'
  BY <1>1 DEF TextsAreTheChapters, TextStaysInItsChapter, HistoryIsTheChapters,
              NotesAreTheChapters
<1>5. MountedLoad' /\ AnswersAreTheChapters' /\ ScreenIsTheChapters' /\ UndoIsTheChapters'
  <2>1. CASE save.pc = "failed"
    BY <1>1, <2>1 DEF TextsAreTheChapters, MountedLoad, AnswersAreTheChapters,
                      ScreenIsTheChapters, UndoIsTheChapters
  <2>2. CASE save.pc # "failed"
    <3>1. /\ e \in EditorState /\ e.selected = editor.selected /\ e.loading = editor.loading
          /\ e.draft = editor.draft /\ e.timer = editor.timer
      BY <1>2 DEF EditorTyped, EditorState, Save
    <3>2. Select(e, save.next)
      BY <1>1, <2>2
    <3>3. save.next \in Book \cup {NoChapter}
      BY <1>2 DEF Save
    <3> HIDE DEF e, save
    <3> QED
      BY <3>1, <3>2, <3>3, SelectMounts
  <2> QED
    BY <2>1, <2>2
<1> QED
  BY <1>3, <1>4, <1>5 DEF TextsAreTheChapters

\* A load goes on: its chapter stays, and it is over when the editor is told.
LEMMA LoadKeeps ==
    ASSUME EditorTyped, TextsAreTheChapters, NEW l \in DOMAIN loads, NEW load \in Load,
           loads' = [loads EXCEPT ![l] = load], load.chapter = loads[l].chapter,
           load.pc = "answered" => load.text.of = load.chapter,
           editor'.selected = editor.selected,
           IF l = Len(loads) THEN editor'.loading <=> load.pc # "over"
           ELSE editor'.loading = editor.loading
    PROVE  MountedLoad' /\ AnswersAreTheChapters'
<1>1. /\ DOMAIN loads' = DOMAIN loads /\ Len(loads') = Len(loads)
      /\ loads # << >> /\ loads' # << >> /\ loads'[l] = load
      /\ Len(loads) \in DOMAIN loads
      /\ \A k \in DOMAIN loads : k # l => loads'[k] = loads[k]
  BY LoadGoesOn
<1>2. /\ loads[Len(loads)].chapter = editor.selected
      /\ (editor.loading <=> loads[Len(loads)].pc # "over")
  BY <1>1 DEF TextsAreTheChapters, MountedLoad
<1>3. MountedLoad'
  <2>1. CASE l = Len(loads)
    BY <1>1, <1>2, <2>1 DEF MountedLoad
  <2>2. CASE l # Len(loads)
    BY <1>1, <1>2, <2>2 DEF MountedLoad
  <2> QED
    BY <2>1, <2>2
<1>4. AnswersAreTheChapters'
  BY <1>1 DEF TextsAreTheChapters, AnswersAreTheChapters
<1> QED
  BY <1>3, <1>4

LEMMA ServerLoadsStep ==
    ASSUME EditorGoesOn, NEW l \in DOMAIN loads, ServerLoads(l)
    PROVE  TextsAreTheChapters'
<1> USE DEF EditorGoesOn
<1>1. /\ loads[l].pc = "asked"
      /\ UNCHANGED <<onServer, editHistory, editor, undo, saveQueue, revision, restore, refresh>>
  BY DEF ServerLoads, serverTexts, revisions, agentNews
<1>2. PICK load \in Load :
         /\ loads' = [loads EXCEPT ![l] = load]
         /\ load.chapter = loads[l].chapter /\ load.chapter \in Book
         /\ load.pc \in {"answered", "failed"}
         /\ load.pc = "answered" => load.text = onServer[load.chapter]
  BY AnsweredLoad
<1>3. load.pc = "answered" => load.text.of = load.chapter
  BY <1>2 DEF TextsAreTheChapters, TextStaysInItsChapter
<1>4. l = Len(loads) => editor.loading
  <2>1. loads # << >>
    BY <1>2, LoadGoesOn
  <2> QED
    BY <1>1, <2>1 DEF TextsAreTheChapters, MountedLoad
<1>5. IF l = Len(loads) THEN editor'.loading <=> load.pc # "over"
      ELSE editor'.loading = editor.loading
  BY <1>1, <1>2, <1>4
<1>6. MountedLoad' /\ AnswersAreTheChapters'
  BY <1>1, <1>2, <1>3, <1>5, LoadKeeps
<1> QED
  BY <1>1, <1>6
     DEF TextsAreTheChapters, TextStaysInItsChapter, HistoryIsTheChapters,
         SavesAreTheChapters, ScreenIsTheChapters, UndoIsTheChapters, NotesAreTheChapters

LEMMA LoadReturnsStep ==
    ASSUME EditorGoesOn, NEW l \in DOMAIN loads, LoadReturns(l)
    PROVE  TextsAreTheChapters'
<1> USE DEF EditorGoesOn
<1>1. UNCHANGED <<onServer, editHistory, undo, saveQueue, revision, restore, refresh>>
  BY OverLoad
<1>2. PICK load \in Load :
         /\ loads' = [loads EXCEPT ![l] = load]
         /\ load.chapter = loads[l].chapter /\ load.pc = "over"
  BY OverLoad
<1>3. editor'.selected = editor.selected
  BY OverLoad
<1>4. IF l = Len(loads) THEN ~ editor'.loading ELSE editor' = editor
  BY OverLoad
<1>5. MountedLoad' /\ AnswersAreTheChapters'
  BY <1>2, <1>3, <1>4, LoadKeeps
<1>6. ScreenIsTheChapters'
  <2>1. CASE l # Len(loads)
    BY <1>4, <2>1 DEF TextsAreTheChapters, ScreenIsTheChapters
  <2>2. CASE l = Len(loads)
    <3>1. /\ lapses' = Lapsed("unread", loads[l].pc = "failed")
          /\ loads[l].pc \in {"answered", "failed"} /\ ~ editor'.loading
          /\ loads[l].pc = "answered" => editor'.draft = loads[l].text
      BY <2>2, OverLoad
    <3>2. (loads[l].pc = "failed") \in BOOLEAN /\ "unread" \in Lapse
      BY DEF Lapse
    <3>3. loads[l].pc = "answered"
      BY <3>1, <3>2, LapsedIs
    <3>4. loads # << >>
      BY <1>2, LoadGoesOn
    <3>5. loads[l].text.of = loads[l].chapter /\ loads[l].chapter = editor.selected
      BY <2>2, <3>3, <3>4 DEF TextsAreTheChapters, AnswersAreTheChapters, MountedLoad
    <3> QED
      BY <1>3, <3>1, <3>3, <3>5 DEF ScreenIsTheChapters
  <2> QED
    BY <2>1, <2>2
<1> QED
  BY <1>1, <1>3, <1>5, <1>6
     DEF TextsAreTheChapters, TextStaysInItsChapter, HistoryIsTheChapters,
         SavesAreTheChapters, UndoIsTheChapters, NotesAreTheChapters

\* The agent's change is one of the text on the screen, which is the chapter's.
LEMMA BeginRevisionStep ==
    ASSUME EditorGoesOn, BeginRevision
    PROVE  TextsAreTheChapters'
<1> USE DEF EditorGoesOn
<1> DEFINE text == [editor.draft EXCEPT !.change = made + 1]
<1>1. /\ editor.loading => editor.draft.of = editor.selected
      /\ made < MaxChanges /\ made' = made + 1
      /\ revision' = [chapter |-> editor.selected, before |-> editor.draft, text |-> text]
      /\ editHistory' \in {editHistory, Recorded(editor.selected, {editor.draft})}
      /\ UNCHANGED <<onServer, editor, undo, loads, saveQueue, restore, refresh>>
  BY DEF BeginRevision, agentNews
<1>2. editor.draft \in Manuscript /\ editor.selected \in Book
  BY DEF EditorTyped, EditorState
<1>3. editor.draft.of = editor.selected
  BY <1>1 DEF TextsAreTheChapters, ScreenIsTheChapters
<1>4. text \in Manuscript /\ text.of = editor.selected
  BY <1>1, <1>3, ChangedIs
<1> HIDE DEF text
<1>5. NotesAreTheChapters'
  BY <1>1, <1>3, <1>4 DEF TextsAreTheChapters, NotesAreTheChapters
<1>6. HistoryIsTheChapters'
  <2>1. CASE editHistory' = editHistory
    BY <2>1 DEF TextsAreTheChapters, HistoryIsTheChapters
  <2>2. CASE editHistory' = Recorded(editor.selected, {editor.draft})
    BY <1>2, <1>3, <2>2, RecordedIsOwn DEF TextsAreTheChapters
  <2> QED
    BY <1>1, <2>1, <2>2
<1> QED
  BY <1>1, <1>5, <1>6
     DEF TextsAreTheChapters, TextStaysInItsChapter, MountedLoad, AnswersAreTheChapters,
         SavesAreTheChapters, ScreenIsTheChapters, UndoIsTheChapters

LEMMA ApplyRevisionStep ==
    ASSUME EditorGoesOn, ApplyRevision
    PROVE  TextsAreTheChapters'
<1> USE DEF EditorGoesOn
<1>1. /\ revision # NoRevision
      /\ editor' = Rearmed([editor EXCEPT !.draft = revision.text])
      /\ undo' = Remembered({revision.before})
      /\ editHistory' = Recorded(revision.chapter, Pending \cup {revision.before})
      /\ restore' = [chapter |-> revision.chapter, text |-> revision.before]
      /\ revision' = NoRevision
      /\ lapses' = Lapsed("late", revision.chapter # editor.selected)
      /\ UNCHANGED <<onServer, loads, saveQueue, refresh>>
  BY DEF ApplyRevision, agentNews
<1>2. revision.chapter \in Book /\ revision.before \in Manuscript /\ revision.text \in Manuscript
  BY <1>1 DEF EditorTyped, Revision
<1>3. revision.chapter = editor.selected
  <2>1. (revision.chapter # editor.selected) \in BOOLEAN /\ "late" \in Lapse
    BY DEF Lapse
  <2> QED
    BY <1>1, <2>1, LapsedIs
<1>4. revision.before.of = editor.selected /\ revision.text.of = editor.selected
  BY <1>1, <1>3 DEF TextsAreTheChapters, NotesAreTheChapters
<1>5. ScreenIsTheChapters' /\ MountedLoad' /\ editor'.selected = editor.selected
  BY <1>1, <1>2, <1>4, DraftIsOwn DEF TextsAreTheChapters
<1>6. UndoIsTheChapters'
  BY <1>1, <1>2, <1>4, <1>5, RememberedIsOwn DEF TextsAreTheChapters
<1>7. HistoryIsTheChapters'
  <2> DEFINE texts == Pending \cup {revision.before}
  <2>1. texts \in SUBSET Manuscript /\ \A t \in texts : t.of = revision.chapter
    BY <1>2, <1>3, <1>4, PendingIsOwn DEF TextsAreTheChapters
  <2>2. editHistory' = Recorded(revision.chapter, texts)
    BY <1>1
  <2> HIDE DEF texts
  <2> QED
    BY <1>2, <2>1, <2>2, RecordedIsOwn DEF TextsAreTheChapters
<1>8. NotesAreTheChapters'
  BY <1>1, <1>3, <1>4 DEF TextsAreTheChapters, NotesAreTheChapters
<1> QED
  BY <1>1, <1>5, <1>6, <1>7, <1>8
     DEF TextsAreTheChapters, TextStaysInItsChapter, AnswersAreTheChapters,
         SavesAreTheChapters

LEMMA AgentStoresStep ==
    ASSUME EditorGoesOn, NEW c \in Book, AgentStores(c)
    PROVE  TextsAreTheChapters'
<1> USE DEF EditorGoesOn
<1> DEFINE text == [of |-> c, change |-> made + 1]
<1>1. /\ made < MaxChanges /\ made' = made + 1 /\ Stores(c, text)
      /\ UNCHANGED <<editor, undo, loads, saveQueue, revision, restore, refresh>>
  BY DEF AgentStores, revisions
<1>2. text \in Manuscript /\ text.of = c
  BY <1>1, ChangedIs DEF Manuscript
<1> HIDE DEF text
<1>3. TextStaysInItsChapter' /\ HistoryIsTheChapters'
  BY <1>1, <1>2, StoresKeeps
<1> QED
  BY <1>1, <1>3
     DEF TextsAreTheChapters, MountedLoad, AnswersAreTheChapters, SavesAreTheChapters,
         ScreenIsTheChapters, UndoIsTheChapters, NotesAreTheChapters

LEMMA HearOfChangeStep ==
    ASSUME EditorGoesOn, NEW c \in Book, HearOfChange(c)
    PROVE  TextsAreTheChapters'
<1> USE DEF EditorGoesOn
<1>1. /\ refresh' = IF c = editor.selected THEN [chapter |-> c, text |-> onServer[c]]
                    ELSE refresh
      /\ UNCHANGED <<onServer, editHistory, editor, undo, loads, saveQueue, revision, restore>>
  BY DEF HearOfChange, serverTexts, revisions
<1>2. onServer[c].of = c
  BY DEF TextsAreTheChapters, TextStaysInItsChapter
<1>3. NotesAreTheChapters'
  BY <1>1, <1>2 DEF TextsAreTheChapters, NotesAreTheChapters
<1> QED
  BY <1>1, <1>3
     DEF TextsAreTheChapters, TextStaysInItsChapter, HistoryIsTheChapters, MountedLoad,
         AnswersAreTheChapters, SavesAreTheChapters, ScreenIsTheChapters, UndoIsTheChapters

LEMMA RefreshReturnsStep ==
    ASSUME EditorGoesOn, RefreshReturns
    PROVE  TextsAreTheChapters'
<1> USE DEF EditorGoesOn
<1> DEFINE kept == Unsaved /\ editor.draft # refresh.text
<1>1. /\ refresh # NoNote /\ refresh' = NoNote
      /\ UNCHANGED <<onServer, editHistory, loads, saveQueue, revision>>
  BY DEF RefreshReturns, serverTexts
<1>2. CASE refresh.chapter = editor.selected
  <2>1. /\ editor' = Rearmed(Shown(refresh.text))
        /\ undo' = [undo EXCEPT !.snapshots = editHistory[editor.selected]]
        /\ restore' = IF kept THEN [chapter |-> editor.selected, text |-> editor.draft]
                      ELSE restore
        /\ lapses' = Lapsed("early", kept /\ editor.loading)
    BY <1>2 DEF RefreshReturns
  <2>2. refresh.text \in Manuscript /\ refresh.text.of = editor.selected
    BY <1>1, <1>2 DEF EditorTyped, Note, TextsAreTheChapters, NotesAreTheChapters
  <2>3. /\ editor'.selected = editor.selected /\ editor'.loading = editor.loading
        /\ editor'.draft = refresh.text /\ (editor'.timer => ~ editor'.loading)
    <3>1. /\ Shown(refresh.text) \in EditorState
          /\ Shown(refresh.text).selected = editor.selected
          /\ Shown(refresh.text).loading = editor.loading
          /\ Shown(refresh.text).draft = refresh.text
      BY <2>2, ShownIs
    <3> QED
      BY <2>1, <3>1, RearmedIs
  <2>4. kept => ~ editor.loading
    <3>1. (kept /\ editor.loading) \in BOOLEAN /\ "early" \in Lapse
      BY DEF Lapse
    <3> HIDE DEF kept
    <3> QED
      BY <2>1, <3>1, LapsedIs
  <2>5. kept => editor.draft.of = editor.selected
    BY <2>4 DEF TextsAreTheChapters, ScreenIsTheChapters
  <2> HIDE DEF kept
  <2>6. NotesAreTheChapters'
    BY <1>1, <2>1, <2>5 DEF TextsAreTheChapters, NotesAreTheChapters
  <2>7. UndoIsTheChapters'
    <3>1. undo \in Undo
      BY DEF EditorTyped
    <3>2. undo'.texts = undo.texts /\ undo'.pending = undo.pending
          /\ undo'.loading = undo.loading
      BY <2>1, <3>1 DEF Undo
    <3> QED
      BY <2>3, <3>2 DEF TextsAreTheChapters, UndoIsTheChapters
  <2> QED
    BY <1>1, <2>2, <2>3, <2>6, <2>7
       DEF TextsAreTheChapters, TextStaysInItsChapter, HistoryIsTheChapters, MountedLoad,
           AnswersAreTheChapters, SavesAreTheChapters, ScreenIsTheChapters
<1>3. CASE refresh.chapter # editor.selected
  <2>1. UNCHANGED <<editor, undo, restore>>
    BY <1>3 DEF RefreshReturns
  <2> QED
    BY <1>1, <2>1
       DEF TextsAreTheChapters, TextStaysInItsChapter, HistoryIsTheChapters, MountedLoad,
           AnswersAreTheChapters, SavesAreTheChapters, ScreenIsTheChapters,
           UndoIsTheChapters, NotesAreTheChapters
<1> QED
  BY <1>2, <1>3

\* A revision or a refresh is given up.
LEMMA GivingUpStep ==
    ASSUME EditorGoesOn, AbandonRevision \/ RefreshFails
    PROVE  TextsAreTheChapters'
<1> USE DEF EditorGoesOn
<1>1. /\ UNCHANGED <<onServer, editHistory, editor, undo, loads, saveQueue, restore>>
      /\ revision' \in {revision, NoRevision} /\ refresh' \in {refresh, NoNote}
  BY DEF AbandonRevision, RefreshFails, serverTexts, revisions, agentNews
<1>2. NotesAreTheChapters'
  BY <1>1 DEF TextsAreTheChapters, NotesAreTheChapters
<1> QED
  BY <1>1, <1>2
     DEF TextsAreTheChapters, TextStaysInItsChapter, HistoryIsTheChapters, MountedLoad,
         AnswersAreTheChapters, SavesAreTheChapters, ScreenIsTheChapters, UndoIsTheChapters

-----------------------------------------------------------------------------
(* The invariant of the editor.                                            *)

LEMMA EditorInitInv ==
    ASSUME EditorInit
    PROVE  EditorInv
<1>1. EditorTyped
  BY EditorInitTyped
<1>2. /\ TextStaysInItsChapter /\ HistoryIsTheChapters
      /\ AnswersAreTheChapters /\ SavesAreTheChapters /\ NotesAreTheChapters
  BY DEF EditorInit, TextStaysInItsChapter, HistoryIsTheChapters, AnswersAreTheChapters,
         SavesAreTheChapters, NotesAreTheChapters
<1>3. PICK c \in Book :
         /\ editor = [selected |-> c, draft |-> onServer[c], saved |-> onServer[c],
                      loading |-> FALSE, timer |-> FALSE]
         /\ undo = [texts |-> editHistory[c], pending |-> NoManuscript,
                    snapshots |-> editHistory[c], loading |-> FALSE]
  BY DEF EditorInit
<1>4. MountedLoad /\ ScreenIsTheChapters /\ UndoIsTheChapters
  BY <1>2, <1>3 DEF EditorInit, MountedLoad, ScreenIsTheChapters, UndoIsTheChapters,
                    TextStaysInItsChapter, HistoryIsTheChapters
<1> QED
  BY <1>1, <1>2, <1>4 DEF EditorInv, TextsAreTheChapters

\* What has lapsed stays so.
LEMMA LapsesStay ==
    ASSUME EditorTyped, EditorNext, lapses' = {}
    PROVE  lapses = {}
<1>1. \A lapse, happened : Lapsed(lapse, happened) = {} => lapses = {}
  BY DEF Lapsed
<1>2. CASE ChangeDraft \/ Reformat \/ RestoreText \/ SaveDraft \/ AutoSave
  BY <1>1, <1>2 DEF ChangeDraft, Reformat, RestoreText, SaveDraft, AutoSave, Commit
<1>3. CASE RememberTyped \/ HistoryReturns \/ ServerSaves \/ SaveReturns
  BY <1>3 DEF RememberTyped, HistoryReturns, ServerSaves, SaveReturns
<1>4. ASSUME NEW text \in Manuscript, BringBack(text)
      PROVE  lapses = {}
  BY <1>1, <1>4 DEF BringBack
<1>5. ASSUME NEW c \in Book, SelectChapter(c) \/ AgentStores(c) \/ HearOfChange(c)
      PROVE  lapses = {}
  BY <1>5 DEF SelectChapter, AgentStores, HearOfChange
<1>6. ASSUME NEW l \in DOMAIN loads, ServerLoads(l) \/ LoadReturns(l)
      PROVE  lapses = {}
  BY <1>1, <1>6 DEF ServerLoads, LoadReturns, ShowLoad
<1>7. CASE BeginRevision \/ ApplyRevision \/ AbandonRevision
  BY <1>1, <1>7 DEF BeginRevision, ApplyRevision, AbandonRevision
<1>8. CASE RefreshReturns \/ RefreshFails
  BY <1>1, <1>8 DEF RefreshReturns, RefreshFails
<1> QED
  BY <1>2, <1>3, <1>4, <1>5, <1>6, <1>7, <1>8 DEF EditorNext

LEMMA EditorNextInv ==
    ASSUME EditorInv, [EditorNext]_editorVars
    PROVE  EditorInv'
<1>1. EditorTyped /\ EditorTyped'
  BY EditorNextTyped DEF EditorInv
<1>2. CASE UNCHANGED editorVars
  BY <1>1, <1>2
     DEF editorVars, serverTexts, revisions, agentNews, EditorInv, TextsAreTheChapters,
         TextStaysInItsChapter, HistoryIsTheChapters, MountedLoad, AnswersAreTheChapters,
         SavesAreTheChapters, ScreenIsTheChapters, UndoIsTheChapters, NotesAreTheChapters
<1>3. CASE EditorNext
  <2> SUFFICES ASSUME lapses' = {} PROVE TextsAreTheChapters'
    BY <1>1 DEF EditorInv
  <2>1. EditorGoesOn
    BY <1>1, <1>3, LapsesStay DEF EditorInv, EditorGoesOn
  <2> QED
    BY <1>3, <2>1, ChangeDraftStep, ReformatStep, RestoreTextStep, BringBackStep,
       RememberTypedStep, HistoryReturnsStep, SaveDraftStep, SelectChapterStep,
       ServerSavesStep, SaveReturnsStep, ServerLoadsStep, LoadReturnsStep,
       BeginRevisionStep, ApplyRevisionStep, AgentStoresStep, HearOfChangeStep,
       RefreshReturnsStep, GivingUpStep
       DEF EditorNext
<1> QED
  BY <1>2, <1>3

-----------------------------------------------------------------------------
(* Theorems.                                                               *)

\* The invariant: until something lapses, what the editor (App.jsx) shows, remembers
\* for undo, waits to apply or restore, loads and saves is the text of the chapter it
\* goes with.
THEOREM EditorInvariance == EditorSpec => []EditorInv
<1>1. EditorInv /\ [EditorNext]_editorVars => EditorInv'
  BY EditorNextInv
<1>2. EditorInit => EditorInv
  BY EditorInitInv
<1> QED
  BY <1>1, <1>2, PTL DEF EditorSpec

\* Until a selected chapter's text cannot be loaded, a button changes the text before
\* the chapter is loaded, or a revision is applied after another chapter was selected
\* (App.jsx), neither the text nor the history of one chapter gets a text of another:
\* not by a save, a timer, an overtaken load or refresh, an undo or a text restored.
THEOREM TextsAreTheirChapters == EditorSpec => []TextsStayUnlessLapsed
<1>1. EditorInv => TextsStayUnlessLapsed
  BY DEF EditorInv, TextsAreTheChapters, HistoryIsTheChapters, TextsStayUnlessLapsed
<1> QED
  BY <1>1, EditorInvariance, PTL
=============================================================================
