------------------------------ MODULE Database -------------------------------
(***************************************************************************)
(* The database of src/table/mod.rs with its indexes (src/storage/index)   *)
(* as the query engine (src/query/mod.rs) drives it.  A statement is a     *)
(* list of effects on the files of the database directory, carried out one *)
(* by one; an I/O error ends the statement between or in two effects, a    *)
(* kill ends the process there, and the catalogs are loaded again.         *)
(*                                                                         *)
(* A table file is what RecordStore promises: rows under identifiers.  A   *)
(* row is its value in the one Int32 column that the indexes are on.  A    *)
(* write works on a table that it opens, whose changes are in a buffer     *)
(* pool of its own and reach the file when the table is dropped; every     *)
(* rebuild of an index opens the file again, with another pool.            *)
(*                                                                         *)
(* A write that a kill stops half way may leave the two page counts of the *)
(* file, or a page and the counts, in disagreement (RecordFile.Crash): the *)
(* rows that were there before stay in their place                         *)
(* (RecordFile.FlushedRecordsOnDisk), but an insert, a scan or even open   *)
(* may fail from then on.  The damage of a table file is the worst of      *)
(* these.                                                                  *)
(***************************************************************************)
EXTENDS Integers, Sequences, FiniteSets, SequencesExt

CONSTANTS
  Tables,             \* names of tables
  Indexes,            \* names of indexes
  Rids, Keys, NoKey,  \* row identifiers; column values; no row there
  NoTable,            \* the table of an index that is not in the catalog
  Missing,            \* no such file
  NoHandle,           \* no table is open
  Broken,             \* a file that cannot be read: empty, or cut off somewhere
  FaultSets,          \* what may go wrong together: "io" errors that are returned,
                      \* errors of the flush in a "drop", which are not, "kill"
  DuplicateCreates    \* whether clients create an index under a used name

ASSUME NameAssumption ==
  /\ NoTable \notin Tables
  /\ NoKey \notin Keys
  /\ FaultSets \subseteq SUBSET {"io", "drop", "kill"}
  /\ DuplicateCreates \in BOOLEAN

\* What stands for no file, a broken file or no table is no content of a file.
ASSUME ContentAssumption ==
  /\ IsFiniteSet(Indexes)
  /\ Missing # Broken
  /\ \A rows \in [Rids -> Keys \cup {NoKey}] : rows \notin {Missing, Broken, NoHandle}
  /\ \A entries \in SUBSET (Keys \X Rids) : entries \notin {Missing, Broken}
  /\ \A names \in SUBSET Tables : names # Broken
  /\ \A catalog \in [Indexes -> Tables \cup {NoTable}] : catalog # Broken

VARIABLES
  faults,         \* what may go wrong in this behaviour
  open,           \* whether the database is open
  tables,         \* in memory: the Catalog
  indexes,        \*   the IndexCatalog, the table of every index,
  handle,         \*   and the rows of the table that a write has open
  disk_tables,    \* on disk: catalog.txt,
  disk_indexes,   \*   indexes.txt,
  table_file,     \*   the .tbl files
  damage,         \*   what is wrong with the pages of each,
  index_file,     \*   and the .idx files
  todo,           \* the effects that the running statement has left
  request,        \* <<call, table, key>>: the last statement
  answer,         \* <<status, rows>>: its answer
  disturbed,      \* history: a statement was cut short by an error or a kill
  made,           \* history: the rows that the running write has closed its table with
  acked,          \* history: the rows of every table that a client relies on
  lost            \* history: the tables of which a drop has lost changes unnoticed

memory == <<open, tables, indexes>>
catalogs == <<disk_tables, disk_indexes>>
files == <<table_file, damage, index_file>>
history == <<disturbed, made, acked, lost>>
vars == <<faults, memory, handle, catalogs, files, todo, request, answer, history>>

\* Nothing; an insert may fail, and what it does insert may get lost; a scan
\* fails; RecordFile::open refuses the file.
Whole == 0
Hurt == 1
Unscannable == 2
Rejected == 3
Damages == Whole .. Rejected

Readable(file) == file \notin {Missing, Broken}
Opens(t) == Readable(table_file[t]) /\ damage[t] < Rejected
Scans(t) == Readable(table_file[t]) /\ damage[t] < Unscannable

\* The rows of a table file, which a scan finds if it does not fail.
RowsOf(file) ==
  IF Readable(file) THEN {<<r, file[r]>> : r \in {s \in Rids : file[s] # NoKey}} ELSE {}

\* Mutated form: free slots are indexed too.
EntriesOfAllSlots(file) == {<<file[r], r>> : r \in Rids}

\* index_entries_for_int32_column.
EntriesOf(file) == {<<row[2], row[1]>> : row \in RowsOf(file)}

EmptyTable == [r \in Rids |-> NoKey]
NoIndexes == [i \in Indexes |-> NoTable]
IndexesOn(t) == {i \in Indexes : indexes[i] = t}

\* The effects <<kind, i>> for the indexes of the table, in the catalog's order.
ForIndexesOn(t, kind) ==
  LET order == SetToSeq(IndexesOn(t)) IN [n \in DOMAIN order |-> <<kind, order[n]>>]

Init ==
  /\ faults \in FaultSets
  /\ open = TRUE
  /\ tables = {}
  /\ indexes = NoIndexes
  /\ handle = NoHandle
  /\ disk_tables = {}
  /\ disk_indexes = NoIndexes
  /\ table_file = [t \in Tables |-> Missing]
  /\ damage = [t \in Tables |-> Whole]
  /\ index_file = [i \in Indexes |-> Missing]
  /\ todo = <<>>
  /\ request = <<"open", NoTable, NoKey>>
  /\ answer = <<"ok", {}>>
  /\ disturbed = FALSE
  /\ made = {}
  /\ acked = [t \in Tables |-> {}]
  /\ lost = {}

-----------------------------------------------------------------------------
(* Statements begin.                                                       *)

Idle == todo = <<>>

Begin(call, t, k, effects) ==
  /\ Idle
  /\ open
  /\ request' = <<call, t, k>>
  /\ todo' = effects
  /\ answer' = <<"running", {}>>
  /\ UNCHANGED <<faults, handle, catalogs, files, disturbed, made>>

\* create_table.  The page file is made before the size of a record is checked;
\* fits says whether the check succeeds.
CreateTable(t, fits) ==
  /\ t \notin tables
  /\ Begin("create_table", t, NoKey,
       <<<<"create_page_file", t>>>>
         \o IF fits THEN <<<<"create_record_file", t>>, <<"save_catalog", t>>>>
                    ELSE <<<<"reject_record_size", t>>>>)
  /\ UNCHANGED <<memory, acked, lost>>

\* Mutated form: indexes.txt is not saved.
DropTableEffectsNoIndexSave(t) ==
  ForIndexesOn(t, "drop_index_file") \o <<<<"remove_table_file", t>>, <<"save_catalog", t>>>>

DropTableEffects(t) ==
  ForIndexesOn(t, "drop_index_file")
    \o <<<<"remove_table_file", t>>, <<"save_catalog", t>>, <<"save_indexes", t>>>>

DropTable(t) ==
  /\ t \in tables
  /\ Begin("drop_table", t, NoKey, DropTableEffects(t))
  /\ acked' = [acked EXCEPT ![t] = {}]
  /\ lost' = lost \ {t}
  /\ UNCHANGED memory

\* create_index.  The file is written before the name is looked up.
CreateIndex(i, t) ==
  /\ t \in tables
  /\ indexes[i] # NoTable => DuplicateCreates
  /\ Begin("create_index", t, NoKey,
       <<<<"create_index_file", i>>, <<"save_indexes", t>>, <<"rebuild", i>>>>)
  /\ UNCHANGED <<memory, acked, lost>>

\* drop_index: the catalog in memory forgets the index first.
DropIndex(i) ==
  /\ indexes[i] # NoTable
  /\ Begin("drop_index", indexes[i], NoKey,
       <<<<"delete_index_file", i>>, <<"save_indexes", indexes[i]>>>>)
  /\ indexes' = [indexes EXCEPT ![i] = NoTable]
  /\ UNCHANGED <<open, tables, acked, lost>>

\* Mutated form: only the first index of the table is rebuilt.
RebuildFirst(t) == SubSeq(ForIndexesOn(t, "rebuild"), 1, IF IndexesOn(t) = {} THEN 0 ELSE 1)

\* rebuild_indexes_for_table, which ends every write.
Rebuilds(t) == ForIndexesOn(t, "rebuild")

\* Mutated form: the table is dropped at the end of the statement.
WriteClosedLast(t, change) == <<change>> \o Rebuilds(t) \o <<<<"close_table", t>>>>

\* A write: the table is opened, changed and dropped, then indexed again.
WriteAndRebuild(t, change) == <<change, <<"close_table", t>>>> \o Rebuilds(t)

\* execute_insert, where the table has room (a bound of the model).
Insert(t, k) ==
  /\ t \in tables
  /\ Readable(table_file[t]) => \E r \in Rids : table_file[t][r] = NoKey
  /\ Begin("insert", t, k, WriteAndRebuild(t, <<"insert_row", t, k>>))
  /\ UNCHANGED <<memory, acked, lost>>

\* execute_update of the rows with key k.
Update(t, k, new) ==
  /\ t \in tables
  /\ Begin("update", t, k, WriteAndRebuild(t, <<"update_rows", t, k, new>>))
  /\ acked' = [acked EXCEPT ![t] = {row \in @ : row[2] # k}]
  /\ UNCHANGED <<memory, lost>>

\* execute_delete of the rows with key k.
Delete(t, k) ==
  /\ t \in tables
  /\ Begin("delete", t, k, WriteAndRebuild(t, <<"update_rows", t, k, NoKey>>))
  /\ acked' = [acked EXCEPT ![t] = {row \in @ : row[2] # k}]
  /\ UNCHANGED <<memory, lost>>

-----------------------------------------------------------------------------
(* Effects.                                                                *)

Doing(kind) == todo # <<>> /\ Head(todo)[1] = kind
Subject == Head(todo)[2]

Writes == {"insert", "update", "delete"}

\* The statement goes on.  After its last effect it returns Ok, and the client
\* of a write relies on the rows that the write has made of the table.
Proceed(rows) ==
  /\ todo' = Tail(todo)
  /\ answer' = IF Len(todo) = 1 THEN <<"ok", {}>> ELSE answer
  /\ made' = IF Len(todo) = 1 THEN {} ELSE rows
  /\ acked' = IF Len(todo) = 1 /\ request[1] \in Writes
                THEN [acked EXCEPT ![request[2]] = rows] ELSE acked

\* The effect succeeds.
Advance == Proceed(made) /\ UNCHANGED <<faults, request, disturbed, lost>>

\* The statement returns an error of its own.
Abort ==
  /\ todo' = <<>>
  /\ answer' = <<"error", {}>>
  /\ made' = {}
  /\ UNCHANGED <<faults, request, disturbed, acked, lost>>

\* Mutated form: an existing file is truncated.
CreatePageFileTruncates ==
  /\ Doing("create_page_file")
  /\ Advance
  /\ table_file' = [table_file EXCEPT ![Subject] = Broken]
  /\ UNCHANGED <<memory, handle, catalogs, damage, index_file>>

\* PageManager::create_file refuses an existing file.  A page file without the
\* record header in page 0 is no record file.
CreatePageFile ==
  /\ Doing("create_page_file")
  /\ IF table_file[Subject] = Missing
       THEN /\ table_file' = [table_file EXCEPT ![Subject] = Broken]
            /\ Advance
       ELSE /\ UNCHANGED table_file
            /\ Abort
  /\ UNCHANGED <<memory, handle, catalogs, damage, index_file>>

\* RecordFile::create refuses the size of the record.
RejectRecordSize ==
  /\ Doing("reject_record_size")
  /\ Abort
  /\ UNCHANGED <<memory, handle, catalogs, files>>

CreateRecordFile ==
  /\ Doing("create_record_file")
  /\ table_file' = [table_file EXCEPT ![Subject] = EmptyTable]
  /\ tables' = tables \cup {Subject}
  /\ Advance
  /\ UNCHANGED <<open, indexes, handle, catalogs, damage, index_file>>

SaveCatalog ==
  /\ Doing("save_catalog")
  /\ disk_tables' = tables
  /\ Advance
  /\ UNCHANGED <<memory, handle, disk_indexes, files>>

SaveIndexes ==
  /\ Doing("save_indexes")
  /\ disk_indexes' = indexes
  /\ Advance
  /\ UNCHANGED <<memory, handle, disk_tables, files>>

\* delete_index_file fails if there is none.  In drop_table the catalog forgets
\* the index after that, in drop_index it has forgotten it already.
DeleteIndexFile ==
  /\ Doing("drop_index_file") \/ Doing("delete_index_file")
  /\ IF index_file[Subject] = Missing
       THEN /\ UNCHANGED <<indexes, index_file>>
            /\ Abort
       ELSE /\ index_file' = [index_file EXCEPT ![Subject] = Missing]
            /\ indexes' = [indexes EXCEPT ![Subject] = NoTable]
            /\ Advance
  /\ UNCHANGED <<open, tables, handle, catalogs, table_file, damage>>

RemoveTableFile ==
  /\ Doing("remove_table_file")
  /\ IF table_file[Subject] = Missing
       THEN /\ UNCHANGED <<tables, table_file, damage>>
            /\ Abort
       ELSE /\ table_file' = [table_file EXCEPT ![Subject] = Missing]
            /\ damage' = [damage EXCEPT ![Subject] = Whole]
            /\ tables' = tables \ {Subject}
            /\ Advance
  /\ UNCHANGED <<open, indexes, handle, catalogs, index_file>>

\* create_index_file, then insert, which refuses a name in use.
CreateIndexFile ==
  /\ Doing("create_index_file")
  /\ index_file' = [index_file EXCEPT ![Subject] = {}]
  /\ IF indexes[Subject] = NoTable
       THEN /\ indexes' = [indexes EXCEPT ![Subject] = request[2]]
            /\ Advance
       ELSE /\ UNCHANGED indexes
            /\ Abort
  /\ UNCHANGED <<open, tables, handle, catalogs, table_file, damage>>

\* rebuild_index: the table is scanned, the index file read for its header and
\* written again.
Rebuild ==
  LET t == indexes[Subject] IN
  /\ Doing("rebuild")
  /\ UNCHANGED <<memory, handle, catalogs, table_file, damage>>
  /\ IF t \in tables /\ Scans(t) /\ Readable(index_file[Subject])
       THEN /\ index_file' = [index_file EXCEPT ![Subject] = EntriesOf(table_file[t])]
            /\ Advance
       ELSE /\ UNCHANGED index_file
            /\ Abort

\* Table::insert on a newly opened table.
InsertRow ==
  /\ Doing("insert_row")
  /\ \/ /\ Opens(Subject)
        /\ \E r \in Rids :
             /\ table_file[Subject][r] = NoKey
             /\ handle' = [table_file[Subject] EXCEPT ![r] = Head(todo)[3]]
        /\ Advance
     \/ /\ Opens(Subject) => damage[Subject] # Whole
        /\ UNCHANGED handle
        /\ Abort
  /\ UNCHANGED <<memory, catalogs, files>>

\* The rows after an update_where, or a delete_where (the new value is then NoKey),
\* that got as far as the rows in S.
Updated(S) ==
  [r \in Rids |-> IF r \in S /\ table_file[Subject][r] = Head(todo)[3]
                    THEN Head(todo)[4] ELSE table_file[Subject][r]]

\* The rows to change are collected by a scan, before any of them is changed.
UpdateRows ==
  /\ Doing("update_rows")
  /\ IF Scans(Subject)
       THEN /\ handle' = Updated(Rids)
            /\ Advance
       ELSE /\ UNCHANGED handle
            /\ Abort
  /\ UNCHANGED <<memory, catalogs, files>>

\* An insert into a table with a damaged file may take a page that the file does
\* not count, or make the file count a page that an earlier insert has left: rows
\* come and go, but none that was in the file before.
Misplaced ==
  /\ \E rows \in [Rids -> Keys \cup {NoKey}] :
       /\ \A r \in Rids : table_file[Subject][r] # NoKey => rows[r] = table_file[Subject][r]
       /\ table_file' = [table_file EXCEPT ![Subject] = rows]
  /\ \E d \in damage[Subject] .. Rejected : damage' = [damage EXCEPT ![Subject] = d]

IntoDamaged == request[1] = "insert" /\ damage[Subject] # Whole

\* What the client may rely on when it is told of the write: nothing new, if the
\* row may be in a page that the file does not count.
RowsMade == IF IntoDamaged THEN acked[Subject] ELSE RowsOf(handle)

\* drop(table): the changes reach the file.
CloseTable ==
  /\ Doing("close_table")
  /\ IF IntoDamaged
       THEN Misplaced
       ELSE /\ table_file' = [table_file EXCEPT ![Subject] = handle]
            /\ UNCHANGED damage
  /\ handle' = NoHandle
  /\ Proceed(RowsMade)
  /\ UNCHANGED <<faults, memory, catalogs, index_file, request, disturbed, lost>>

-----------------------------------------------------------------------------
(* execute_select with a filter `column = k'.                              *)

\* Mutated form: the entries outside the range.
LookupFrom(i, k) == {e[2] : e \in {f \in index_file[i] : f[1] # k}}

\* lookup_eq.
LookupEq(i, k) == {e[2] : e \in {f \in index_file[i] : f[1] = k}}

Select(t, k, rows) ==
  /\ Idle
  /\ open
  /\ t \in tables
  /\ request' = <<"select", t, k>>
  /\ answer' = rows
  /\ UNCHANGED <<faults, memory, handle, catalogs, files, todo, history>>

\* The first index on the column answers, in the order of their names, which
\* mean nothing here.
IndexFor(t) == SetToSeq(IndexesOn(t))[1]

\* The files can be read, and the index leads to no slot that is free.
Answerable(t, k) ==
  IF IndexesOn(t) = {}
    THEN Scans(t)
    ELSE /\ Opens(t)
         /\ Readable(index_file[IndexFor(t)])
         /\ \A r \in LookupEq(IndexFor(t), k) : table_file[t][r] # NoKey

SelectByScan(t, k) ==
  /\ IndexesOn(t) = {}
  /\ Answerable(t, k)
  /\ Select(t, k, <<"rows", {row \in RowsOf(table_file[t]) : row[2] = k}>>)

\* The rows that the index leads to are not compared with k again.
SelectByIndex(t, k) ==
  /\ IndexesOn(t) # {}
  /\ Answerable(t, k)
  /\ Select(t, k, <<"rows", {<<r, table_file[t][r]>> : r \in LookupEq(IndexFor(t), k)}>>)

SelectFails(t, k) ==
  /\ ~Answerable(t, k)
  /\ Select(t, k, <<"error", {}>>)

-----------------------------------------------------------------------------
(* What cuts a statement short.                                            *)

\* Only an insert makes the file grow, and so can leave page counts that do not
\* fit; an update or delete can leave the chain of pages with space wrong.
WorstDamage == IF request[1] = "insert" THEN Rejected ELSE Hurt

\* Only some of the changed rows get to the file: in pages that the pool has
\* evicted, or in those that a flush has written before it stopped.
PartlyWritten(rows) ==
  /\ \E S \in SUBSET Rids :
       table_file' = [table_file EXCEPT
                        ![Subject] = [r \in Rids |-> IF r \in S THEN rows[r] ELSE @[r]]]
  /\ \E d \in damage[Subject] .. WorstDamage : damage' = [damage EXCEPT ![Subject] = d]

\* What a write leaves in the file of its table if it does not get to its end.
\* An insert that fails may have allocated a page.
TableLeft ==
  IF Doing("close_table") THEN PartlyWritten(handle)
  ELSE IF Doing("update_rows") /\ Scans(Subject) THEN PartlyWritten(Updated(Rids))
  ELSE IF Doing("insert_row") /\ Opens(Subject) THEN PartlyWritten(table_file[Subject])
  ELSE UNCHANGED <<table_file, damage>>

\* create_new has made the file before the header of the page file is written, and
\* the page file is there before the header of the record file is.
TableFileLeft ==
  IF Doing("create_page_file") \/ Doing("create_record_file")
    THEN /\ UNCHANGED damage
         /\ \/ UNCHANGED table_file
            \/ /\ Doing("create_page_file") => table_file[Subject] = Missing
               /\ table_file' = [table_file EXCEPT ![Subject] =
                                  IF Doing("create_page_file") THEN Broken ELSE EmptyTable]
    ELSE TableLeft

\* What an index file that is cut off can be read as: a part of the entries, the
\* last of them perhaps with fewer digits in its slot.
CutOff(entries) ==
  (SUBSET entries) \cup
    {(S \ {e}) \cup {<<e[1], r>>} : S \in SUBSET entries, e \in entries, r \in Rids}

\* What the effect leaves on disk if it does not get to its end: fs::write
\* empties the file before it writes it.  An empty catalog is one without
\* entries; one that is cut off in an entry is rejected, behind one it is shorter.
Interrupted ==
  /\ disk_tables' \in {disk_tables} \cup
       (IF Doing("save_catalog") THEN (SUBSET tables) \cup {Broken} ELSE {})
  /\ disk_indexes' \in {disk_indexes} \cup
       (IF Doing("save_indexes")
          THEN {[i \in Indexes |-> IF i \in S THEN indexes[i] ELSE NoTable] : S \in SUBSET Indexes}
                 \cup {Broken}
          ELSE {})
  /\ index_file' \in {index_file} \cup
       {[index_file EXCEPT ![Subject] = file] : file \in
          IF Doing("create_index_file") THEN {Broken}
          ELSE IF Doing("rebuild") /\ indexes[Subject] \in tables
                    /\ Readable(index_file[Subject]) /\ Scans(indexes[Subject])
            THEN {Broken} \cup CutOff(EntriesOf(table_file[indexes[Subject]]))
          ELSE {}}
  /\ TableFileLeft

\* The statement returns an error, and drops the table that it has open, which
\* writes its header and pages.  A drop itself returns no error.
IoError ==
  /\ "io" \in faults
  /\ ~Idle
  /\ ~Doing("close_table")
  /\ Interrupted
  /\ "drop" \notin faults => damage' = damage
  /\ todo' = <<>>
  /\ handle' = NoHandle
  /\ answer' = <<"error", {}>>
  /\ disturbed' = TRUE
  /\ made' = {}
  /\ UNCHANGED <<faults, memory, request, acked, lost>>

\* The flush in the drop of the table fails, of which nobody hears: the statement
\* goes on without the row, or with some of the changes, and returns Ok.
WritesLost ==
  /\ "drop" \in faults
  /\ Doing("close_table")
  /\ PartlyWritten(handle)
  /\ handle' = NoHandle
  /\ Proceed(RowsMade)
  /\ disturbed' = TRUE
  /\ lost' = lost \cup {Subject}
  /\ UNCHANGED <<faults, memory, catalogs, index_file, request>>

\* Database::open, which fails if a catalog cannot be read.
Load ==
  LET readable == disk_tables' # Broken /\ disk_indexes' # Broken IN
  /\ open' = readable
  /\ tables' = IF readable THEN disk_tables' ELSE {}
  /\ indexes' = IF readable THEN disk_indexes' ELSE NoIndexes
  /\ handle' = NoHandle
  /\ request' = <<"open", NoTable, NoKey>>
  /\ answer' = <<IF readable THEN "ok" ELSE "error", {}>>

Kill ==
  /\ "kill" \in faults
  /\ ~Idle
  /\ Interrupted
  /\ todo' = <<>>
  /\ disturbed' = TRUE
  /\ made' = {}
  /\ Load
  /\ UNCHANGED <<faults, acked, lost>>

\* Closed, or killed, between two statements, and opened again.
Reopen ==
  /\ Idle
  /\ UNCHANGED <<faults, catalogs, files, todo, history>>
  /\ Load

-----------------------------------------------------------------------------
Statement ==
  \/ \E t \in Tables :
       \/ \E fits \in BOOLEAN : CreateTable(t, fits)
       \/ DropTable(t)
       \/ \E i \in Indexes : CreateIndex(i, t)
       \/ \E k \in Keys :
            \/ Insert(t, k)
            \/ \E new \in Keys \ {k} : Update(t, k, new)
            \/ Delete(t, k)
            \/ SelectByScan(t, k)
            \/ SelectByIndex(t, k)
            \/ SelectFails(t, k)
  \/ \E i \in Indexes : DropIndex(i)

Effect ==
  \/ CreatePageFile
  \/ RejectRecordSize
  \/ CreateRecordFile
  \/ SaveCatalog
  \/ SaveIndexes
  \/ DeleteIndexFile
  \/ RemoveTableFile
  \/ CreateIndexFile
  \/ Rebuild
  \/ InsertRow
  \/ UpdateRows
  \/ CloseTable

Next == Statement \/ Effect \/ IoError \/ WritesLost \/ Kill \/ Reopen

Spec == Init /\ [][Next]_vars

-----------------------------------------------------------------------------
(* Type invariant. *)
TypeOK ==
  /\ open \in BOOLEAN
  /\ tables \subseteq Tables
  /\ indexes \in [Indexes -> Tables \cup {NoTable}]
  /\ disk_tables # Broken => disk_tables \subseteq Tables
  /\ disk_indexes # Broken => disk_indexes \in [Indexes -> Tables \cup {NoTable}]
  /\ handle # NoHandle => handle \in [Rids -> Keys \cup {NoKey}]
  /\ \A t \in Tables : Readable(table_file[t]) =>
       table_file[t] \in [Rids -> Keys \cup {NoKey}]
  /\ damage \in [Tables -> Damages]
  /\ \A i \in Indexes : Readable(index_file[i]) => index_file[i] \subseteq Keys \X Rids
  /\ request[2] \in Tables \cup {NoTable}
  /\ answer \in {"ok", "error", "running", "rows"} \X SUBSET (Rids \X Keys)
  /\ disturbed \in BOOLEAN
  /\ made \subseteq Rids \X Keys
  /\ acked \in [Tables -> SUBSET (Rids \X Keys)]
  /\ lost \subseteq Tables

(* Between two statements, as long as none was cut short, every index holds *)
(* exactly the rows of its table: the rebuilds after the writes, and the    *)
(* order of the effects of create_index and of the drops, leave no index    *)
(* behind the table (README: "write-path consistency maintained by index    *)
(* rebuild after writes").                                                  *)
IndexesMatchTables ==
  Idle /\ ~disturbed =>
    \A i \in Indexes : indexes[i] # NoTable =>
      index_file[i] = EntriesOf(table_file[indexes[i]])

(* Between two statements, as long as none was cut short, the catalogs on   *)
(* disk are those in memory; every table in them has a file that can be     *)
(* scanned, and no other table has one; every index has its table, and an   *)
(* index outside the catalog no file: a restart finds the database as it    *)
(* was left.  A name outside the catalog may have the page file without a   *)
(* record header that a create_table left which was refused for the size of *)
(* its record; that name can not be used again.                             *)
CatalogsMatchFiles ==
  Idle /\ ~disturbed =>
    /\ disk_tables = tables
    /\ disk_indexes = indexes
    /\ \A t \in Tables : IF t \in tables THEN Scans(t) ELSE table_file[t] \in {Missing, Broken}
    /\ \A i \in Indexes : IF indexes[i] = NoTable THEN index_file[i] = Missing
                                                  ELSE indexes[i] \in tables

(* A select that goes through an index returns the rows a scan would find,  *)
(* and a select does not fail, as long as no statement was cut short.       *)
SelectMatchesScan ==
  request[1] = "select" /\ ~disturbed =>
    answer = <<"rows", {row \in RowsOf(table_file[request[2]]) : row[2] = request[3]}>>

(* Whatever was cut short before, an insert, update or delete that returns  *)
(* Ok leaves every index of its table with exactly the rows of the table:   *)
(* a successful write repairs what an error or a kill left behind.          *)
SuccessfulWritesRepairIndexes ==
  Idle /\ request[1] \in Writes /\ answer[1] = "ok" =>
    \A i \in IndexesOn(request[2]) : index_file[i] = EntriesOf(table_file[request[2]])

(* The rows that a client was told of by the Ok of a write, and has not     *)
(* asked to change since, are in their place in the file of their table     *)
(* through every error, kill and restart, even those that empty the         *)
(* catalog: no statement writes over, truncates or removes what it should   *)
(* not, and no write is answered Ok before its rows are in the file.  A     *)
(* scan finds them there unless a kill in a later write, or a drop, has     *)
(* damaged the file so that it or open fails.  The exception is a table of  *)
(* which a drop has lost changes: the write was answered Ok all the same.   *)
AcknowledgedRowsKept ==
  \A t \in Tables \ lost : acked[t] \subseteq RowsOf(table_file[t])
=============================================================================
