# rs_redbase: models, checks and proofs

TLA+ models of the storage engine and the query layer of `rs_redbase`, the runs
that TLC checks them with, and theorems about them that TLAPS has checked. Paths
are relative to the root of the repository, and the repository's crate is in
`src/`. `PROJECT.json` lists, for every definition, the lines it was translated
from.

Contents: [inventory](#1-inventory) ·
[modules](#2-modules) · [runs](#3-runs) · [disagreements found](#4-what-the-code-does-otherwise-than-it-says) ·
[proofs](#5-proofs) · [not modelled](#6-not-modelled) · [plan](#7-plan) ·
[how to run](#8-running)

## 1. Inventory

The program is a small relational database in one crate. It is a stack; every
layer owns the one below.

```
QueryEngine        src/query/mod.rs           requests, plans, statements
  Database, Table  src/table/mod.rs           catalogs, schemas, rows
    IndexCatalog   src/storage/index/mod.rs   catalog of indexes, .idx files
    RecordFile     src/storage/record/mod.rs  slots in pages, chain of pages with space
      BufferPool   src/storage/buffer/mod.rs  frames, pins, dirty marks, LRU list
        PageFile   src/storage/page/mod.rs    header, one-page buffer, free list
          a file
```

| component | state | operations | what is hard | what makes it correct |
|---|---|---|---|---|
| **PageFile** | file header (free list head, page count) with a dirty mark; one buffered page with a dirty mark; the file | create, open, allocate, read, write, dispose, flush, drop | one buffer for all pages; links threaded through the pages themselves; header and pages written separately; drop that ignores errors | an allocated page is nobody else's; a read returns the last write; a flushed page stays; open accepts what the program wrote |
| **BufferPool** | a map of page files, page table, frames (key, data, dirty, pins), LRU list, free list, behind one mutex; a RwLock per frame | register, get, get_mut, allocate, guard drop, force, flush_file, remove_file | threads share it; guards are used without the mutex; force waits for a frame's lock under the mutex; fails half way | pins are guards; a frame with a guard keeps its page; no frame is lost; clean means stored; calls that wait return |
| **LRU list** | prev and next per frame, head, tail | link_head, unlink, touch | four cases each | both directions agree |
| **RecordFile** | record header, cached and on page 0; data pages with bitmap, free count and link | create, open, insert, get, update, delete, scan, flush, drop | two page counts, persisted at different times; evictions write pages at any time; chain of pages with space | an abstract store of records; the chain is exact; flushed records stay readable |
| **Index files** | entries key → record id, in a text file per index; a catalog | create, rebuild, lookup, drop | `fs::write` truncates first; rebuilt, not maintained | an index has exactly the rows of its table |
| **Database** | catalog in memory and in `catalog.txt`; table files; the table that a write has open | open, create/drop table and index, insert, update_where, delete_where, rebuild | several files per statement and no transaction; errors and kills between them; two handles on one file | catalogs agree with files; rows a client was told of stay; a write that succeeds leaves the indexes right |
| **Table, rows, filters** | a schema compiled to offsets | encode, decode, insert, update_where, delete_where, rows_by_rids, filters compiled and matched on bytes | floats and padded texts compared as bytes; refusals that must not depend on the data | a row comes back as it was given; a filter means what its values say |
| **QueryEngine** | none of its own (owns the Database) | statements, select by scan or index, order, limit, projection | two access paths that must agree; validation separated from evaluation | answers are what a request means; refusals do not depend on data or path |

Interaction is by calls downwards; there are no callbacks, no background threads
and no messages. Memory is shared in one place, the pool (`Arc<Mutex<..>>` and a
`RwLock` per frame). A `RecordFile` makes a pool of its own when it is opened, so
that two tables never share one. The other way in which actors interact is
through the files: a process that is killed, and the next one that opens what is left.

Every hazard of this code that tests hardly reach is listed with its line, and
with the properties that cover it, under `hazards` in `PROJECT.json`.

## 2. Modules

Every concrete module has an abstract specification of what the layer promises,
or states the promise as invariants; the layer above is modelled on the promise
of the layer below, never on its code. That is the composition:

```
PageStore    <--implemented by--  PageFile      (file, header, one-page buffer)
PageCache    <--implemented by--  BufferPool    (on pages as PageStore shows them; uses LruList)
RecordStore  <--implemented by--  RecordFile    (on pages as PageCache and PageStore show them)
                                  RecordPage    (the bytes of such a page; RecordFile takes it decoded)
                                  Database      (on rows as RecordStore shows them)
QueryMeaning <--agrees with----   Query         (on the bytes of one table: Rows, which uses RecordPage)
```

`MCDatabase` and `MCQuery` instantiate for TLC; the modules named `...Proofs` hold the
theorems (see 5).

**PageFile.** One action is one call of the client, with every load, write-back
and header update that the call makes (`LoadAndSet` is `load_page` and what the
call then does to the buffer). `allocate_page` and `write_page` return a guard;
the client's write through it belongs to the action, as the guard borrows the
file. Links are integers with the casts of the code (`AsI32`, `AsU32`); the data of a page
are `DataSize` bytes, 4092 in the code. `disk_header`, `disk_len` and `disk_pages` are the
file as the operating system has it: it survives a kill of the process. Failures
are actions: `PageWriteFails`, `HeaderWriteFails`, `ReadFails`, `SetLenFails`,
`DropFails`, `Crash`. A write that stops early leaves the link and any number of data
bytes of the page (`HalfFlushed`), or the first field of the file header
(`HalfWrittenHeader`); a read that stops early leaves as much in the buffer. The four bytes
of a link or a counter are taken to be written together or not at all. The constant
`Faults` says which failures happen. `written` and `flushed` are history variables:
`flushed[p]` is what the page had when it was flushed and all that it was given since.

**BufferPool, LruList.** A pool call runs under the mutex and is one action, unless
it goes through the frames of a file: `force_file`, `flush_file` and `remove_file`
wait for the lock of each frame. Such a call is in the variable `call`
from `ForceFile`, `FlushFile` or `RemoveFile` on; `SeeFrame` is one frame, in the order of
the vector; `EndCall` returns, `CallFails` is a write-back
that fails at any of the frames. `MutexFree` keeps the others out for as long.
`BeginRead` … `EndWrite` are a thread that works on a page under the
RwLock, without the mutex. A failing page file ends the other calls where the code's `?`
stands: `FailAfterAcquire`, `FailInAcquire`. `LruList` is the doubly
linked list, field by field.

**RecordFile.** `pages` is what a call reads through the pool, `dirty` the pages
that the disk does not have, `WriteBack` an eviction at any time (it flushes the
page file too, and so persists the page count). `file_len` is the length of the file, which
`set_len` makes before the count is on disk; `CountDirty` says that the page file has still to write it. Insertion, with the page it may
allocate and the links and counts it changes, is one action, as is each other
call. `Return` is the caller taking the answer, so that equal answers of two
calls are two steps of the abstract store. The page and the page count are two writes
(`PageFile::flush`): an eviction (`EvictionFails`) or a flush (`FlushStops`) may fail at each of them, after any of
the pages (`StopsAfter`), and a kill, or a drop that cannot flush, may come at any of them (`Crash`). `SetLenFails` is an allocation that
fails after the page file has counted the page. `Open` runs the checks of the code and may reject.

**RecordPage.** A data page as the bytes on it: header, bitmap, slots, `read_slot`,
`write_slot`, `set_slot` and the counters, and `compute_slots_per_page`. `Decode` is
the record that `RecordFile` has in the place of these bytes. The page has
`PAGE_DATA_SIZE` bytes, 4092 in the code.

**Database.** A statement is a list of effects on the directory (`todo`), in the
order of the code, each one action: `CreatePageFile`, `SaveCatalog`,
`Rebuild`, … A write opens its table: `InsertRow` and `UpdateRows` change the rows
in `handle`, which is a pool of its own, and `CloseTable`, the end of the handle's
scope, brings them to the file; only then `Rebuild` opens the file again, with another
pool. An I/O error may end the statement before an effect or in the middle of it
(`IoError` with `Interrupted`: a catalog or an index file that is cut off anywhere, a
write whose pages are in the file in part, a `.tbl` file that was made and not yet given its headers), a kill may end the process there
(`Kill`, then `Load`, which is `Database::open` and may refuse). `WritesLost` is a table dropped with a
flush that failed and was not reported. A kill in a write, or a flush lost in a drop, may also leave page counts and pages
that do not fit (what `Crash` of RecordFile leaves): `damage` is how bad this is for the file: inserts may fail or
put rows where the file does not count them (`Hurt`, `Misplaced`), scans fail (`Unscannable`), or open does
(`Rejected`). It is chosen freely up to `WorstDamage`, and never gets better while the file is there. `made` are the rows that the
running write has closed its table with, `acked` those that a client was told of by the `Ok` of a write,
whether the file has them or not, and `lost` the tables of which a drop has lost changes. `faults`, chosen at the start
from `FaultSets`, says which failures a behaviour may have.

**Rows.** Schemas compiled to offsets; rows encoded and decoded; filters checked, compiled to
fields of a record and matched against its bytes: Int32 and Float32 as little-endian
words (`total_cmp` for floats), texts padded with zeros. A `LogicFilter`, or a
`CompoundPredicate` of a record file, is the sequence of its nodes, each behind its
children and the root last; `MatchingNodes` goes through them once. The code stops early at
`And` and `Or`, which changes nothing: a filter is validated before, and then no
comparison has an error.

**Query.** A request goes through the stages of the code: a select is checked, finds its
rows by a scan or through an index, orders, cuts and projects; an insert resolves its named
values, encodes and takes the first free slot; an update and a delete match, decode, change, encode and
store row by row. The state is the *bytes* of the table's page; `table` is a history variable with the rows as
they were given. `Requests` are any that the types of the code admit (`IsRequest`): names of
columns that are not there, values of any kind, lists of any length. `Projection::All`
is the list of all columns.

**QueryMeaning.** What the answers mean, said of `table` alone: no bytes, no steps, no
short cuts. A row satisfies a filter if its root is among the nodes that are true of it (`Satisfying`); the n-th
row of an answer is the one that has n - 1 before it (`Place`, `Earlier`). The properties of the run `query` compare the two.

Constants that the models keep abstract: contents of pages (PageFile, BufferPool), records
and slots per page (RecordFile), capacity of the pool.

## 3. Runs

| run | asks | instance |
|---|---|---|
| `page_file` | Is the page file, under any order of calls, failing writes and reopens, the abstract store with a stack of free pages? Is the free list exact, is a clean buffer what is on disk? | 3 pages of one byte, 2 values |
| `page_file_durability` | Does what a flush has written stay through every failure and kill, if no page is disposed? | 2 pages of two bytes, 2 values, all faults |
| `page_file_header` | Is the header on disk always one that open accepts? No, see 4. | 3 pages, kills |
| `pool_shared` | Pins, page table, frames and lists with two threads, failing files, and calls that go through the frames of a file step by step; do these calls return? | 2 threads, 2 frames, 2 files of 2 pages |
| `pool_cache` | Do threads see pages as if they worked on the files, whatever is evicted? | 2 threads, 2 frames, 3 pages, 2 contents |
| `pool_lost_write` | Is a clean frame always stored, if pages are forced while others write? No, see 4. | 2 threads, 2 frames |
| `record_file` | Is the record file the abstract store? Is the chain exact? Is the disk at any moment a file with every flushed record, that open accepts or the page file still has to write its count to? | 2 pages of 2 slots, evictions and flushes failing at any write |
| `record_crash` | Do flushed records stay in place through every failure, and kills at any point? | 2 pages of 1 slot, 2 values, all faults |
| `record_header` | Is the record header on disk always valid? No, see 4. | 2 pages of 2 slots, kills |
| `database` | Indexes, tables, catalogs and files, with every statement cut short anywhere, and tables dropped with a flush that failed | 1 table, 2 indexes, 2 rows, 2 keys; errors and kills, or lost flushes and kills |
| `database_duplicate` | Does an index answer like a scan after a refused `create_index`? No, see 4. | 1 table, 1 index |
| `query` | Are answers, refusals and the bytes afterwards those that the request means? | Int32, Int32, Float32, Char(2); up to 3 rows in a page of 75 bytes |

Why the bounds are enough to meet the interesting cases:

- *Bytes of a page.* Two, so that a page that is cut off has a byte of each content
  (`page_file_durability`, where two pages are enough: nothing is disposed, and one page is in the buffer while
  the other is not); one where nothing is cut off. The theorems are for any number.
- *Pages.* Three pages make a free list with an inner element, a page in the
  buffer, one written back and one that is not in the file yet. The sign bit is
  right behind the last page id in the runs, so that the markers lie next to the ids and a
  cast that is off by one collides; the theorems have it as a constant.
- *Pool.* Two frames and three pages force an eviction while one page is pinned,
  and "no frame available" when both are. Three frames would give the list an
  inner element, but too many states; the lemmas about `LruList` are for any number of
  frames. `MaxUses` bounds how often a guard locks its frame.
- *Records.* Pages of two slots are empty, half full and full, and two of them give every
  shape of chain. One value suffices there: which record is where is told by its
  identifier. Pages of one slot and two values (`record_crash`) tell an old
  record from an updated one. Theorems about both are for any number.
- *Database.* A statement touches one table; a second table would be a bystander
  and is only counted by the catalogs. Two indexes make an error between two
  rebuilds possible, two rows an `update_where` that fails at the second. Keys and row
  ids can be exchanged (`Symmetry` in `MCDatabase`); indexes can not, for their order
  decides which is rebuilt first. `FaultSets` keeps errors of statements and lost flushes in
  behaviours of their own, each together with kills: all three together are too many states at this size. The theorems
  are for any `FaultSets`.
- *Query.* Records of 14 bytes, six to a page of 75 bytes: the bitmap has a byte that is
  not full, and bytes are left over. The rows order every column differently, have
  negative numbers, -0.0 and 0.0, and texts that differ by a zero at the end. Filters
  are trees of depth two; lists of named values are up to one longer than the columns.
  `LayoutFits` computes layouts from pages with no slot at all to 56 slots, on both sides of
  a multiple of eight.

Deadlock is checked in `page_file`, `pool_*`, `record_file`, `database` and `database_duplicate`. The
other runs stop rightly: a file that open rejects has no next step, and
a request of `Query` ends.

**Fairness** is assumed in `BufferPool` alone, and only weakly: a call that goes through
the frames of a file goes on when it can (`SeeFrame`, `EndCall`), and a thread that has locked a frame
unlocks it (`EndRead`, `EndWrite`). The first is the
scheduling of a running thread, which has the mutex already; the second is the
lexical scope of the lock guard in the code that uses the page. It does *not* hold for code
that calls the pool while it holds the lock of a frame (see 6), which no code in the
crate does. The mutex is not assumed to be fair: `CallsReturn` says of calls that have
begun that they end, and nothing else is claimed to return. The
other modules are sequential, and state safety only.

**Mutants.** For each property of a passing run `PROJECT.json` has a plausible slip
of the code (a write-back that is forgotten, a chain that is linked too late, a
catalog that is not saved) with which TLC finds the property violated. They stand next to
the definition they replace, marked *Mutated form*; no specification uses them.

## 4. What the code does otherwise than it says

Four runs have the outcome *violation*; each is one trace of legal calls.

1. `page_file_header`. After a kill between the write-back of a reused page and
   the write of the header, the head of the free list on disk is a page in use.
   `allocate_page` (`src/src/storage/page/mod.rs:266`) takes its marker −2 for a
   link, hands the page out again, and flush writes a header that `validate`
   (140) calls corrupted. Only clients that dispose pages are exposed;
   `RecordFile` never does.
2. `pool_lost_write`. A frame is marked dirty when it is pinned
   (`src/src/storage/buffer/mod.rs:112`). A `force_file` of another thread between that
   and the write clears the mark; the write is lost when the frame is recycled.
3. `record_header`. `allocate_data_page` (`src/src/storage/record/mod.rs:977`)
   takes a page number from the page file and counts its own. After a kill
   between the eviction of a new page and the save of the header the two differ
   for good; the next insert returns an identifier that `get` refuses, and a flush
   writes a header that the next open rejects.
4. `database_duplicate`. `create_index` empties the index file before it looks
   whether the name is in use (`src/src/table/mod.rs:306`); refused, it leaves
   the existing index empty, and selects through it find nothing.

Met while modelling, part of the models and excluded from the properties by
name, as no document says otherwise:

- A read that fails after it has overwritten part of the buffer leaves the
  buffer named after the old page (page, 372), which is then taken for the
  content of that page. (`ReadFails`; `page_file` and theorem
  `CleanBufferOnDisk` are without failing reads for this reason.)
- `PageFile::flush` writes the page and then the page count. If it stops between the two at page 0, the disk has
  a record header that counts a page the page file does not, a file that open rejects. After an I/O error the page
  file knows that its count is not written, and every later write and the close write it first thing: `FlushedRecordsReadable` says exactly
  this. After a kill, or if the close fails too, the file stays rejected, although all flushed records are in it (`record_crash`;
  `FlushedRecordsReadable` is checked without kills).
- A kill between the header of a record file and a new data page leaves a page of zeros that the header counts: open accepts
  the file, and every scan of it fails (`Unscannable` in `Database`). In both cases acknowledged rows are in their place in the file and no
  statement leads to them: this is what `AcknowledgedRowsKept` says and does not say.
- `allocate_page` counts `num_pages` up before `set_len` can fail (page, 275). A later flush that succeeds then
  writes a header that counts a page beyond the end of the file, and open (237) calls the file corrupted. The pages that were
  flushed are in it (`FlushedPagesSurvive` holds through `SetLenFails`); `page_file` is without failing `set_len`.
- A table is dropped to bring its changes to the file, and the drop (record, 1113) ignores the error of the flush:
  `execute_insert` returns `Ok` with an identifier, and the row is lost (`WritesLost`). `AcknowledgedRowsKept` counts the row
  as acknowledged and exempts the tables in `lost`; without the exemption TLC finds it violated by one insert. That the
  indexes then have the rows that the file really has is part of `SuccessfulWritesRepairIndexes`.
- If `set_len` fails under a record file, the two page counts differ for good, as in 3. (`SetLenFails` in `RecordFile`; the chain
  and the refinement are checked without it.)
- `create_file` makes the page file before it checks the size of a record: the name cannot be used again
  (`RejectRecordSize`). An error or kill in `create_table` does the same. `CatalogsMatchFiles` says that such a file may be there, and that it is no table.
- An update with a text that is too long is refused only if a row matches: it is
  the encoding that refuses (`Query`; `RefusalDependsOnRequest` excludes it).
- Texts lose zeros at their end when they are read (`Shown` in `QueryMeaning`), and
  -0.0 and 0.0 are different Float32 values (`total_cmp`).
- An index file that is cut off may still be read: with fewer entries, or with the
  slot of the last one shortened to another number (`CutOff` in `Database`). The next write that succeeds repairs it.

## 5. Proofs

Eight modules, all theorems for every value of the constants that satisfies the
`ASSUME`s of the module they are about; the runs evaluate these. Each invariant was checked by TLC before it was proved.

**Page file** (`PageFileProofs`). Assumed: `BoundAssumption`, that there are
fewer pages than 2^31 (a larger file would wrap links), and `DataAssumption`, that
pages have at least one byte and contents are not the "no answer" value.

- `TypeCorrect`: `TypeOK`, with all faults, is inductive by itself. The
  one step that is not by inspection is `AllocateReuse`: the head of the free
  list is only known to be a link, which might be a marker, and the proof needs
  that a marker cast to `u32` fails the range check of `load_page`
  (`LinksAreIds`).
- `CleanBufferOnDisk`: `CleanIsOnDisk` if `"read"` and `"setlen"`
  are not in `Faults`. Inductive with `TypeOK`. Without the assumption it is false: see 4.
- `FreeListComplete` and `FileIsPageStore`: `FreeListThreaded` and `ImplementsPageStore` if only writes fail
  (`Faults \subseteq {"write"}`). `ThreadedInv` adds to the two invariants above that the header counts no page beyond
  the end of the file. The free list of the abstract store is a `CHOOSE`, so the
  argument rests on `ChainUnique`, that a walk along the links finds one list only; `PushedOnList` and
  `PoppedOffList` say what a dispose and an allocation do to it, and `LoadedAfter` that loading a
  page changes no other page wherever it is held.
- `FlushedPagesStay`: `FlushedPagesSurvive`, with *all* faults, for a client
  that disposes no page. Alone it is not inductive: it speaks
  of the disk, and the next write-back brings memory there. `DurabilityInv`
  adds that the free list is empty in both headers (`NoFreePages`), that what was last written
  is in the dirty buffer or on disk and counted (`WrittenKept`), that what is in the client's hand is among what
  may be on disk, byte by byte (`FlushedWritten`: a write that stops early, and an open after it, mix old and new bytes), and that the header on disk never counts more pages
  than memory, so that the `set_len` of an allocation cuts off no flushed page (`HeaderAhead`).

**LRU list** (`BufferPoolProofs`, its first part). Assumed: there is a frame. `link_head`, `unlink` and `touch` do to the *order* of the
list what they should, for lists of any length, inner elements included, and
the fields determine the order (`OrderIsUnique`).

**Buffer pool** (`BufferPoolProofs`, `PageCacheProofs`). Assumed: `PoolAssumption`, in it that threads
are finitely many, as pins are counted.

- `PoolInv`, with everything that may fail and any number of threads and frames: the five
  invariants of the run `pool_shared`, and what they need: empty frames on the free list (a frame
  is pushed there once), pages of a file without gaps (`allocate_page` gives the next one), locks only by threads with a guard, and `CallKnowsFrames`, that the frames a
  call has still to see are frames of its file, unpinned if it evicts. The last is why
  a call may go through frames one by one while threads with guards work on.
- `CacheInv`, if no thread forces what others have pinned for writing (see 4): `CleanIsStored`, with
  that frames pinned for writing are dirty and that no call has one before it.
- `PoolIsPageCache`: under the same condition every step of the pool is a step of
  `PageCache` or one that no thread notices. This is a theorem `Spec => Cache!Spec`.

**Recursion.** Functions that recurse over numbers (`f[n \in 0 .. k] == IF n = 0 THEN ... ELSE ... f[n - 1] ...`)
are the only recursion of the models. `RecursionDefines` and `StepsWithin` say that there is such a function and that it is the one that
takes the steps, `StaysWithin` is induction along them. They are stated of sets and functions, so that the provers can
use them with any.

**Record page** (`RecordPageProofs`). Assumed: the size of a page is an i32. The number of slots fits and no
larger one does; slots, bitmap and header are apart; and the bytes written by insert,
update and delete decode to exactly the change of `RecordFile`, whatever the layout.

**Record file** (`RecordFileProofs`). Assumed: at least one page and slot; the free mark is no record.

- `FileInv`, with all faults: `TypeOK`; `PagesOK`, every page counts its free slots
  and is marked full if it has none, in memory and on disk; flushed records are in place on disk; and while the file
  is open `MemoryInv`: the header counts no page that is not there, clean pages
  are on disk, and flushed records are in place in memory too, which is what keeps an eviction
  from overwriting them.
- `HealthyInv`, without kills and failing `set_len` (`Faults \subseteq {"write"}`): the chain from the header is exactly the pages with space, each once
  (`ChainInv`, with the order of the chain as the witness), and the header in memory, in the pool and on disk is valid at each station and
  never counts less than at the next (`HeaderInv`). `ChainIsExact` and `FlushedStayReadable` follow: the header on disk counts at most
  the pages of the file, so that it can only be ahead of the page count on disk while the page file has that still to write (`CountDirty`).
- `FileIsRecordStore`, under the same condition: the record file implements `RecordStore`. The
  argument is `RecordsCounted`: a record is readable if and only if the header counts its page and its slot is
  used, which needs all of `HealthyInv`. So an insert into a new page brings one record to light
  and no others (`InsertStores`), and what a close and an open do to clean pages shows no
  difference (`OthersKeep`). What a scan answers is a recursive function of the cursor (`Returned`); that it is one at all is
  `RecursionDefines` of the module `Recursion`, and that its value has every used slot once and in order
  (`ReturnedListing`) an induction along the cursor. `RecordStore` says the same by counting, for each record, those before it, and `OrderCounted` says
  that there is one such order only.

**Database** (`DatabaseProofs`). Assumed: `ContentAssumption` (indexes are finitely many; the values that stand for no file and a
broken one are no contents).

- `DatabaseInv`, with errors and kills in every effect: `TypeOK`, `AcknowledgedRowsKept`, `SuccessfulWritesRepairIndexes` and
  `StatementInv`, which says what
  a statement still owes: a create owns a file without rows that anybody relies on
  (`Creating`); a write, before its table is closed, has a rebuild in `todo` for every index of the table
  (`Changing`, `Closing`), and behind that for every index that does not have the rows of the file yet
  (`Rebuilding`); an open table has every row that the client relies on. `RowsMixed` is the argument about a flush that
  stops half way: a row that is both in the old and the new rows is in any mixture of the two. What damage does to later writes
  (`MisplacedKeeps`) costs no row that was there. What is owed to a client is `Relied`: nothing of a
  table of which a drop has lost changes (see 4), everything of the others. `WritesRepair` needs no such exception.
- `OrderlyInv`, if no client creates an index under a used name (`~DuplicateCreates`; see 4 for what happens otherwise):
  `IndexesMatchTables`, `CatalogsMatchFiles` and `SelectMatchesScan`, which speak of the time in which no statement was cut
  short. They say something of the moments between two statements only; `Orderly` has one definition for every
  kind of statement that is under way, of what is then still to be saved (`SavesCatalogs`), to be removed (`DropsTable`, with `RestOfDrop`: every
  index that is left comes before the table file, once; `DropsIndex`) or to be filled (`FillsIndex`, `WritesRows`). In none of them
  does an effect that is refused (a file in the way of a table, a record that is too large) leave more behind than a page file that is no
  table, and the last effect leads to rest. `TablesThere` has no damage in any file: only kills and lost flushes make some.

**Query engine** (`QueryProofs`). Assumed: the size of a page is an i32; `SchemaAssumption` (a schema is a list of
Int32, Float32 and Char columns, none empty); `TableAssumption` (a record fits the page, and the rows of a table are some
that can be encoded and no more than slots); `RequestAssumption` (requests have the
types of the code). Nothing is assumed of columns, rows, filters, keys and lists besides; all six invariants of the run `query`
are theorems.

- `RowsReadBack`: columns do not overlap and divide the record (`EndsAscend`, `ColumnsApart`), so a
  row that is encoded is decoded up to zeros at the end of texts (`ShownRowEncoded`).
- `RefusalIsOfTheRequest`, and `LayoutsFit`, which is `ColumnsDivideRecord` together with what the theorems
  about record pages say of slots and bits.
- `ScansMean`, and the filters: what the code compares is bytes, what is meant is values. `CompareMeans` says that the two agree for
  numbers, floats by sign and magnitude, and texts of any two lengths; `OneTruth`, that there is one set of true nodes of a filter, and
  `FilterMeans`, that it is the set that the code finds.
- `WritesAreAsNamed` and `ListsAreResolved`: the page is filled, updated and emptied slot by slot, and each of these recursions keeps
  that the page holds the rows it should, its bitmap and its counts (`PageHolds`; `PageTakesRecord`, `PageChangesRecord` and
  `PageLosesRecord` are its steps). An update stops at the first row that cannot be encoded, before it wrote any.
- `SelectsAnswer`: the invariant is `SelectKnown`, which says for each stage what the rows in hand are: those that satisfy
  the filter, in the order of the table, whether found by a scan or an index (`IndexFinds`); then by `Place`; then cut; then projected. That sorting
  by the code's comparison gives `Place` rests on `EarlierOrders` (keys, and the place in the table
  last, are a total order: a stable sort loses nothing) and on `InOrderAlone` (a list has one order only).

Only model-checked: `CallsReturn`, the liveness of the pool, which is out of the prover's reach. It is also the reason why fairness appears in no
theorem.

## 6. Not modelled

- Loss of power: the operating system's cache is taken to survive. `PageFile::flush`
  calls `sync_all` after its writes; the order of writes on the way matters only there.
- A write that stops inside the four bytes of a link or a counter. Of a data page all other cuts are modelled in `PageFile`; the
  layers above take pages to be on disk whole or not at all, so that nothing is said of records in a page that a write was cut off in.
- Panics and the poisoned locks they leave; allocation failures.
- A thread that calls the pool while it holds the lock of a frame: it can wait
  for a `force_file` that waits for it. No code in the crate does; the
  interface permits it.
- Two `RecordFile`s open on one file for writing, or two `Database`s on one directory. `open_table`
  hands out any number of handles, but no document says what a second writer may
  expect; the engine never has two. The one place where two handles on a file follow each other within a statement, a write and its
  rebuilds, is modelled.
- The text format of catalogs and index files, beyond what a file that is cut off is read as; names and paths; UTF-8.
- `scan_with` with a closure; `PageManager::destroy_file` and
  `RecordManager::destroy_file` as calls of their own (they remove a file, which is `RemoveTableFile` in `Database`).
- `show_tables`, `describe_table` and the like, which only read; the demo, and anything that formats or prints.

## 7. Plan

Built in this order: PageStore and PageFile; LruList, PageCache,
BufferPool; RecordStore and RecordFile; Database; Query; RecordPage, Rows and QueryMeaning, with
Query on bytes; handles and cut-off files in Database; and the proofs, from the page file up to the query engine.

Left:

1. Two handles on one file, once there is a document that says what they should do.

## 8. Running

In this directory, with the TLA+ tools, the community modules and TLAPS:

```
tlc -workers 2 -config RecordFile.cfg RecordFile.tla     # any run: see "runs" in PROJECT.json
tlc -workers 2 -config Database.cfg MCDatabase.tla       # two runs have a module of their own
tlc -workers 2 -config Query.cfg MCQuery.tla
tlapm DatabaseProofs.tla                                 # any module with proofs
```

A run takes seconds to two minutes on two cores, the proof of a module up to ten minutes.
