----------------------------- MODULE RecordFile ------------------------------
(***************************************************************************)
(* A record file of src/storage/record/mod.rs on its own buffer pool.      *)
(* Page 0 holds the record header, the data pages hold slots of one record *)
(* each.  The pages that have free slots are chained: the header names the *)
(* first, each page the next, a full page is marked RECORD_PAGE_FULL.      *)
(*                                                                         *)
(* The pool is here what PageCache and PageStore promise: `pages' is what a *)
(* call reads, `dirty' the pages that the disk does not have yet, and any  *)
(* of them may be written back at any time.  A write-back is two writes,   *)
(* the page and then the page count of the page file, and may fail or be   *)
(* cut off at either.  A page is here written whole or not at all; what is *)
(* left of a page whose write stops in the middle is in PageFile.  A page   *)
(* that could not be written stays in the buffer of the page file and goes *)
(* out with the next write: here it is written at once or not at all.      *)
(***************************************************************************)
EXTENDS Integers, Sequences, FiniteSets, FiniteSetsExt, Functions

CONSTANTS
  MaxPages,        \* bound on the data pages
  SlotsPerPage,    \* what compute_slots_per_page returns
  Values,          \* the records
  NoRecord,        \* the content of a free slot
  Faults           \* what goes wrong: "write" errors, errors of "setlen",
                   \* "kill" of the process

ASSUME BoundAssumption == MaxPages \in Nat \ {0} /\ SlotsPerPage \in Nat \ {0}
ASSUME ValueAssumption == NoRecord \notin Values
ASSUME FaultAssumption == Faults \subseteq {"write", "setlen", "kill"}

VARIABLES
  status,          \* "open", or "rejected" by the checks of open
  header,          \* the RecordFileHeader in memory
  header_dirty,
  header_page,     \* the header in the pool's page 0
  pages,           \* the data pages as the pool holds them
  dirty,           \* the pages changed in the pool only
  total_pages,     \* the pages of the page file, in memory
  disk_header,     \* on disk: page 0,
  disk_pages,      \*   the data pages,
  disk_total,      \*   the page count of the page file,
  file_len,        \*   and the length of the file in pages
  out,             \* <<call, record identifier, answer>> until the caller has it
  flushed          \* history: what a flushed record may be on disk

memory == <<header, header_dirty, header_page, pages, dirty, total_pages>>
disk == <<disk_header, disk_pages, disk_total, file_len>>
vars == <<status, memory, disk, out, flushed>>

NoAnswer == <<"idle", <<>>, <<>>>>

HEADER_PAGE_ID == 0
RECORD_PAGE_LIST_END == -1
RECORD_PAGE_FULL == -2

DataPages == 1 .. MaxPages
Slots == 0 .. SlotsPerPage - 1
Rids == DataPages \X Slots

Links == DataPages \cup {RECORD_PAGE_LIST_END, RECORD_PAGE_FULL}
PageContents ==
  [next_free_page : Links \cup {0}, num_slots : {0, SlotsPerPage},
   num_free_slots : 0 .. SlotsPerPage, slot : [Slots -> Values \cup {NoRecord}]]
Headers == [first_free_page : DataPages \cup {RECORD_PAGE_LIST_END}, num_pages : 0 .. MaxPages]

\* A page filled with zeros, as the page file allocates it, and the page that
\* initialize_page makes of it.
ZeroPage ==
  [next_free_page |-> 0, num_slots |-> 0, num_free_slots |-> 0,
   slot |-> [s \in Slots |-> NoRecord]]
EmptyPage ==
  [next_free_page |-> RECORD_PAGE_LIST_END, num_slots |-> SlotsPerPage,
   num_free_slots |-> SlotsPerPage, slot |-> [s \in Slots |-> NoRecord]]

FreeSlots(page) == {s \in Slots : page.slot[s] = NoRecord}

\* RecordPageHeader::validate; the page is there to be read at all.
PageValid(p) == p < total_pages /\ pages[p].num_slots = SlotsPerPage

\* validate_rid, and ensure_slot_used on the page.
Readable(r) ==
  /\ r[1] <= header.num_pages
  /\ PageValid(r[1])
  /\ pages[r[1]].slot[r[2]] # NoRecord

-----------------------------------------------------------------------------
(* The checks of RecordFile::open, and a new RecordFile on the disk.       *)

HeaderValid(h) ==
  h.first_free_page # RECORD_PAGE_LIST_END => h.first_free_page <= h.num_pages

PagesExist(h, total) == h.num_pages + 1 <= total

\* PageFile::open has checked the page count against the length first.
Accepted(h, total, len) == total <= len /\ HeaderValid(h) /\ PagesExist(h, total)

\* A file that is longer than its page count is cut when it grows again.
Open ==
  /\ status' = IF Accepted(disk_header', disk_total', file_len) THEN "open" ELSE "rejected"
  /\ file_len' = IF disk_total' < file_len THEN disk_total' ELSE file_len
  /\ header' = disk_header'
  /\ header_dirty' = FALSE
  /\ header_page' = disk_header'
  /\ pages' = disk_pages'
  /\ dirty' = {}
  /\ total_pages' = disk_total'

\* RecordManager::create_file, and the file is opened.
Init ==
  /\ status = "open"
  /\ header = [first_free_page |-> RECORD_PAGE_LIST_END, num_pages |-> 0]
  /\ header_dirty = FALSE
  /\ header_page = header
  /\ pages = [p \in DataPages |-> ZeroPage]
  /\ dirty = {}
  /\ total_pages = 1
  /\ disk_header = header
  /\ disk_pages = pages
  /\ disk_total = 1
  /\ file_len = 1
  /\ out = NoAnswer
  /\ flushed = [r \in Rids |-> {}]

-----------------------------------------------------------------------------
(* The operations on records.                                              *)

\* The file is open and the caller has taken the answer of the last call.
IsOpen == status = "open" /\ out = NoAnswer

Answer(call, r, a) == out' = <<call, r, a>>

Return ==
  /\ out # NoAnswer
  /\ out' = NoAnswer
  /\ UNCHANGED <<status, memory, disk, flushed>>

\* A call that returns nothing, or an error that names no record.
Done(call) == Answer(call, <<>>, <<>>)

\* What an insert of v into the free slot s makes of its page.
Filled(page, s, v) ==
  [page EXCEPT !.slot[s] = v, !.num_free_slots = @ - 1,
    !.next_free_page = IF page.num_free_slots = 1 THEN RECORD_PAGE_FULL ELSE @]

\* Mutated form: the link is read after the page was marked full.
FirstAfterInsertTooLate(p, page) ==
  IF page.num_free_slots = 1 THEN RECORD_PAGE_FULL ELSE p

\* The first page of the chain after an insert into p, the first one so far.
FirstAfterInsert(p, page) ==
  IF page.num_free_slots = 1 THEN page.next_free_page ELSE p

\* insert: allocate_data_page, if the chain is empty, and then the first free
\* slot of the first page of the chain.
Insert(v) ==
  LET grow == header.first_free_page = RECORD_PAGE_LIST_END
      p == IF grow THEN total_pages ELSE header.first_free_page
      page == IF grow THEN EmptyPage ELSE pages[p]
      s == Min(FreeSlots(page))
  IN
  /\ IsOpen
  /\ IF grow THEN p <= MaxPages ELSE PageValid(p)
  /\ FreeSlots(page) # {}
  /\ pages' = [pages EXCEPT ![p] = Filled(page, s, v)]
  /\ header' = [first_free_page |-> FirstAfterInsert(p, page),
                num_pages |-> IF grow THEN header.num_pages + 1 ELSE header.num_pages]
  /\ header_dirty' = (header_dirty \/ grow \/ page.num_free_slots = 1)
  /\ dirty' = dirty \cup {p}
  /\ total_pages' = IF grow THEN total_pages + 1 ELSE total_pages
  /\ file_len' = IF grow THEN total_pages + 1 ELSE file_len
  /\ Answer("insert", <<p, s>>, <<>>)
  /\ UNCHANGED <<status, header_page, disk_header, disk_pages, disk_total, flushed>>

\* allocate_data_page fails in set_len: the page file has counted the page, the
\* record file has not, and the header of the page file is not marked dirty.
SetLenFails ==
  /\ "setlen" \in Faults
  /\ IsOpen
  /\ header.first_free_page = RECORD_PAGE_LIST_END
  /\ total_pages <= MaxPages
  /\ total_pages' = total_pages + 1
  /\ Done("error")
  /\ UNCHANGED <<status, header, header_dirty, header_page, pages, dirty, disk, flushed>>

\* get_page_mut marks a page dirty even if the call then fails and leaves it as
\* it was, unless the file ends before the page.
TouchedBy(p) == IF p < file_len THEN dirty \cup {p} ELSE dirty

\* insert when the chain leads to a page that is not in the file, was never
\* initialized, or is full.
InsertFails ==
  LET p == header.first_free_page IN
  /\ IsOpen
  /\ p # RECORD_PAGE_LIST_END
  /\ PageValid(p) => FreeSlots(pages[p]) = {}
  /\ dirty' = TouchedBy(p)
  /\ Done("error")
  /\ UNCHANGED <<status, header, header_dirty, header_page, pages, total_pages, disk, flushed>>

Get(r) ==
  /\ IsOpen
  /\ Readable(r)
  /\ Answer("get", r, pages[r[1]].slot[r[2]])
  /\ UNCHANGED <<status, memory, disk, flushed>>

\* get (the page stays clean), update or delete of a record that is not there.
Refuse(r) ==
  /\ IsOpen
  /\ ~Readable(r)
  /\ dirty' \in {dirty, IF r[1] <= header.num_pages THEN TouchedBy(r[1]) ELSE dirty}
  /\ Answer("refused", r, <<>>)
  /\ UNCHANGED <<status, header, header_dirty, header_page, pages, total_pages, disk, flushed>>

Update(r, v) ==
  /\ IsOpen
  /\ Readable(r)
  /\ pages' = [pages EXCEPT ![r[1]].slot[r[2]] = v]
  /\ dirty' = dirty \cup {r[1]}
  /\ flushed' = [flushed EXCEPT ![r] = IF @ = {} THEN {} ELSE @ \cup {v}]
  /\ Done("update")
  /\ UNCHANGED <<status, header, header_dirty, header_page, total_pages, disk>>

\* Mutated form: whether the page was full is asked after the slot is freed.
WasFullTooLate(page) == page.num_free_slots + 1 = 0

\* The page leaves no free slot before the delete.
WasFull(page) == page.num_free_slots = 0

\* delete: a page that was full becomes the first of the chain.
Delete(r) ==
  LET p == r[1]
      page == pages[p]
  IN
  /\ IsOpen
  /\ Readable(r)
  /\ pages' = [pages EXCEPT ![p] =
       [page EXCEPT !.slot[r[2]] = NoRecord, !.num_free_slots = @ + 1,
          !.next_free_page = IF WasFull(page) THEN header.first_free_page ELSE @]]
  /\ header' = IF WasFull(page) THEN [header EXCEPT !.first_free_page = p] ELSE header
  /\ header_dirty' = (header_dirty \/ WasFull(page))
  /\ dirty' = dirty \cup {p}
  /\ flushed' = [flushed EXCEPT ![r] = {}]
  /\ Done("delete")
  /\ UNCHANGED <<status, header_page, total_pages, disk>>

\* Mutated form: the cursor goes on to the next page one slot early.
CursorSkipsLastSlot ==
  [i \in 1 .. header.num_pages * (SlotsPerPage - 1) |->
     <<(i - 1) \div (SlotsPerPage - 1) + 1, (i - 1) % (SlotsPerPage - 1)>>]

\* The positions of the cursor of a scan, in order: advance_cursor.
Cursor == [i \in 1 .. header.num_pages * SlotsPerPage |->
             <<(i - 1) \div SlotsPerPage + 1, (i - 1) % SlotsPerPage>>]

\* What next_record has returned when the cursor has been at n positions: the
\* used slots among them, each with its record.
Returned[n \in Nat] ==
  IF n = 0 THEN <<>>
  ELSE LET r == Cursor[n] IN
       IF Readable(r) THEN Append(Returned[n - 1], <<r, pages[r[1]].slot[r[2]]>>)
                      ELSE Returned[n - 1]

\* scan, and next_record until it returns none or fails: an error at the first
\* page that cannot be read.
Scan ==
  /\ IsOpen
  /\ IF \A p \in 1 .. header.num_pages : PageValid(p)
       THEN Answer("scan", <<>>, Returned[Len(Cursor)])
       ELSE Done("error")
  /\ UNCHANGED <<status, memory, disk, flushed>>

-----------------------------------------------------------------------------
(* Writing back: evictions, flush, close, and what can go wrong.           *)

\* The page file has grown since its page count was written.
CountDirty == disk_total < file_len

\* The page count on disk when it is written, if it has to be.
Counted == IF CountDirty THEN total_pages ELSE disk_total

\* The pages of S are written, page 0 with the content h.
WriteOut(S, h) ==
  /\ disk_header' = IF HEADER_PAGE_ID \in S THEN h ELSE disk_header
  /\ disk_pages' = [p \in DataPages |-> IF p \in S THEN pages[p] ELSE disk_pages[p]]

\* The writing of pages stops on a failing write: those of done are written,
\* the page count with the first of them; the next page, if cut is not empty,
\* was written too, and the error was that of its page count or of the sync.
StopsAfter(done, cut, h) ==
  /\ Cardinality(cut) <= 1
  /\ WriteOut(done \cup cut, h)
  /\ disk_total' \in IF done # {} THEN {Counted}
                     ELSE IF cut # {} THEN {disk_total, Counted} ELSE {disk_total}

\* The pool evicts the page: flush_frame_if_dirty.
WriteBack(p) ==
  /\ IsOpen
  /\ p \in dirty
  /\ WriteOut({p}, header_page)
  /\ disk_total' = Counted
  /\ dirty' = dirty \ {p}
  /\ UNCHANGED <<status, header, header_dirty, header_page, pages, total_pages, file_len,
                 out, flushed>>

\* A call that has to evict a page fails in the writing of it; the page stays
\* dirty, written or not, and nothing of the call was done.
EvictionFails(p) ==
  /\ "write" \in Faults
  /\ IsOpen
  /\ p \in dirty
  /\ \E cut \in SUBSET {p} : StopsAfter({}, cut, header_page)
  /\ Done("error")
  /\ UNCHANGED <<status, memory, file_len, flushed>>

\* persist_header, without the dirty flags.
PersistedHeader == IF header_dirty THEN header ELSE header_page
PersistedDirty == IF header_dirty THEN dirty \cup {HEADER_PAGE_ID} ELSE dirty

\* Mutated form: flush forces the pool but does not persist the header.
FlushPagesOnly ==
  /\ IsOpen
  /\ WriteOut(dirty, header_page)
  /\ disk_total' = Counted
  /\ dirty' = {}
  /\ flushed' = [r \in Rids |-> IF Readable(r) THEN {pages[r[1]].slot[r[2]]} ELSE {}]
  /\ Done("flush")
  /\ UNCHANGED <<status, header, header_dirty, header_page, pages, total_pages, file_len>>

\* Mutated form: only the header page is forced.
FlushForcesHeaderPageOnly ==
  /\ IsOpen
  /\ header_page' = PersistedHeader
  /\ header_dirty' = FALSE
  /\ WriteOut({HEADER_PAGE_ID}, PersistedHeader)
  /\ disk_total' = Counted
  /\ dirty' = PersistedDirty \ {HEADER_PAGE_ID}
  /\ flushed' = [r \in Rids |-> IF Readable(r) THEN {pages[r[1]].slot[r[2]]} ELSE {}]
  /\ Done("flush")
  /\ UNCHANGED <<status, header, pages, total_pages, file_len>>

\* flush: persist_header, then force_file.
Flush ==
  /\ IsOpen
  /\ header_page' = PersistedHeader
  /\ header_dirty' = FALSE
  /\ WriteOut(PersistedDirty, PersistedHeader)
  /\ disk_total' = Counted
  /\ dirty' = {}
  /\ flushed' = [r \in Rids |-> IF Readable(r) THEN {pages[r[1]].slot[r[2]]} ELSE {}]
  /\ Done("flush")
  /\ UNCHANGED <<status, header, pages, total_pages, file_len>>

\* The file is dropped, which flushes it, and opened again.
Reopen ==
  /\ IsOpen
  /\ WriteOut(PersistedDirty, PersistedHeader)
  /\ disk_total' = Counted
  /\ Open
  /\ Done("open")
  /\ UNCHANGED flushed

\* flush has put the header into the pool, and force_file stops on a failing
\* write, after any of the pages; only the pages of done are clean.
FlushStops ==
  /\ "write" \in Faults
  /\ IsOpen
  /\ header_page' = PersistedHeader
  /\ header_dirty' = FALSE
  /\ \E done \in SUBSET PersistedDirty : \E cut \in SUBSET (PersistedDirty \ done) :
       /\ StopsAfter(done, cut, PersistedHeader)
       /\ dirty' = PersistedDirty \ done
  /\ Done("error")
  /\ UNCHANGED <<status, header, pages, total_pages, file_len, flushed>>

\* The process is killed, or the flush of a drop fails and nobody hears of it,
\* and the file is opened again.  An eviction or the flush had written some of
\* the pages, the last one perhaps without the page count.  A page beyond the
\* count is as good as zeros.
Crash ==
  /\ "kill" \in Faults
  /\ IsOpen
  /\ \E flushing \in BOOLEAN :
       LET S == IF flushing THEN PersistedDirty ELSE dirty
           h == IF flushing THEN PersistedHeader ELSE header_page
       IN \E done \in SUBSET S : \E cut \in SUBSET (S \ done) :
            /\ Cardinality(cut) <= 1
            /\ disk_header' = IF HEADER_PAGE_ID \in done \cup cut THEN h ELSE disk_header
            /\ disk_total' = IF done = {} THEN disk_total ELSE Counted
            /\ disk_pages' = [q \in DataPages |->
                 IF q >= disk_total' THEN ZeroPage
                 ELSE IF q \in done \cup cut THEN pages[q] ELSE disk_pages[q]]
  /\ Open
  /\ Done("open")
  /\ UNCHANGED flushed

-----------------------------------------------------------------------------
Next ==
  \/ \E v \in Values : Insert(v)
  \/ InsertFails
  \/ SetLenFails
  \/ \E r \in Rids : Get(r) \/ Refuse(r) \/ Delete(r) \/ \E v \in Values : Update(r, v)
  \/ Scan
  \/ \E p \in DataPages \cup {HEADER_PAGE_ID} : WriteBack(p) \/ EvictionFails(p)
  \/ Flush
  \/ Reopen
  \/ FlushStops
  \/ Return
  \/ Crash

Spec == Init /\ [][Next]_vars

-----------------------------------------------------------------------------
(* Type invariant. *)
TypeOK ==
  /\ status \in {"open", "rejected"}
  /\ {header, header_page, disk_header} \subseteq Headers
  /\ header_dirty \in BOOLEAN
  /\ pages \in [DataPages -> PageContents]
  /\ dirty \subseteq DataPages \cup {HEADER_PAGE_ID}
  /\ {total_pages, disk_total, file_len} \subseteq 1 .. MaxPages + 1
  /\ disk_pages \in [DataPages -> PageContents]
  /\ flushed \in [Rids -> SUBSET Values]

\* s is the chain of pages with free slots.
Chains(s) ==
  /\ header.first_free_page = IF s = <<>> THEN RECORD_PAGE_LIST_END ELSE s[1]
  /\ \A i \in 1 .. Len(s) :
       pages[s[i]].next_free_page =
         IF i = Len(s) THEN RECORD_PAGE_LIST_END ELSE s[i + 1]

Allocated == {p \in DataPages : p <= header.num_pages}
PagesWithSpace == {p \in Allocated : FreeSlots(pages[p]) # {}}

(* The chain leads through exactly the pages that have a free slot, each of *)
(* them once, the others are marked full, and the count of free slots of    *)
(* every page is the number of free bits of its bitmap: insert finds space  *)
(* wherever a delete left some, and never fails on the chain (the errors of *)
(* insert after find_first_free_slot).                                      *)
FreePagesChained ==
  /\ \E n \in 0 .. MaxPages : \E s \in Injection(1 .. n, PagesWithSpace) :
       Range(s) = PagesWithSpace /\ Chains(s)
  /\ \A p \in Allocated :
       /\ pages[p].num_free_slots = Cardinality(FreeSlots(pages[p]))
       /\ p \notin PagesWithSpace => pages[p].next_free_page = RECORD_PAGE_FULL

\* A record that was flushed is on disk, as it was or as it was updated since,
\* on a page that the header and the page count there count.
OnDisk(r) ==
  /\ r[1] <= disk_header.num_pages
  /\ r[1] < disk_total
  /\ disk_pages[r[1]].num_slots = SlotsPerPage
  /\ disk_pages[r[1]].slot[r[2]] \in flushed[r]

(* Records that were flushed and not deleted since stay in their place on   *)
(* disk through every eviction, later call, failed flush, kill and restart: *)
(* what a restart does to the header and the page count never makes insert  *)
(* or allocate_data_page take the place of a flushed record.                *)
FlushedRecordsOnDisk ==
  \A r \in Rids : flushed[r] # {} => OnDisk(r)

(* As long as the process is not killed, every drop can write and set_len   *)
(* does not fail: a file that was closed is accepted when it is opened      *)
(* again, whatever writes failed before the close.  The disk alone is a     *)
(* file that open accepts and in which get finds every flushed record, but  *)
(* for one case: the header may count a page more than the page count, and  *)
(* then the page file knows that its count is still to be written, so that  *)
(* the next write or the close makes up for it.                             *)
FlushedRecordsReadable ==
  /\ status = "open"
  /\ HeaderValid(disk_header)
  /\ PagesExist(disk_header, disk_total) \/ CountDirty
  /\ FlushedRecordsOnDisk

(* The header on disk passes the checks that RecordFileHeader::validate      *)
(* makes when the file is opened.                                           *)
DiskHeaderValid == HeaderValid(disk_header)

-----------------------------------------------------------------------------
(* The record file implements the abstract store: identifiers are never     *)
(* shared, get and scan return what was last written, a scan misses no      *)
(* record and returns none twice, and flushes, evictions, failed flushes    *)
(* and restarts after a close change no record.                             *)
RS == INSTANCE RecordStore WITH
  rows <- [r \in Rids |-> IF Readable(r) THEN pages[r[1]].slot[r[2]] ELSE NoRecord]

ImplementsRecordStore == RS!Spec
=============================================================================
