-------------------------- MODULE RecordFileProofs ---------------------------
(***************************************************************************)
(* Proofs about RecordFile, for every number of pages, of slots in a page  *)
(* and every set of records: types, the pages of the file, what stays on   *)
(* disk whatever fails, and, without kills and failing set_len, the chain   *)
(* of pages with space and that the file does what RecordStore promises.    *)
(***************************************************************************)
EXTENDS RecordFile, Recursion, FiniteSetTheorems, WellFoundedInduction, TLAPS

(* A page that was initialized counts its free slots, and is marked full if *)
(* and only if there are none.                                              *)
PageOK(page) ==
  /\ page \in PageContents
  /\ page.num_slots = SlotsPerPage =>
       /\ page.num_free_slots = Cardinality(FreeSlots(page))
       /\ page.next_free_page # 0
       /\ page.next_free_page = RECORD_PAGE_FULL <=> page.num_free_slots = 0

PagesOK == \A p \in DataPages : PageOK(pages[p]) /\ PageOK(disk_pages[p])

\* What holds of the file in memory while it is open: the header counts no page
\* that is not there, what is clean is on disk, the file has nothing but zeros
\* beyond its end, and a flushed record is in its place.
InMemory(r) ==
  /\ r[1] <= header.num_pages
  /\ r[1] <= header_page.num_pages
  /\ pages[r[1]].num_slots = SlotsPerPage
  /\ pages[r[1]].slot[r[2]] \in flushed[r]

MemoryInv ==
  /\ header.num_pages < total_pages
  /\ file_len <= total_pages
  /\ ~header_dirty => header_page = header
  /\ HEADER_PAGE_ID \notin dirty => disk_header = header_page
  /\ \A p \in DataPages : p \notin dirty => pages[p] = disk_pages[p]
  /\ \A p \in DataPages : file_len <= p => pages[p] = ZeroPage
  /\ \A r \in Rids : flushed[r] # {} => InMemory(r)

(* The inductive invariant. *)
FileInv ==
  /\ TypeOK
  /\ PagesOK
  /\ disk_total <= total_pages
  /\ FlushedRecordsOnDisk
  /\ status = "open" => MemoryInv

-----------------------------------------------------------------------------
(* Lemmas about one page.                                                  *)

LEMMA LinkFacts ==
  /\ RECORD_PAGE_LIST_END \notin DataPages /\ RECORD_PAGE_FULL \notin DataPages
  /\ RECORD_PAGE_LIST_END # RECORD_PAGE_FULL /\ 0 \notin DataPages
  /\ RECORD_PAGE_LIST_END # 0 /\ RECORD_PAGE_FULL # 0
  /\ SlotsPerPage \in Nat \ {0} /\ MaxPages \in Nat \ {0}
  /\ \A p \in DataPages : p \in Nat /\ 1 <= p /\ p <= MaxPages
BY BoundAssumption DEF RECORD_PAGE_LIST_END, RECORD_PAGE_FULL, DataPages

(* The free slots of a page are finitely many, and no more than all. *)
LEMMA FreeSlotsFinite ==
  ASSUME NEW page
  PROVE  /\ IsFiniteSet(FreeSlots(page))
         /\ Cardinality(FreeSlots(page)) \in 0 .. SlotsPerPage
         /\ Cardinality(FreeSlots(page)) = 0 <=> FreeSlots(page) = {}
<1>1. IsFiniteSet(Slots) /\ Cardinality(Slots) = SlotsPerPage
  BY BoundAssumption, FS_Interval DEF Slots
<1>2. FreeSlots(page) \in SUBSET Slots
  BY DEF FreeSlots
<1>3. IsFiniteSet(FreeSlots(page)) /\ Cardinality(FreeSlots(page)) <= SlotsPerPage
  BY <1>1, <1>2, FS_Subset
<1>4. Cardinality(FreeSlots(page)) \in Nat
  BY <1>3, FS_CardinalityType
<1> QED BY <1>3, <1>4, FS_EmptySet, BoundAssumption

(* find_first_free_slot finds one where there is one. *)
LEMMA FirstFree ==
  ASSUME NEW page, FreeSlots(page) # {}
  PROVE  Min(FreeSlots(page)) \in FreeSlots(page)
<1> DEFINE free == FreeSlots(page)
<1>1. free \subseteq Nat
  BY BoundAssumption DEF FreeSlots, Slots
<1>2. PICK s \in free : \A t \in free : <<t, s>> \notin OpToRel(<, Nat)
  BY <1>1, NatLessThanWellFounded, WFMin
<1>3. \A t \in free : ~(t < s)
  BY <1>1, <1>2 DEF OpToRel
<1>4. \A t \in free : s <= t
  BY <1>1, <1>3
<1> QED BY <1>4 DEF Min

LEMMA ZeroPageOK == PageOK(ZeroPage)
BY BoundAssumption DEF PageOK, ZeroPage, PageContents, Links

LEMMA EmptyPageOK ==
  /\ PageOK(EmptyPage)
  /\ FreeSlots(EmptyPage) = Slots
  /\ EmptyPage.num_slots = SlotsPerPage
  /\ EmptyPage.next_free_page = RECORD_PAGE_LIST_END
<1>1. FreeSlots(EmptyPage) = Slots
  BY DEF FreeSlots, EmptyPage
<1>2. Cardinality(Slots) = SlotsPerPage
  BY BoundAssumption, FS_Interval DEF Slots
<1>3. EmptyPage \in PageContents
  BY BoundAssumption DEF EmptyPage, PageContents, Links
<1> QED BY <1>1, <1>2, <1>3, LinkFacts DEF PageOK, EmptyPage

\* What update and delete make of their page.
Changed(page, s, v) == [page EXCEPT !.slot[s] = v]
Freed(page, s, first) ==
  [page EXCEPT !.slot[s] = NoRecord, !.num_free_slots = @ + 1,
     !.next_free_page = IF WasFull(page) THEN first ELSE @]

LEMMA FilledPage ==
  ASSUME NEW page, PageOK(page), page.num_slots = SlotsPerPage,
         NEW s \in FreeSlots(page), NEW v \in Values
  PROVE  LET new == Filled(page, s, v) IN
         /\ PageOK(new) /\ new.num_slots = SlotsPerPage
         /\ FreeSlots(new) = FreeSlots(page) \ {s}
         /\ FreeSlots(new) = {} <=> page.num_free_slots = 1
         /\ page.num_free_slots # 1 => new.next_free_page = page.next_free_page
         /\ page.next_free_page # RECORD_PAGE_FULL
         /\ \A t \in Slots : page.slot[t] # NoRecord => new.slot[t] = page.slot[t]
<1> DEFINE new == Filled(page, s, v)
<1>1. /\ page \in PageContents /\ s \in Slots
      /\ page.num_free_slots = Cardinality(FreeSlots(page))
      /\ page.slot \in [Slots -> Values \cup {NoRecord}] /\ page.slot[s] = NoRecord
  BY DEF PageOK, FreeSlots, PageContents
<1>2. new.slot = [page.slot EXCEPT ![s] = v]
  BY <1>1 DEF Filled, PageContents
<1>3. FreeSlots(new) = FreeSlots(page) \ {s}
  BY <1>1, <1>2, ValueAssumption DEF FreeSlots
<1>4. Cardinality(FreeSlots(new)) = page.num_free_slots - 1
  BY <1>1, <1>3, FreeSlotsFinite, FS_RemoveElement
<1>5. page.num_free_slots \in 1 .. SlotsPerPage
  BY <1>1, FreeSlotsFinite
<1>6. FreeSlots(new) = {} <=> page.num_free_slots = 1
  BY <1>4, <1>5, FreeSlotsFinite
<1>7. /\ new.num_slots = SlotsPerPage
      /\ new.num_free_slots = page.num_free_slots - 1
      /\ new.next_free_page =
           IF page.num_free_slots = 1 THEN RECORD_PAGE_FULL ELSE page.next_free_page
  BY <1>1 DEF Filled, PageContents
<1>8. new \in PageContents
  <2>1. page.num_free_slots - 1 \in 0 .. SlotsPerPage
    BY <1>5, BoundAssumption
  <2>2. (IF page.num_free_slots = 1 THEN RECORD_PAGE_FULL ELSE page.next_free_page)
          \in Links \cup {0}
    BY <1>1 DEF PageContents, Links
  <2> QED BY <2>1, <2>2, <1>1 DEF Filled, PageContents
<1>9. page.next_free_page # 0 /\ page.next_free_page # RECORD_PAGE_FULL
  BY <1>5 DEF PageOK
<1>10. PageOK(new)
  <2>1. new.num_free_slots = Cardinality(FreeSlots(new))
    BY <1>4, <1>7
  <2>2. new.next_free_page # 0
    BY <1>7, <1>9, LinkFacts
  <2>3. new.next_free_page = RECORD_PAGE_FULL <=> new.num_free_slots = 0
    BY <1>5, <1>7, <1>9
  <2> QED BY <2>1, <2>2, <2>3, <1>8 DEF PageOK
<1>11. \A t \in Slots : page.slot[t] # NoRecord => new.slot[t] = page.slot[t]
  BY <1>1, <1>2
<1> QED BY <1>3, <1>6, <1>7, <1>9, <1>10, <1>11

LEMMA ChangedPage ==
  ASSUME NEW page, PageOK(page), NEW s \in Slots, page.slot[s] # NoRecord, NEW v \in Values
  PROVE  LET new == Changed(page, s, v) IN
         /\ PageOK(new) /\ new.num_slots = page.num_slots
         /\ FreeSlots(new) = FreeSlots(page)
         /\ new.next_free_page = page.next_free_page
         /\ new.slot[s] = v
         /\ \A t \in Slots \ {s} : new.slot[t] = page.slot[t]
<1> DEFINE new == Changed(page, s, v)
<1>1. page \in PageContents /\ page.slot \in [Slots -> Values \cup {NoRecord}]
  BY DEF PageOK, PageContents
<1>2. /\ new.slot = [page.slot EXCEPT ![s] = v] /\ new.num_slots = page.num_slots
      /\ new.num_free_slots = page.num_free_slots /\ new.next_free_page = page.next_free_page
  BY <1>1 DEF Changed, PageContents
<1>3. FreeSlots(new) = FreeSlots(page)
  BY <1>1, <1>2, ValueAssumption DEF FreeSlots
<1>4. new \in PageContents
  BY <1>1 DEF Changed, PageContents
<1> QED BY <1>1, <1>2, <1>3, <1>4 DEF PageOK

LEMMA FreedPage ==
  ASSUME NEW page, PageOK(page), page.num_slots = SlotsPerPage,
         NEW s \in Slots, page.slot[s] # NoRecord,
         NEW first \in DataPages \cup {RECORD_PAGE_LIST_END}
  PROVE  LET new == Freed(page, s, first) IN
         /\ PageOK(new) /\ new.num_slots = SlotsPerPage
         /\ FreeSlots(new) # {}
         /\ WasFull(page) <=> FreeSlots(page) = {}
         /\ new.next_free_page = IF WasFull(page) THEN first ELSE page.next_free_page
         /\ \A t \in Slots \ {s} : new.slot[t] = page.slot[t]
<1> DEFINE new == Freed(page, s, first)
<1>1. /\ page \in PageContents /\ page.slot \in [Slots -> Values \cup {NoRecord}]
      /\ page.num_free_slots = Cardinality(FreeSlots(page))
  BY DEF PageOK, PageContents
<1>2. /\ new.slot = [page.slot EXCEPT ![s] = NoRecord] /\ new.num_slots = SlotsPerPage
      /\ new.num_free_slots = page.num_free_slots + 1
      /\ new.next_free_page = IF WasFull(page) THEN first ELSE page.next_free_page
  BY <1>1 DEF Freed, PageContents
<1>3. FreeSlots(new) = FreeSlots(page) \cup {s} /\ s \notin FreeSlots(page)
  BY <1>1, <1>2 DEF FreeSlots
<1>4. Cardinality(FreeSlots(new)) = page.num_free_slots + 1
  <2>1. IsFiniteSet(FreeSlots(page))
    BY FreeSlotsFinite
  <2>2. Cardinality(FreeSlots(page) \cup {s}) = Cardinality(FreeSlots(page)) + 1
    BY <1>3, <2>1, FS_AddElement
  <2> QED BY <1>1, <1>3, <2>2
<1>5. page.num_free_slots \in 0 .. SlotsPerPage /\ new.num_free_slots \in 1 .. SlotsPerPage
  BY <1>1, <1>2, <1>4, FreeSlotsFinite, BoundAssumption
<1>6. WasFull(page) <=> FreeSlots(page) = {}
  BY <1>1, FreeSlotsFinite DEF WasFull
<1>7. new \in PageContents
  <2>1. page.num_free_slots + 1 \in 0 .. SlotsPerPage
    BY <1>2, <1>5, BoundAssumption
  <2>2. (IF WasFull(page) THEN first ELSE page.next_free_page) \in Links \cup {0}
    BY <1>1 DEF PageContents, Links
  <2> QED BY <2>1, <2>2, <1>1 DEF Freed, PageContents
<1>8. new.next_free_page # 0 /\ new.next_free_page # RECORD_PAGE_FULL
  BY <1>2, LinkFacts DEF PageOK, WasFull
<1>9. PageOK(new)
  BY <1>2, <1>4, <1>5, <1>7, <1>8 DEF PageOK
<1> QED BY <1>1, <1>2, <1>3, <1>6, <1>9

-----------------------------------------------------------------------------
(* Lemmas about the whole file.                                            *)

(* A flushed record is never the mark of a free slot. *)
LEMMA FlushedAreRecords ==
  ASSUME TypeOK, NEW r \in Rids
  PROVE  NoRecord \notin flushed[r] /\ r[1] \in DataPages /\ r[2] \in Slots /\ r = <<r[1], r[2]>>
BY ValueAssumption DEF TypeOK, Rids

(* The type of a call that changes one page in the pool. *)
LEMMA OnePageType ==
  ASSUME FileInv, NEW p \in DataPages, NEW new, PageOK(new),
         status' = status, pages' = [pages EXCEPT ![p] = new],
         header' \in Headers, header_dirty' \in BOOLEAN,
         dirty' = dirty \cup {p}, total_pages' \in 1 .. MaxPages + 1,
         file_len' \in 1 .. MaxPages + 1,
         disk_total <= total_pages', flushed' \in [Rids -> SUBSET Values],
         UNCHANGED <<header_page, disk_header, disk_pages, disk_total>>
  PROVE  TypeOK' /\ PagesOK' /\ (disk_total <= total_pages)'
<1>1. pages' \in [DataPages -> PageContents]
  BY DEF FileInv, TypeOK, PageOK
<1>2. TypeOK'
  BY <1>1 DEF FileInv, TypeOK
<1>3. PagesOK'
  <2> SUFFICES ASSUME NEW q \in DataPages PROVE PageOK(pages'[q]) /\ PageOK(disk_pages'[q])
    BY DEF PagesOK, PageOK, FreeSlots
  <2>1. pages'[q] = IF q = p THEN new ELSE pages[q]
    BY DEF FileInv, TypeOK
  <2> QED BY <2>1 DEF FileInv, PagesOK
<1> QED BY <1>2, <1>3

(* A step that leaves the disk and the history alone and every page as it   *)
(* was: more pages may be dirty, and the page file may have counted more.   *)
LEMMA QuietStep ==
  ASSUME FileInv,
         UNCHANGED <<status, header, header_dirty, header_page, pages, disk, flushed>>,
         total_pages' \in 1 .. MaxPages + 1, total_pages <= total_pages',
         dirty \subseteq dirty', dirty' \subseteq DataPages \cup {HEADER_PAGE_ID}
  PROVE  FileInv'
<1>1. TypeOK'
  BY DEF FileInv, TypeOK, disk
<1>2. PagesOK' /\ (disk_total <= total_pages)'
  BY DEF FileInv, PagesOK, TypeOK, disk
<1>3. FlushedRecordsOnDisk'
  BY DEF FileInv, FlushedRecordsOnDisk, OnDisk, disk
<1>4. ASSUME status = "open"
      PROVE  MemoryInv'
  <2>1. header.num_pages \in Nat /\ file_len \in Nat /\ total_pages \in Nat /\ total_pages' \in Nat
    BY DEF FileInv, TypeOK, Headers
  <2>2. (header.num_pages < total_pages /\ file_len <= total_pages)'
    BY <1>4, <2>1 DEF FileInv, MemoryInv, disk
  <2>3. \A r \in Rids : flushed'[r] # {} => InMemory(r)'
    BY <1>4 DEF FileInv, MemoryInv, InMemory
  <2> QED BY <1>4, <2>2, <2>3 DEF FileInv, MemoryInv, disk
<1> QED BY <1>1, <1>2, <1>3, <1>4 DEF FileInv

(* Opening: what is in memory is then what is on disk. *)
LEMMA OpenInv ==
  ASSUME FileInv, Open, PagesOK', disk_header' \in Headers,
         disk_pages' \in [DataPages -> PageContents], disk_total' \in 1 .. MaxPages + 1,
         \A p \in DataPages : disk_total' <= p => disk_pages'[p] = ZeroPage,
         FlushedRecordsOnDisk', UNCHANGED flushed
  PROVE  FileInv'
<1>1. TypeOK'
  BY DEF Open, FileInv, TypeOK
<1>2. (disk_total <= total_pages)'
  BY <1>1 DEF Open, TypeOK
<1>3. ASSUME status' = "open"
      PROVE  MemoryInv'
  <2>1. header'.num_pages < total_pages'
    BY <1>1, <1>3 DEF Open, Accepted, PagesExist, TypeOK, Headers
  <2>2. file_len' = disk_total' /\ total_pages' = disk_total' /\ disk_total' \in Nat
    <3>1. disk_total' <= file_len /\ file_len \in Nat /\ disk_total' \in Nat
      BY <1>3 DEF Open, Accepted, FileInv, TypeOK
    <3> QED BY <3>1 DEF Open
  <2>3. \A r \in Rids : flushed'[r] # {} => InMemory(r)'
    BY DEF Open, FlushedRecordsOnDisk, OnDisk, InMemory
  <2> QED BY <2>1, <2>2, <2>3 DEF MemoryInv, Open
<1> QED BY <1>1, <1>2, <1>3 DEF FileInv

(* The page count on disk when it is written: no less than it was, and it    *)
(* covers all of the file.                                                  *)
LEMMA CountedFacts ==
  ASSUME FileInv, status = "open"
  PROVE  /\ Counted \in 1 .. MaxPages + 1 /\ Counted \in Nat
         /\ disk_total <= Counted /\ Counted <= total_pages /\ file_len <= Counted
<1>1. /\ disk_total \in 1 .. MaxPages + 1 /\ total_pages \in 1 .. MaxPages + 1
      /\ file_len \in 1 .. MaxPages + 1 /\ disk_total <= total_pages
      /\ file_len <= total_pages
  BY DEF FileInv, TypeOK, MemoryInv
<1> QED BY <1>1 DEF Counted, CountDirty

(* The header in memory, in the pool, and as a flush puts it there. *)
LEMMA PersistedFacts ==
  ASSUME FileInv, status = "open"
  PROVE  /\ PersistedHeader = header /\ header \in Headers /\ header_page \in Headers
         /\ dirty \subseteq PersistedDirty
         /\ PersistedDirty \subseteq DataPages \cup {HEADER_PAGE_ID}
         /\ HEADER_PAGE_ID \notin PersistedDirty =>
              header_page = header /\ disk_header = header
         /\ \A r \in Rids : flushed[r] # {} =>
              r[1] <= header.num_pages /\ r[1] <= header_page.num_pages
<1>1. TypeOK /\ MemoryInv
  BY DEF FileInv
<1>2. PersistedHeader = header
  BY <1>1 DEF PersistedHeader, MemoryInv
<1>3. header \in Headers /\ header_page \in Headers
  BY <1>1 DEF TypeOK
<1>4. /\ dirty \subseteq PersistedDirty
      /\ PersistedDirty \subseteq DataPages \cup {HEADER_PAGE_ID}
  BY <1>1 DEF PersistedDirty, TypeOK
<1>5. HEADER_PAGE_ID \notin PersistedDirty => header_page = header /\ disk_header = header
  BY <1>1 DEF PersistedDirty, MemoryInv
<1>6. \A r \in Rids : flushed[r] # {} => r[1] <= header.num_pages /\ r[1] <= header_page.num_pages
  BY <1>1 DEF MemoryInv, InMemory
<1> QED BY <1>2, <1>3, <1>4, <1>5, <1>6

(* The pages of S are written back, some beyond the page count are lost.    *)
LEMMA WriteOutInv ==
  ASSUME FileInv, status = "open", NEW S, NEW lost, NEW h \in {header, header_page},
         disk_header' = IF HEADER_PAGE_ID \in S THEN h ELSE disk_header,
         disk_pages' = [p \in DataPages |-> IF p \in lost THEN ZeroPage
                                            ELSE IF p \in S THEN pages[p] ELSE disk_pages[p]],
         disk_total' \in Nat, disk_total <= disk_total',
         \A p \in DataPages : p \in lost => disk_total' <= p
  PROVE  /\ disk_header' \in Headers
         /\ disk_pages' \in [DataPages -> PageContents]
         /\ \A p \in DataPages : PageOK(disk_pages'[p])
         /\ flushed' = flushed => FlushedRecordsOnDisk'
<1>1. disk_header' \in Headers
  BY DEF FileInv, TypeOK
<1>2. \A p \in DataPages : PageOK(disk_pages'[p])
  BY ZeroPageOK DEF FileInv, PagesOK
<1>3. disk_pages' \in [DataPages -> PageContents]
  BY <1>2 DEF PageOK
<1>4. ASSUME flushed' = flushed, NEW r \in Rids, flushed'[r] # {}
      PROVE  OnDisk(r)'
  <2>1. r[1] \in DataPages /\ r[1] \in Nat
    BY LinkFacts DEF Rids
  <2>2. OnDisk(r) /\ InMemory(r)
    BY <1>4 DEF FileInv, FlushedRecordsOnDisk, MemoryInv
  <2>3. r[1] < disk_total /\ disk_total \in Nat
    BY <2>2 DEF OnDisk, FileInv, TypeOK
  <2>4. r[1] < disk_total' /\ r[1] \notin lost
    BY <2>1, <2>3
  <2>5. r[1] <= disk_header'.num_pages
    BY <2>2 DEF OnDisk, InMemory
  <2>6. disk_pages'[r[1]] \in {pages[r[1]], disk_pages[r[1]]}
    BY <2>1, <2>4
  <2> QED BY <1>4, <2>2, <2>4, <2>5, <2>6 DEF OnDisk, InMemory
<1> QED BY <1>1, <1>2, <1>3, <1>4 DEF FlushedRecordsOnDisk

LEMMA Between ==
  ASSUME NEW m \in Nat, NEW a \in 1 .. m + 1, NEW b \in 1 .. m + 1, NEW d \in a .. b
  PROVE  d \in Nat /\ a <= d /\ d <= b /\ d \in 1 .. m + 1
OBVIOUS

(* Some pages are written back; what becomes clean was written. *)
LEMMA WrittenInv ==
  ASSUME FileInv, status = "open", NEW S, NEW h \in {header, header_page},
         WriteOut(S, h), disk_total' \in disk_total .. total_pages,
         header_page' = h, header_dirty' \in BOOLEAN, ~header_dirty' => h = header,
         dirty' \subseteq DataPages \cup {HEADER_PAGE_ID},
         \A p \in DataPages : p \notin dirty' => p \in S \/ p \notin dirty,
         HEADER_PAGE_ID \notin dirty' =>
           HEADER_PAGE_ID \in S \/ (disk_header = h /\ HEADER_PAGE_ID \notin dirty),
         UNCHANGED <<status, header, pages, total_pages, file_len, flushed>>
  PROVE  FileInv'
<1> DEFINE lost == {}
<1>0. MemoryInv /\ TypeOK
  BY DEF FileInv
<1>1. /\ disk_total' \in Nat /\ disk_total <= disk_total' /\ disk_total' <= total_pages
      /\ disk_total' \in 1 .. MaxPages + 1
  <2>1. disk_total \in 1 .. MaxPages + 1 /\ total_pages \in 1 .. MaxPages + 1
    BY <1>0 DEF TypeOK
  <2>2. disk_total' \in disk_total .. total_pages /\ MaxPages \in Nat
    BY LinkFacts
  <2> QED BY <2>1, <2>2, Between, Zenon
<1>2. /\ disk_header' = IF HEADER_PAGE_ID \in S THEN h ELSE disk_header
      /\ disk_pages' = [p \in DataPages |-> IF p \in lost THEN ZeroPage
                                            ELSE IF p \in S THEN pages[p] ELSE disk_pages[p]]
      /\ \A p \in DataPages : p \in lost => disk_total' <= p
  BY DEF WriteOut
<1> HIDE DEF lost
<1>3. /\ disk_header' \in Headers
      /\ disk_pages' \in [DataPages -> PageContents]
      /\ \A p \in DataPages : PageOK(disk_pages'[p])
      /\ FlushedRecordsOnDisk'
  BY <1>1, <1>2, WriteOutInv
<1>4. TypeOK'
  BY <1>0, <1>1, <1>2, <1>3 DEF TypeOK
<1>5. PagesOK' /\ (disk_total <= total_pages)'
  BY <1>1, <1>3 DEF FileInv, PagesOK
<1>6. MemoryInv'
  <2>1. \A p \in DataPages : p \notin dirty' => pages'[p] = disk_pages'[p]
    BY <1>0, <1>2 DEF MemoryInv, WriteOut
  <2>2. HEADER_PAGE_ID \notin dirty' => disk_header' = header_page'
    BY <1>2
  <2>3. \A r \in Rids : flushed'[r] # {} => InMemory(r)'
    BY <1>0 DEF MemoryInv, InMemory
  <2> QED BY <1>0, <2>1, <2>2, <2>3 DEF MemoryInv
<1> QED BY <1>3, <1>4, <1>5, <1>6 DEF FileInv

-----------------------------------------------------------------------------
(* The steps.                                                              *)

(* The page that an insert fills: the new one, or the first of the chain. *)
LEMMA InsertPage ==
  ASSUME FileInv, NEW v \in Values, Insert(v)
  PROVE  LET grow == header.first_free_page = RECORD_PAGE_LIST_END
             p == IF grow THEN total_pages ELSE header.first_free_page
             page == IF grow THEN EmptyPage ELSE pages[p]
         IN /\ p \in DataPages /\ PageOK(page) /\ page.num_slots = SlotsPerPage
            /\ Min(FreeSlots(page)) \in FreeSlots(page)
            /\ page.next_free_page \in DataPages \cup {RECORD_PAGE_LIST_END}
            /\ ~grow => p < total_pages
<1> DEFINE grow == header.first_free_page = RECORD_PAGE_LIST_END
           p == IF grow THEN total_pages ELSE header.first_free_page
           page == IF grow THEN EmptyPage ELSE pages[p]
<1>1. status = "open" /\ header \in Headers /\ total_pages \in 1 .. MaxPages + 1
  BY DEF Insert, IsOpen, FileInv, TypeOK
<1>2. p \in DataPages /\ (~grow => p < total_pages)
  <2>1. CASE grow
    BY <2>1, <1>1, LinkFacts DEF Insert, DataPages
  <2>2. CASE ~grow
    BY <2>2, <1>1 DEF Insert, PageValid, Headers
  <2> QED BY <2>1, <2>2
<1>3. PageOK(page) /\ page.num_slots = SlotsPerPage
  <2>1. CASE grow
    BY <2>1, EmptyPageOK
  <2>2. CASE ~grow
    BY <2>2, <1>2 DEF Insert, PageValid, FileInv, PagesOK
  <2> QED BY <2>1, <2>2
<1>4. Min(FreeSlots(page)) \in FreeSlots(page)
  BY FirstFree DEF Insert
<1>5. page.next_free_page \in DataPages \cup {RECORD_PAGE_LIST_END}
  <2>1. \E s \in FreeSlots(page) : TRUE
    BY <1>4
  <2>2. page.num_free_slots # 0 /\ page.next_free_page \in Links \cup {0}
    BY <1>3, <2>1, FreeSlotsFinite DEF PageOK, PageContents
  <2> QED BY <1>3, <2>2 DEF PageOK, Links
<1> QED BY <1>2, <1>3, <1>4, <1>5

LEMMA InsertInv ==
  ASSUME FileInv, NEW v \in Values, Insert(v)
  PROVE  FileInv'
<1> DEFINE grow == header.first_free_page = RECORD_PAGE_LIST_END
           p == IF grow THEN total_pages ELSE header.first_free_page
           page == IF grow THEN EmptyPage ELSE pages[p]
           s == Min(FreeSlots(page))
           new == Filled(page, s, v)
<1>1. /\ p \in DataPages /\ PageOK(page) /\ page.num_slots = SlotsPerPage
      /\ s \in FreeSlots(page)
      /\ page.next_free_page \in DataPages \cup {RECORD_PAGE_LIST_END}
      /\ ~grow => p < total_pages
  BY InsertPage
<1>2. /\ status = "open" /\ header \in Headers /\ total_pages \in 1 .. MaxPages + 1
      /\ header_dirty \in BOOLEAN /\ disk_total <= total_pages /\ disk_total \in Nat
      /\ file_len \in 1 .. MaxPages + 1 /\ file_len <= total_pages
      /\ MemoryInv /\ pages \in [DataPages -> PageContents]
  BY DEF Insert, IsOpen, FileInv, TypeOK, MemoryInv
<1>3. /\ pages' = [pages EXCEPT ![p] = new]
      /\ header' = [first_free_page |-> FirstAfterInsert(p, page),
                    num_pages |-> IF grow THEN header.num_pages + 1 ELSE header.num_pages]
      /\ header_dirty' = (header_dirty \/ grow \/ page.num_free_slots = 1)
      /\ dirty' = dirty \cup {p}
      /\ total_pages' = IF grow THEN total_pages + 1 ELSE total_pages
      /\ file_len' = IF grow THEN total_pages + 1 ELSE file_len
      /\ UNCHANGED <<status, header_page, disk_header, disk_pages, disk_total, flushed>>
  BY DEF Insert
<1>4. /\ PageOK(new) /\ new.num_slots = SlotsPerPage
      /\ \A t \in Slots : page.slot[t] # NoRecord => new.slot[t] = page.slot[t]
  BY <1>1, FilledPage
<1> HIDE DEF s, new
<1>5. /\ total_pages' \in 1 .. MaxPages + 1 /\ total_pages <= total_pages'
      /\ file_len' \in 1 .. MaxPages + 1 /\ file_len' <= total_pages' /\ file_len <= file_len'
  BY <1>1, <1>2, <1>3, LinkFacts
<1>6. header' \in Headers /\ header'.num_pages < total_pages' /\ header.num_pages <= header'.num_pages
  <2>1. FirstAfterInsert(p, page) \in DataPages \cup {RECORD_PAGE_LIST_END}
    BY <1>1 DEF FirstAfterInsert
  <2>2. header.num_pages \in Nat /\ header.num_pages < total_pages
    BY <1>2 DEF MemoryInv, Headers
  <2>3. header'.num_pages < total_pages' /\ header.num_pages <= header'.num_pages
    BY <1>2, <1>3, <2>2
  <2>4. header'.num_pages \in 0 .. MaxPages
    BY <1>3, <1>5, <2>2, <2>3, LinkFacts
  <2> QED BY <1>3, <2>1, <2>3, <2>4 DEF Headers
<1>7. header_dirty' \in BOOLEAN
  BY <1>3
<1>8. disk_total <= total_pages' /\ flushed' \in [Rids -> SUBSET Values]
  BY <1>2, <1>3, <1>5 DEF FileInv, TypeOK
<1>9. TypeOK' /\ PagesOK' /\ (disk_total <= total_pages)'
  BY <1>1, <1>3, <1>4, <1>5, <1>6, <1>7, <1>8, OnePageType
<1>10. FlushedRecordsOnDisk'
  BY <1>3 DEF FileInv, FlushedRecordsOnDisk, OnDisk
<1>11. MemoryInv'
  <2>1. ~header_dirty' => header_page' = header'
    <3> SUFFICES ASSUME ~header_dirty' PROVE header_page' = header'
      OBVIOUS
    <3>1. ~grow /\ page.num_free_slots # 1 /\ ~header_dirty
      BY <1>3
    <3>2. header' = header
      BY <1>2, <1>3, <3>1 DEF FirstAfterInsert, Headers
    <3> QED BY <1>2, <1>3, <3>1, <3>2 DEF MemoryInv
  <2>2. HEADER_PAGE_ID \notin dirty' => disk_header' = header_page'
    BY <1>2, <1>3 DEF MemoryInv
  <2>3. \A q \in DataPages : q \notin dirty' => pages'[q] = disk_pages'[q]
    BY <1>2, <1>3 DEF MemoryInv
  <2>4. ASSUME NEW q \in DataPages, file_len' <= q
        PROVE  pages'[q] = ZeroPage
    <3>1. p < file_len'
      <4>1. CASE grow
        BY <1>2, <1>3, <4>1
      <4>2. CASE ~grow
        <5>1. pages[p] # ZeroPage
          BY <1>1, <4>2, LinkFacts DEF ZeroPage
        <5>2. p \in DataPages /\ p \in Nat
          BY <1>1, LinkFacts
        <5> HIDE DEF p
        <5> QED BY <1>2, <1>3, <4>2, <5>1, <5>2 DEF MemoryInv
      <4> QED BY <4>1, <4>2
    <3>2. q \in Nat /\ p \in Nat
      BY <1>1, LinkFacts
    <3>3. q # p /\ file_len <= q
      BY <1>2, <1>5, <2>4, <3>1, <3>2
    <3> QED BY <1>2, <1>3, <3>3 DEF MemoryInv
  <2>5. ASSUME NEW r \in Rids, flushed'[r] # {}
        PROVE  InMemory(r)'
    <3>1. InMemory(r) /\ flushed'[r] = flushed[r]
      BY <1>2, <1>3, <2>5 DEF MemoryInv
    <3>2. NoRecord \notin flushed[r] /\ r[1] \in DataPages /\ r[2] \in Slots /\ r[1] \in Nat
      BY FlushedAreRecords, LinkFacts DEF FileInv
    <3>3. header.num_pages \in Nat /\ header'.num_pages \in Nat
      BY <1>2, <1>6 DEF Headers
    <3>4. r[1] <= header'.num_pages /\ r[1] <= header_page'.num_pages
      BY <1>3, <1>6, <3>1, <3>2, <3>3 DEF InMemory
    <3>5. CASE r[1] = p
      <4>1. ~grow /\ page = pages[p]
        BY <1>2, <3>1, <3>2, <3>3, <3>5 DEF InMemory, MemoryInv
      <4>2. page.slot[r[2]] \in flushed[r]
        BY <3>1, <3>5, <4>1 DEF InMemory
      <4>3. new.slot[r[2]] = page.slot[r[2]]
        BY <1>4, <3>2, <4>2
      <4>4. pages'[r[1]] = new
        BY <1>1, <1>2, <1>3, <3>5
      <4> QED BY <1>4, <3>1, <3>4, <4>2, <4>3, <4>4 DEF InMemory
    <3>6. CASE r[1] # p
      <4>1. pages'[r[1]] = pages[r[1]]
        BY <1>2, <1>3, <3>2, <3>6
      <4> QED BY <3>1, <3>4, <4>1 DEF InMemory
    <3> QED BY <3>5, <3>6
  <2> QED BY <1>5, <1>6, <2>1, <2>2, <2>3, <2>4, <2>5 DEF MemoryInv
<1> QED BY <1>9, <1>10, <1>11 DEF FileInv

(* A call that changes one slot of a page that is there. *)
LEMMA OneSlotInv ==
  ASSUME FileInv, IsOpen, NEW r \in Rids, NEW new, PageOK(new),
         PageValid(r[1]), new.num_slots = SlotsPerPage,
         \A t \in Slots \ {r[2]} : new.slot[t] = pages[r[1]].slot[t],
         pages' = [pages EXCEPT ![r[1]] = new],
         header' \in Headers, header'.num_pages = header.num_pages,
         header_dirty' \in BOOLEAN, ~header_dirty' => ~header_dirty /\ header' = header,
         dirty' = dirty \cup {r[1]},
         flushed' \in [Rids -> SUBSET Values],
         \A q \in Rids \ {r} : flushed'[q] = flushed[q],
         \/ flushed'[r] = {}
         \/ flushed[r] # {} /\ flushed[r] \subseteq flushed'[r] /\ new.slot[r[2]] \in flushed'[r],
         UNCHANGED <<status, header_page, total_pages, disk>>
  PROVE  FileInv'
<1>1. r[1] \in DataPages /\ r[2] \in Slots /\ r = <<r[1], r[2]>>
  BY DEF Rids
<1>2. /\ status = "open" /\ MemoryInv /\ pages \in [DataPages -> PageContents]
      /\ total_pages \in 1 .. MaxPages + 1 /\ disk_total <= total_pages
      /\ r[1] < total_pages
  BY DEF IsOpen, FileInv, TypeOK, PageValid
<1>3. TypeOK' /\ PagesOK' /\ (disk_total <= total_pages)'
  <2>1. /\ UNCHANGED <<disk_header, disk_pages, disk_total>> /\ disk_total <= total_pages'
        /\ total_pages' \in 1 .. MaxPages + 1 /\ file_len' \in 1 .. MaxPages + 1
    BY <1>2 DEF disk, FileInv, TypeOK
  <2> QED BY <1>1, <2>1, OnePageType
<1>4. \A q \in Rids : flushed'[q] # {} => flushed[q] # {} /\ flushed[q] \subseteq flushed'[q]
  OBVIOUS
<1>5. FlushedRecordsOnDisk'
  BY <1>4 DEF FileInv, FlushedRecordsOnDisk, OnDisk, disk
<1>6. /\ \A q \in DataPages : q \notin dirty' => pages'[q] = disk_pages'[q]
      /\ HEADER_PAGE_ID \notin dirty' => disk_header' = header_page'
      /\ ~header_dirty' => header_page' = header'
  BY <1>1, <1>2 DEF MemoryInv, disk
<1>9. ASSUME NEW q \in DataPages, file_len' <= q
      PROVE  pages'[q] = ZeroPage
  <2>1. pages[r[1]] # ZeroPage
    BY LinkFacts DEF PageValid, ZeroPage
  <2>2. q # r[1]
    BY <1>1, <1>2, <1>9, <2>1 DEF MemoryInv, disk
  <2> QED BY <1>2, <1>9, <2>2 DEF MemoryInv, disk
<1>7. ASSUME NEW q \in Rids, flushed'[q] # {}
      PROVE  InMemory(q)'
  <2>1. InMemory(q) /\ flushed[q] # {} /\ flushed[q] \subseteq flushed'[q]
    BY <1>2, <1>4, <1>7 DEF MemoryInv
  <2>2. q[1] \in DataPages /\ q[2] \in Slots /\ q = <<q[1], q[2]>>
    BY DEF Rids
  <2>3. CASE q = r
    BY <1>1, <1>2, <1>7, <2>1, <2>3 DEF InMemory
  <2>4. CASE q # r /\ q[1] = r[1]
    <3>1. q[2] # r[2]
      BY <1>1, <2>2, <2>4
    <3>2. pages'[q[1]] = new /\ new.slot[q[2]] = pages[q[1]].slot[q[2]]
      BY <1>1, <1>2, <2>2, <2>4, <3>1
    <3> QED BY <2>1, <3>2 DEF InMemory
  <2>5. CASE q[1] # r[1]
    <3>1. pages'[q[1]] = pages[q[1]]
      BY <1>2, <2>2, <2>5
    <3> QED BY <2>1, <3>1 DEF InMemory
  <2> QED BY <2>3, <2>4, <2>5
<1>8. MemoryInv'
  BY <1>2, <1>6, <1>7, <1>9 DEF MemoryInv, disk
<1> QED BY <1>3, <1>5, <1>8 DEF FileInv

LEMMA UpdateInv ==
  ASSUME FileInv, NEW r \in Rids, NEW v \in Values, Update(r, v)
  PROVE  FileInv'
<1> DEFINE new == Changed(pages[r[1]], r[2], v)
<1>1. r[1] \in DataPages /\ r[2] \in Slots
  BY DEF Rids
<1>2. /\ IsOpen /\ PageValid(r[1]) /\ pages[r[1]].slot[r[2]] # NoRecord
      /\ pages[r[1]].num_slots = SlotsPerPage /\ PageOK(pages[r[1]])
  BY <1>1 DEF Update, Readable, PageValid, FileInv, PagesOK
<1>3. /\ PageOK(new) /\ new.num_slots = SlotsPerPage /\ new.slot[r[2]] = v
      /\ \A t \in Slots \ {r[2]} : new.slot[t] = pages[r[1]].slot[t]
  BY <1>1, <1>2, ChangedPage
<1>4. pages' = [pages EXCEPT ![r[1]] = new]
  BY DEF Update, Changed
<1>5. /\ flushed \in [Rids -> SUBSET Values]
      /\ flushed' = [flushed EXCEPT ![r] = IF @ = {} THEN {} ELSE @ \cup {v}]
  BY DEF Update, FileInv, TypeOK
<1>6. /\ flushed' \in [Rids -> SUBSET Values]
      /\ \A q \in Rids \ {r} : flushed'[q] = flushed[q]
      /\ \/ flushed'[r] = {}
         \/ flushed[r] # {} /\ flushed[r] \subseteq flushed'[r] /\ new.slot[r[2]] \in flushed'[r]
  BY <1>3, <1>5
<1>7. /\ header' \in Headers /\ header'.num_pages = header.num_pages
      /\ header_dirty' \in BOOLEAN /\ (~header_dirty' => ~header_dirty /\ header' = header)
      /\ dirty' = dirty \cup {r[1]}
      /\ UNCHANGED <<status, header_page, total_pages, disk>>
  BY DEF Update, FileInv, TypeOK
<1> HIDE DEF new
<1> QED BY <1>2, <1>3, <1>4, <1>6, <1>7, OneSlotInv, Zenon

LEMMA DeleteInv ==
  ASSUME FileInv, NEW r \in Rids, Delete(r)
  PROVE  FileInv'
<1> DEFINE page == pages[r[1]]
           new == Freed(page, r[2], header.first_free_page)
<1>1. r[1] \in DataPages /\ r[2] \in Slots
  BY DEF Rids
<1>2. /\ IsOpen /\ PageValid(r[1]) /\ page.slot[r[2]] # NoRecord
      /\ page.num_slots = SlotsPerPage /\ PageOK(page)
      /\ header.first_free_page \in DataPages \cup {RECORD_PAGE_LIST_END}
      /\ header \in Headers
  BY <1>1 DEF Delete, Readable, PageValid, FileInv, PagesOK, TypeOK, Headers
<1>3. /\ PageOK(new) /\ new.num_slots = SlotsPerPage
      /\ \A t \in Slots \ {r[2]} : new.slot[t] = page.slot[t]
  BY <1>1, <1>2, FreedPage
<1>4. pages' = [pages EXCEPT ![r[1]] = new]
  BY DEF Delete, Freed
<1>5. /\ flushed' \in [Rids -> SUBSET Values]
      /\ \A q \in Rids \ {r} : flushed'[q] = flushed[q]
      /\ flushed'[r] = {}
  BY DEF Delete, FileInv, TypeOK
<1>6. header' \in Headers /\ header'.num_pages = header.num_pages
  BY <1>1, <1>2 DEF Delete, Headers
<1>7. /\ header_dirty' = (header_dirty \/ WasFull(page))
      /\ ~WasFull(page) => header' = header
  BY DEF Delete
<1>8. header_dirty' \in BOOLEAN /\ (~header_dirty' => ~header_dirty /\ header' = header)
  BY <1>7
<1>9. dirty' = dirty \cup {r[1]} /\ UNCHANGED <<status, header_page, total_pages, disk>>
  BY DEF Delete
<1> HIDE DEF new
<1> QED BY <1>2, <1>3, <1>4, <1>5, <1>6, <1>8, <1>9, OneSlotInv, Zenon

(* What flush and a close write: afterwards the disk has every page and the *)
(* header, and its page count covers the file.                              *)
LEMMA AllWritten ==
  ASSUME FileInv, status = "open",
         WriteOut(PersistedDirty, PersistedHeader), disk_total' = Counted
  PROVE  /\ disk_total' \in 1 .. MaxPages + 1 /\ disk_total' <= total_pages
         /\ file_len <= disk_total'
         /\ disk_header' = header
         /\ disk_pages' \in [DataPages -> PageContents]
         /\ \A p \in DataPages : PageOK(disk_pages'[p]) /\ disk_pages'[p] = pages[p]
         /\ \A p \in DataPages : disk_total' <= p => disk_pages'[p] = ZeroPage
         /\ flushed' = flushed => FlushedRecordsOnDisk'
<1>1. MemoryInv /\ header \in Headers /\ disk_total \in Nat /\ file_len \in Nat
  BY DEF FileInv, TypeOK
<1>2. /\ disk_total' \in 1 .. MaxPages + 1 /\ disk_total' \in Nat
      /\ disk_total <= disk_total' /\ disk_total' <= total_pages /\ file_len <= disk_total'
  BY CountedFacts
<1> DEFINE lost == {}
<1>3. /\ disk_header' = IF HEADER_PAGE_ID \in PersistedDirty THEN header ELSE disk_header
      /\ disk_pages' = [p \in DataPages |-> IF p \in lost THEN ZeroPage
                          ELSE IF p \in PersistedDirty THEN pages[p] ELSE disk_pages[p]]
      /\ \A p \in DataPages : p \in lost => disk_total' <= p
  BY PersistedFacts DEF WriteOut
<1>4. disk_header' = header
  BY <1>3, PersistedFacts
<1>5. \A p \in DataPages : disk_pages'[p] = pages[p]
  BY <1>1, <1>3, PersistedFacts DEF MemoryInv
<1>6. ASSUME NEW p \in DataPages, disk_total' <= p
      PROVE  disk_pages'[p] = ZeroPage
  <2>1. p \in Nat
    BY LinkFacts
  <2>2. file_len <= p
    BY <1>1, <1>2, <1>6, <2>1
  <2> QED BY <1>1, <1>5, <2>2 DEF MemoryInv
<1> HIDE DEF PersistedDirty, lost
<1>7. /\ disk_pages' \in [DataPages -> PageContents]
      /\ \A p \in DataPages : PageOK(disk_pages'[p])
      /\ flushed' = flushed => FlushedRecordsOnDisk'
  BY <1>2, <1>3, WriteOutInv
<1> QED BY <1>2, <1>4, <1>5, <1>6, <1>7

LEMMA FlushInv ==
  ASSUME FileInv, Flush
  PROVE  FileInv'
<1>1. /\ status = "open" /\ MemoryInv /\ total_pages \in 1 .. MaxPages + 1 /\ file_len \in Nat
      /\ header \in Headers
      /\ UNCHANGED <<status, header, pages, total_pages, file_len>>
      /\ header_page' = PersistedHeader /\ header_dirty' = FALSE /\ dirty' = {}
      /\ flushed' = [r \in Rids |-> IF Readable(r) THEN {pages[r[1]].slot[r[2]]} ELSE {}]
  BY DEF Flush, IsOpen, FileInv, TypeOK
<1>2. /\ disk_total' \in 1 .. MaxPages + 1 /\ disk_total' <= total_pages
      /\ file_len <= disk_total'
      /\ disk_header' = header
      /\ disk_pages' \in [DataPages -> PageContents]
      /\ \A p \in DataPages : PageOK(disk_pages'[p]) /\ disk_pages'[p] = pages[p]
  BY <1>1, AllWritten DEF Flush
<1>3. header_page' = header
  BY <1>1, PersistedFacts
<1>4. ASSUME NEW r \in Rids
      PROVE  /\ flushed'[r] \in SUBSET Values
             /\ flushed'[r] # {} =>
                  /\ r[1] <= header.num_pages /\ pages[r[1]].num_slots = SlotsPerPage
                  /\ pages[r[1]].slot[r[2]] \in flushed'[r]
  <2>1. r[1] \in DataPages /\ r[2] \in Slots
    BY DEF Rids
  <2>2. pages[r[1]].slot[r[2]] \in Values \cup {NoRecord}
    BY <2>1 DEF FileInv, TypeOK, PageContents
  <2>3. CASE Readable(r)
    BY <1>1, <2>2, <2>3 DEF Readable, PageValid
  <2>4. CASE ~Readable(r)
    BY <1>1, <2>4
  <2> QED BY <2>3, <2>4
<1>5. TypeOK'
  <2>1. flushed' \in [Rids -> SUBSET Values]
    BY <1>1, <1>4
  <2> QED BY <1>1, <1>2, <1>3, <2>1 DEF FileInv, TypeOK
<1>6. PagesOK' /\ (disk_total <= total_pages)'
  BY <1>1, <1>2 DEF FileInv, PagesOK
<1>7. FlushedRecordsOnDisk'
  <2> SUFFICES ASSUME NEW r \in Rids, flushed'[r] # {} PROVE OnDisk(r)'
    BY DEF FlushedRecordsOnDisk
  <2>1. r[1] \in DataPages /\ r[1] \in Nat
    BY LinkFacts DEF Rids
  <2>2. pages[r[1]] # ZeroPage
    BY <1>4, LinkFacts DEF ZeroPage
  <2>3. r[1] < disk_total'
    BY <1>1, <1>2, <2>1, <2>2 DEF MemoryInv
  <2> QED BY <1>2, <1>4, <2>1, <2>3 DEF OnDisk
<1>8. MemoryInv'
  <2>1. \A r \in Rids : flushed'[r] # {} => InMemory(r)'
    BY <1>1, <1>3, <1>4 DEF InMemory
  <2> QED BY <1>1, <1>2, <1>3, <2>1 DEF MemoryInv
<1> QED BY <1>5, <1>6, <1>7, <1>8 DEF FileInv

LEMMA ReopenInv ==
  ASSUME FileInv, Reopen
  PROVE  FileInv'
<1>1. status = "open" /\ Open /\ UNCHANGED flushed /\ header \in Headers
  BY DEF Reopen, IsOpen, FileInv, TypeOK
<1>2. /\ disk_total' \in 1 .. MaxPages + 1
      /\ disk_header' = header
      /\ disk_pages' \in [DataPages -> PageContents]
      /\ \A p \in DataPages : PageOK(disk_pages'[p])
      /\ \A p \in DataPages : disk_total' <= p => disk_pages'[p] = ZeroPage
      /\ FlushedRecordsOnDisk'
  BY <1>1, AllWritten DEF Reopen
<1>3. PagesOK'
  BY <1>1, <1>2 DEF Open, PagesOK
<1> QED BY <1>1, <1>2, <1>3, OpenInv

LEMMA CrashInv ==
  ASSUME FileInv, Crash
  PROVE  FileInv'
<1>1. /\ status = "open" /\ Open /\ UNCHANGED flushed
      /\ disk_total \in 1 .. MaxPages + 1 /\ disk_total \in Nat
  BY DEF Crash, IsOpen, FileInv, TypeOK
<1>2. PICK h, done, cut :
        /\ h \in {header, header_page}
        /\ disk_header' = IF HEADER_PAGE_ID \in done \cup cut THEN h ELSE disk_header
        /\ disk_total' = IF done = {} THEN disk_total ELSE Counted
        /\ disk_pages' = [q \in DataPages |->
             IF q >= disk_total' THEN ZeroPage
             ELSE IF q \in done \cup cut THEN pages[q] ELSE disk_pages[q]]
  <2>1. PICK flushing, done, cut :
          LET h == IF flushing THEN PersistedHeader ELSE header_page IN
          /\ flushing \in BOOLEAN
          /\ disk_header' = IF HEADER_PAGE_ID \in done \cup cut THEN h ELSE disk_header
          /\ disk_total' = IF done = {} THEN disk_total ELSE Counted
          /\ disk_pages' = [q \in DataPages |->
               IF q >= disk_total' THEN ZeroPage
               ELSE IF q \in done \cup cut THEN pages[q] ELSE disk_pages[q]]
    BY DEF Crash
  <2>2. (IF flushing THEN PersistedHeader ELSE header_page) \in {header, header_page}
    BY <1>1, PersistedFacts
  <2> HIDE DEF PersistedHeader
  <2> QED BY <2>1, <2>2
<1> DEFINE S == done \cup cut
           lost == {q \in DataPages : q >= disk_total'}
<1>3. disk_total' \in 1 .. MaxPages + 1 /\ disk_total' \in Nat /\ disk_total <= disk_total'
  BY <1>1, <1>2, CountedFacts
<1>4. /\ disk_header' = IF HEADER_PAGE_ID \in S THEN h ELSE disk_header
      /\ disk_pages' = [q \in DataPages |-> IF q \in lost THEN ZeroPage
                          ELSE IF q \in S THEN pages[q] ELSE disk_pages[q]]
      /\ h \in {header, header_page}
  BY <1>2
<1>5. \A q \in DataPages : q \in lost <=> disk_total' <= q
  BY <1>3, LinkFacts
<1>6. \A q \in DataPages : disk_total' <= q => disk_pages'[q] = ZeroPage
  BY <1>4, <1>5
<1> HIDE DEF S, lost
<1>7. /\ disk_header' \in Headers
      /\ disk_pages' \in [DataPages -> PageContents]
      /\ \A q \in DataPages : PageOK(disk_pages'[q])
      /\ FlushedRecordsOnDisk'
  BY <1>1, <1>3, <1>4, <1>5, WriteOutInv
<1>8. PagesOK'
  BY <1>1, <1>7 DEF Open, PagesOK
<1> QED BY <1>1, <1>3, <1>6, <1>7, <1>8, OpenInv

LEMMA WriteBackInv ==
  ASSUME FileInv, NEW p \in DataPages \cup {HEADER_PAGE_ID}, WriteBack(p)
  PROVE  FileInv'
<1>1. /\ status = "open" /\ MemoryInv /\ TypeOK
      /\ WriteOut({p}, header_page) /\ disk_total' = Counted /\ dirty' = dirty \ {p}
      /\ UNCHANGED <<status, header, header_dirty, header_page, pages, total_pages,
                     file_len, flushed>>
  BY DEF WriteBack, IsOpen, FileInv
<1>2. disk_total' \in disk_total .. total_pages
  BY <1>1, CountedFacts DEF TypeOK
<1>3. /\ header_dirty' \in BOOLEAN /\ (~header_dirty' => header_page = header)
      /\ dirty' \subseteq DataPages \cup {HEADER_PAGE_ID}
      /\ HEADER_PAGE_ID \notin dirty' =>
           HEADER_PAGE_ID \in {p} \/ (disk_header = header_page /\ HEADER_PAGE_ID \notin dirty)
      /\ \A q \in DataPages : q \notin dirty' => q \in {p} \/ q \notin dirty
  BY <1>1 DEF TypeOK, MemoryInv
<1> QED BY <1>1, <1>2, <1>3, WrittenInv

LEMMA EvictionFailsInv ==
  ASSUME FileInv, NEW p \in DataPages \cup {HEADER_PAGE_ID}, EvictionFails(p)
  PROVE  FileInv'
<1>1. /\ status = "open" /\ MemoryInv /\ TypeOK
      /\ UNCHANGED <<status, memory, file_len, flushed>>
  BY DEF EvictionFails, IsOpen, FileInv
<1>2. PICK cut : WriteOut({} \cup cut, header_page) /\ disk_total' \in {disk_total, Counted}
  BY DEF EvictionFails, StopsAfter
<1>3. disk_total' \in disk_total .. total_pages
  BY <1>1, <1>2, CountedFacts DEF TypeOK, FileInv
<1>4. /\ header_dirty' \in BOOLEAN /\ (~header_dirty' => header_page = header)
      /\ dirty' \subseteq DataPages \cup {HEADER_PAGE_ID}
      /\ HEADER_PAGE_ID \notin dirty' => disk_header = header_page /\ HEADER_PAGE_ID \notin dirty
      /\ \A q \in DataPages : q \notin dirty' => q \notin dirty
  BY <1>1 DEF TypeOK, MemoryInv, memory
<1> QED BY <1>1, <1>2, <1>3, <1>4, WrittenInv DEF memory

LEMMA FlushStopsInv ==
  ASSUME FileInv, FlushStops
  PROVE  FileInv'
<1>1. /\ status = "open" /\ MemoryInv /\ TypeOK
      /\ header_page' = PersistedHeader /\ header_dirty' = FALSE
      /\ UNCHANGED <<status, header, pages, total_pages, file_len, flushed>>
  BY DEF FlushStops, IsOpen, FileInv
<1>2. PICK done, cut : /\ StopsAfter(done, cut, PersistedHeader)
                       /\ dirty' = PersistedDirty \ done
  BY DEF FlushStops
<1>3. /\ WriteOut(done \cup cut, header)
      /\ disk_total' \in {disk_total, Counted}
  BY <1>1, <1>2, PersistedFacts DEF StopsAfter
<1>4. disk_total' \in disk_total .. total_pages
  BY <1>1, <1>3, CountedFacts DEF TypeOK, FileInv
<1>5. /\ header_page' = header
      /\ dirty' \subseteq DataPages \cup {HEADER_PAGE_ID}
      /\ \A q \in DataPages : q \notin dirty' => q \in done \cup cut \/ q \notin dirty
      /\ HEADER_PAGE_ID \notin dirty' =>
           HEADER_PAGE_ID \in done \cup cut \/ (disk_header = header /\ HEADER_PAGE_ID \notin dirty)
  BY <1>1, <1>2, PersistedFacts
<1> QED BY <1>1, <1>3, <1>4, <1>5, WrittenInv

-----------------------------------------------------------------------------
LEMMA InitFileInv == Init => FileInv
<1> SUFFICES ASSUME Init PROVE FileInv
  OBVIOUS
<1>1. \A p \in DataPages : PageOK(pages[p]) /\ PageOK(disk_pages[p])
  BY ZeroPageOK DEF Init
<1>2. pages \in [DataPages -> PageContents] /\ disk_pages \in [DataPages -> PageContents]
  BY <1>1 DEF Init, PageOK
<1>3. header \in Headers /\ header_page \in Headers /\ disk_header \in Headers
  BY BoundAssumption DEF Init, Headers
<1>4. TypeOK
  <2>1. {total_pages, disk_total, file_len} \subseteq 1 .. MaxPages + 1
    BY BoundAssumption DEF Init
  <2>2. flushed \in [Rids -> SUBSET Values]
    BY DEF Init
  <2> QED BY <1>2, <1>3, <2>1, <2>2 DEF Init, TypeOK
<1> QED BY <1>1, <1>4 DEF Init, FileInv, PagesOK, FlushedRecordsOnDisk, MemoryInv

LEMMA NextFileInv == FileInv /\ [Next]_vars => FileInv'
<1> SUFFICES ASSUME FileInv, [Next]_vars PROVE FileInv'
  OBVIOUS
<1>0. /\ total_pages \in 1 .. MaxPages + 1 /\ dirty \subseteq DataPages \cup {HEADER_PAGE_ID}
      /\ total_pages <= total_pages
  BY DEF FileInv, TypeOK
<1>1. ASSUME NEW v \in Values, Insert(v) PROVE FileInv'
  BY <1>1, InsertInv
<1>2. CASE InsertFails
  <2>1. header.first_free_page \in DataPages
    BY <1>2 DEF InsertFails, FileInv, TypeOK, Headers
  <2>2. dirty \subseteq dirty' /\ dirty' \subseteq DataPages \cup {HEADER_PAGE_ID}
    BY <1>0, <1>2, <2>1 DEF InsertFails, TouchedBy
  <2> QED BY <1>0, <1>2, <2>2, QuietStep DEF InsertFails
<1>3. ASSUME NEW r \in Rids, Get(r) PROVE FileInv'
  BY <1>0, <1>3, QuietStep DEF Get, memory
<1>4. ASSUME NEW r \in Rids, Refuse(r) PROVE FileInv'
  <2>1. r[1] \in DataPages
    BY DEF Rids
  <2>2. dirty \subseteq dirty' /\ dirty' \subseteq DataPages \cup {HEADER_PAGE_ID}
    BY <1>0, <1>4, <2>1 DEF Refuse, TouchedBy
  <2> QED BY <1>0, <1>4, <2>2, QuietStep DEF Refuse
<1>5. ASSUME NEW r \in Rids, Delete(r) PROVE FileInv'
  BY <1>5, DeleteInv
<1>6. ASSUME NEW r \in Rids, NEW v \in Values, Update(r, v) PROVE FileInv'
  BY <1>6, UpdateInv
<1>7. CASE Scan
  BY <1>0, <1>7, QuietStep DEF Scan, memory
<1>8. ASSUME NEW p \in DataPages \cup {HEADER_PAGE_ID}, WriteBack(p) PROVE FileInv'
  BY <1>8, WriteBackInv
<1>9. CASE Flush
  BY <1>9, FlushInv
<1>10. CASE Reopen
  BY <1>10, ReopenInv
<1>11. CASE FlushStops
  BY <1>11, FlushStopsInv
<1>12. CASE Return
  BY <1>0, <1>12, QuietStep DEF Return, memory
<1>13. CASE Crash
  BY <1>13, CrashInv
<1>14. CASE UNCHANGED vars
  BY <1>0, <1>14, QuietStep DEF vars, memory
<1>15. CASE SetLenFails
  <2>1. total_pages' \in 1 .. MaxPages + 1 /\ total_pages <= total_pages'
    BY <1>0, <1>15, LinkFacts DEF SetLenFails
  <2> QED BY <1>0, <1>15, <2>1, QuietStep DEF SetLenFails
<1>16. ASSUME NEW p \in DataPages \cup {HEADER_PAGE_ID}, EvictionFails(p) PROVE FileInv'
  BY <1>16, EvictionFailsInv
<1> QED
  BY <1>1, <1>2, <1>3, <1>4, <1>5, <1>6, <1>7, <1>8, <1>9, <1>10, <1>11, <1>12, <1>13, <1>14,
     <1>15, <1>16
     DEF Next

THEOREM FileConsistent == Spec => []FileInv
BY InitFileInv, NextFileInv, PTL DEF Spec

(* The values that memory and disk can have, for every fault: in particular *)
(* first_free_page never becomes a marker that is no end of the chain, and  *)
(* insert never counts a page beyond the page file.                         *)
THEOREM RecordTypeCorrect == Spec => []TypeOK
<1>1. FileInv => TypeOK
  BY DEF FileInv
<1> QED BY <1>1, FileConsistent, PTL

(* Flushed records stay in their place on disk through every eviction,      *)
(* later call, failed flush, kill and restart.                              *)
THEOREM FlushedRecordsStay == Spec => []FlushedRecordsOnDisk
<1>1. FileInv => FlushedRecordsOnDisk
  BY DEF FileInv
<1> QED BY <1>1, FileConsistent, PTL

-----------------------------------------------------------------------------
(* The chain of pages with space, as long as the process is not killed.    *)

\* The pages of S are chained in the order s, from the link first on.
IsChain(n, s, S, first, pgs) ==
  /\ n \in Nat /\ s \in [1 .. n -> S]
  /\ \A i, j \in 1 .. n : s[i] = s[j] => i = j
  /\ \A q \in S : \E i \in 1 .. n : s[i] = q
  /\ first = IF n = 0 THEN RECORD_PAGE_LIST_END ELSE s[1]
  /\ \A i \in 1 .. n :
       pgs[s[i]].next_free_page = IF i = n THEN RECORD_PAGE_LIST_END ELSE s[i + 1]

Chained(S, first, pgs) == \E n, s : IsChain(n, s, S, first, pgs)

(* The links of pages outside the chain do not matter to it. *)
LEMMA ChainSame ==
  ASSUME NEW S, NEW first, NEW pgs, NEW new, Chained(S, first, pgs),
         \A q \in S : new[q].next_free_page = pgs[q].next_free_page
  PROVE  Chained(S, first, new)
<1>1. PICK n, s : IsChain(n, s, S, first, pgs)
  BY DEF Chained
<1>2. IsChain(n, s, S, first, new)
  BY <1>1 DEF IsChain
<1> QED BY <1>2 DEF Chained

(* The chain that ends at once is that of no page; a link that is no end    *)
(* leads to a page of the chain.                                            *)
LEMMA ChainStart ==
  ASSUME NEW S \in SUBSET DataPages, NEW first, NEW pgs, Chained(S, first, pgs)
  PROVE  /\ first = RECORD_PAGE_LIST_END <=> S = {}
         /\ first # RECORD_PAGE_LIST_END => first \in S
<1>1. PICK n, s : IsChain(n, s, S, first, pgs)
  BY DEF Chained
<1>2. CASE n = 0
  BY <1>1, <1>2 DEF IsChain
<1>3. CASE n # 0
  <2>1. 1 \in 1 .. n /\ s[1] \in S /\ first = s[1]
    BY <1>1, <1>3 DEF IsChain
  <2> QED BY <2>1, LinkFacts
<1> QED BY <1>2, <1>3

(* The first page leaves, and its link becomes the first. *)
LEMMA ChainLosesFirst ==
  ASSUME NEW S \in SUBSET DataPages, NEW p \in S, NEW pgs, NEW new, Chained(S, p, pgs),
         \A q \in S \ {p} : new[q].next_free_page = pgs[q].next_free_page
  PROVE  Chained(S \ {p}, pgs[p].next_free_page, new)
<1>1. PICK n, s : IsChain(n, s, S, p, pgs)
  BY DEF Chained
<1>2. /\ n \in Nat /\ s \in [1 .. n -> S]
      /\ \A i, j \in 1 .. n : s[i] = s[j] => i = j
      /\ \A q \in S : \E i \in 1 .. n : s[i] = q
      /\ \A i \in 1 .. n :
           pgs[s[i]].next_free_page = IF i = n THEN RECORD_PAGE_LIST_END ELSE s[i + 1]
  BY <1>1 DEF IsChain
<1>3. n # 0 /\ n - 1 \in Nat /\ s[1] = p
  BY <1>1, LinkFacts DEF IsChain
<1> DEFINE t == [i \in 1 .. n - 1 |-> s[i + 1]]
<1>4. \A i \in 1 .. n - 1 : i + 1 \in 2 .. n /\ i + 1 \in 1 .. n /\ t[i] = s[i + 1]
  BY <1>2
<1>5. t \in [1 .. n - 1 -> S \ {p}]
  <2> SUFFICES ASSUME NEW i \in 1 .. n - 1 PROVE s[i + 1] \in S \ {p}
    OBVIOUS
  <2>1. i + 1 \in 1 .. n /\ 1 \in 1 .. n /\ i + 1 # 1
    BY <1>2
  <2> QED BY <1>2, <1>3, <2>1
<1>6. \A i, j \in 1 .. n - 1 : t[i] = t[j] => i = j
  <2> SUFFICES ASSUME NEW i \in 1 .. n - 1, NEW j \in 1 .. n - 1, t[i] = t[j] PROVE i = j
    OBVIOUS
  <2>1. i + 1 = j + 1
    BY <1>2, <1>4
  <2> QED BY <2>1
<1>7. \A q \in S \ {p} : \E i \in 1 .. n - 1 : t[i] = q
  <2> SUFFICES ASSUME NEW q \in S \ {p} PROVE \E i \in 1 .. n - 1 : t[i] = q
    OBVIOUS
  <2>1. PICK k \in 1 .. n : s[k] = q
    BY <1>2
  <2>2. k # 1 /\ k - 1 \in 1 .. n - 1
    BY <1>2, <1>3, <2>1
  <2>3. t[k - 1] = q
    BY <2>1, <2>2
  <2> QED BY <2>2, <2>3
<1>8. pgs[p].next_free_page = IF n - 1 = 0 THEN RECORD_PAGE_LIST_END ELSE t[1]
  <2>1. 1 \in 1 .. n
    BY <1>2, <1>3
  <2>2. pgs[p].next_free_page = IF 1 = n THEN RECORD_PAGE_LIST_END ELSE s[1 + 1]
    BY <1>2, <1>3, <2>1
  <2>3. n - 1 # 0 => t[1] = s[1 + 1]
    BY <1>2, <1>3
  <2>4. n - 1 = 0 <=> 1 = n
    BY <1>2
  <2> QED BY <2>2, <2>3, <2>4
<1>9. \A i \in 1 .. n - 1 :
        new[t[i]].next_free_page = IF i = n - 1 THEN RECORD_PAGE_LIST_END ELSE t[i + 1]
  <2> SUFFICES ASSUME NEW i \in 1 .. n - 1
               PROVE  new[t[i]].next_free_page =
                        IF i = n - 1 THEN RECORD_PAGE_LIST_END ELSE t[i + 1]
    OBVIOUS
  <2>1. t[i] \in S \ {p} /\ t[i] = s[i + 1] /\ i + 1 \in 1 .. n
    BY <1>4, <1>5
  <2>2. new[t[i]].next_free_page = pgs[s[i + 1]].next_free_page
    BY <2>1
  <2>3. pgs[s[i + 1]].next_free_page =
          IF i + 1 = n THEN RECORD_PAGE_LIST_END ELSE s[(i + 1) + 1]
    BY <1>2, <2>1
  <2>4. i # n - 1 => i + 1 \in 1 .. n - 1
    BY <1>2
  <2>5. i # n - 1 => t[i + 1] = s[(i + 1) + 1]
    BY <2>4
  <2> QED BY <1>2, <2>2, <2>3, <2>5
<1> HIDE DEF t
<1>10. IsChain(n - 1, t, S \ {p}, pgs[p].next_free_page, new)
  BY <1>3, <1>5, <1>6, <1>7, <1>8, <1>9 DEF IsChain
<1> QED BY <1>10 DEF Chained

(* A page is put in front: its link is what was the first. *)
LEMMA ChainGetsFirst ==
  ASSUME NEW S \in SUBSET DataPages, NEW p \in DataPages \ S, NEW first, NEW pgs, NEW new,
         Chained(S, first, pgs), new[p].next_free_page = first,
         \A q \in S : new[q].next_free_page = pgs[q].next_free_page
  PROVE  Chained(S \cup {p}, p, new)
<1>1. PICK n, s : IsChain(n, s, S, first, pgs)
  BY DEF Chained
<1>2. /\ n \in Nat /\ s \in [1 .. n -> S]
      /\ \A i, j \in 1 .. n : s[i] = s[j] => i = j
      /\ \A q \in S : \E i \in 1 .. n : s[i] = q
      /\ first = IF n = 0 THEN RECORD_PAGE_LIST_END ELSE s[1]
      /\ \A i \in 1 .. n :
           pgs[s[i]].next_free_page = IF i = n THEN RECORD_PAGE_LIST_END ELSE s[i + 1]
  BY <1>1 DEF IsChain
<1> DEFINE t == [i \in 1 .. n + 1 |-> IF i = 1 THEN p ELSE s[i - 1]]
<1>3. /\ 1 \in 1 .. n + 1 /\ t[1] = p
      /\ \A i \in 2 .. n + 1 : i \in 1 .. n + 1 /\ i - 1 \in 1 .. n /\ t[i] = s[i - 1]
      /\ \A i \in 1 .. n + 1 : i = 1 \/ i \in 2 .. n + 1
  BY <1>2
<1>4. t \in [1 .. n + 1 -> S \cup {p}]
  <2> SUFFICES ASSUME NEW i \in 1 .. n + 1
               PROVE  (IF i = 1 THEN p ELSE s[i - 1]) \in S \cup {p}
    OBVIOUS
  <2> QED BY <1>2, <1>3
<1>5. \A i \in 2 .. n + 1 : t[i] # p
  BY <1>2, <1>3
<1> HIDE DEF t
<1>6. \A i, j \in 1 .. n + 1 : t[i] = t[j] => i = j
  <2> SUFFICES ASSUME NEW i \in 1 .. n + 1, NEW j \in 1 .. n + 1, t[i] = t[j] PROVE i = j
    OBVIOUS
  <2>1. CASE i = 1 \/ j = 1
    BY <1>3, <1>5, <2>1
  <2>2. CASE i # 1 /\ j # 1
    <3>1. i \in 2 .. n + 1 /\ j \in 2 .. n + 1
      BY <1>3, <2>2
    <3>2. i - 1 = j - 1
      BY <1>2, <1>3, <3>1
    <3> QED BY <3>2
  <2> QED BY <2>1, <2>2
<1>7. \A q \in S \cup {p} : \E i \in 1 .. n + 1 : t[i] = q
  <2> SUFFICES ASSUME NEW q \in S PROVE \E i \in 1 .. n + 1 : t[i] = q
    BY <1>3
  <2>1. PICK k \in 1 .. n : s[k] = q
    BY <1>2
  <2>2. k + 1 \in 2 .. n + 1 /\ (k + 1) - 1 = k
    BY <1>2
  <2> QED BY <1>3, <2>1, <2>2
<1>8. \A i \in 1 .. n + 1 :
        new[t[i]].next_free_page = IF i = n + 1 THEN RECORD_PAGE_LIST_END ELSE t[i + 1]
  <2> SUFFICES ASSUME NEW i \in 1 .. n + 1
               PROVE  new[t[i]].next_free_page =
                        IF i = n + 1 THEN RECORD_PAGE_LIST_END ELSE t[i + 1]
    OBVIOUS
  <2>1. CASE i = 1
    <3>1. n # 0 => 2 \in 2 .. n + 1 /\ 2 - 1 = 1 /\ 1 \in 1 .. n
      BY <1>2
    <3>2. n # 0 => t[1 + 1] = s[1]
      BY <1>3, <3>1
    <3> QED BY <1>2, <1>3, <2>1, <3>2
  <2>2. CASE i # 1
    <3>1. i \in 2 .. n + 1 /\ i - 1 \in 1 .. n /\ t[i] = s[i - 1] /\ s[i - 1] \in S
      BY <1>2, <1>3, <2>2
    <3>2. new[t[i]].next_free_page = pgs[s[i - 1]].next_free_page
      BY <3>1
    <3>3. pgs[s[i - 1]].next_free_page =
            IF i - 1 = n THEN RECORD_PAGE_LIST_END ELSE s[(i - 1) + 1]
      BY <1>2, <3>1
    <3>4. i # n + 1 => i + 1 \in 2 .. n + 1 /\ (i + 1) - 1 = (i - 1) + 1
      BY <1>2, <3>1
    <3>5. i # n + 1 => t[i + 1] = s[(i - 1) + 1]
      BY <1>3, <3>4
    <3> QED BY <1>2, <3>1, <3>2, <3>3, <3>5
  <2> QED BY <2>1, <2>2
<1>9. IsChain(n + 1, t, S \cup {p}, p, new)
  BY <1>2, <1>3, <1>4, <1>6, <1>7, <1>8 DEF IsChain
<1> QED BY <1>9 DEF Chained

-----------------------------------------------------------------------------
(* The invariant of a file whose process is not killed and whose set_len    *)
(* does not fail: the page count of the header is that of the page file, the *)
(* pages with space are chained, and the header on its way to disk (in       *)
(* memory, in the pool, on disk) is valid at every station and never counts  *)
(* less than a later one.                                                    *)
ChainInv ==
  /\ status = "open"
  /\ header.num_pages + 1 = total_pages
  /\ file_len = total_pages
  /\ \A p \in Allocated : pages[p].num_slots = SlotsPerPage
  /\ Chained(PagesWithSpace, header.first_free_page, pages)

HeaderInv ==
  /\ disk_header.num_pages <= header_page.num_pages
  /\ header_page.num_pages <= header.num_pages
  /\ HeaderValid(header_page) /\ HeaderValid(disk_header)

HealthyInv == FileInv /\ ChainInv /\ HeaderInv

(* What the chain says of single pages: the header is valid, a page is full *)
(* if and only if it is marked so, and the chain has no other pages.        *)
LEMMA ChainFacts ==
  ASSUME FileInv, ChainInv
  PROVE  /\ HeaderValid(header) /\ MemoryInv /\ header \in Headers
         /\ PagesWithSpace \in SUBSET DataPages
         /\ header.first_free_page = RECORD_PAGE_LIST_END <=> PagesWithSpace = {}
         /\ header.first_free_page # RECORD_PAGE_LIST_END =>
              header.first_free_page \in PagesWithSpace
         /\ \A p \in Allocated : p < total_pages /\ PageOK(pages[p])
<1>1. PagesWithSpace \in SUBSET DataPages /\ PagesWithSpace \subseteq Allocated
  BY DEF PagesWithSpace, Allocated
<1>2. /\ header.first_free_page = RECORD_PAGE_LIST_END <=> PagesWithSpace = {}
      /\ header.first_free_page # RECORD_PAGE_LIST_END =>
           header.first_free_page \in PagesWithSpace
  BY <1>1, ChainStart DEF ChainInv
<1>3. header \in Headers /\ MemoryInv /\ total_pages \in Int
  BY DEF ChainInv, FileInv, TypeOK
<1>4. HeaderValid(header)
  BY <1>1, <1>2 DEF HeaderValid, Allocated
<1>5. \A p \in Allocated : p < total_pages /\ PageOK(pages[p])
  BY <1>3, LinkFacts DEF Allocated, ChainInv, FileInv, PagesOK, Headers
<1> QED BY <1>1, <1>2, <1>3, <1>4, <1>5

(* A step that changes no page and no header in memory. *)
LEMMA ChainQuiet ==
  ASSUME ChainInv, UNCHANGED <<status, header, pages, total_pages, file_len>>
  PROVE  ChainInv'
<1>1. PagesWithSpace' = PagesWithSpace /\ Allocated' = Allocated
  BY DEF PagesWithSpace, Allocated, FreeSlots
<1> QED BY <1>1 DEF ChainInv

(* A step that leaves the headers in the pool and on disk alone. *)
LEMMA HeaderQuiet ==
  ASSUME HealthyInv, UNCHANGED <<header_page, disk_header>>,
         header'.num_pages \in Nat, header.num_pages <= header'.num_pages
  PROVE  HeaderInv'
BY DEF HealthyInv, HeaderInv, FileInv, TypeOK, Headers

(* The page count is written whenever it is not up to date. *)
LEMMA CountedAll ==
  ASSUME HealthyInv
  PROVE  Counted = total_pages
<1>1. /\ file_len = total_pages /\ disk_total <= total_pages
      /\ disk_total \in Nat /\ total_pages \in Nat
  BY DEF HealthyInv, ChainInv, FileInv, TypeOK
<1> QED BY <1>1 DEF Counted, CountDirty

LEMMA InsertChain ==
  ASSUME HealthyInv, NEW v \in Values, Insert(v)
  PROVE  ChainInv' /\ HeaderInv'
<1> DEFINE grow == header.first_free_page = RECORD_PAGE_LIST_END
           p == IF grow THEN total_pages ELSE header.first_free_page
           page == IF grow THEN EmptyPage ELSE pages[p]
           s == Min(FreeSlots(page))
           new == Filled(page, s, v)
           S == PagesWithSpace
           before == [pages EXCEPT ![p] = page]
<1>1. /\ p \in DataPages /\ PageOK(page) /\ page.num_slots = SlotsPerPage
      /\ s \in FreeSlots(page)
  BY InsertPage DEF HealthyInv
<1>2. /\ PageOK(new) /\ new.num_slots = SlotsPerPage
      /\ FreeSlots(new) = {} <=> page.num_free_slots = 1
      /\ page.num_free_slots # 1 => new.next_free_page = page.next_free_page
  BY <1>1, FilledPage
<1>3. /\ pages' = [pages EXCEPT ![p] = new]
      /\ header' = [first_free_page |-> FirstAfterInsert(p, page),
                    num_pages |-> IF grow THEN header.num_pages + 1 ELSE header.num_pages]
      /\ header_dirty' = (header_dirty \/ grow \/ page.num_free_slots = 1)
      /\ dirty' = dirty \cup {p}
      /\ total_pages' = IF grow THEN total_pages + 1 ELSE total_pages
      /\ file_len' = IF grow THEN total_pages + 1 ELSE file_len
      /\ UNCHANGED <<status, header_page, disk_header>>
  BY DEF Insert
<1> HIDE DEF s, new
<1>4. /\ S \in SUBSET DataPages /\ pages \in [DataPages -> PageContents]
      /\ header \in Headers /\ header.num_pages \in Nat /\ total_pages = header.num_pages + 1
      /\ grow <=> S = {}
      /\ ~grow => p \in S
      /\ Chained(S, header.first_free_page, pages)
      /\ p \in Nat
  BY <1>1, ChainFacts, LinkFacts DEF HealthyInv, ChainInv, FileInv, TypeOK, Headers
<1>5. Chained(S \cup {p}, p, before) /\ before[p] = page
  <2>1. before[p] = page
    BY <1>1, <1>4
  <2>2. CASE grow
    <3>1. page.next_free_page = RECORD_PAGE_LIST_END
      BY <2>2, EmptyPageOK
    <3> QED BY <1>1, <1>4, <2>1, <2>2, <3>1, ChainGetsFirst
  <2>3. CASE ~grow
    <3>1. before = pages /\ S \cup {p} = S /\ header.first_free_page = p
      BY <1>4, <2>3
    <3> QED BY <1>4, <2>1, <3>1
  <2> QED BY <2>2, <2>3
<1>6. /\ pages'[p] = new
      /\ \A q \in DataPages : q # p => pages'[q] = before[q] /\ pages'[q] = pages[q]
  BY <1>1, <1>3, <1>4
<1>7. Allocated' = Allocated \cup {p}
  <2>1. \A q \in DataPages : q <= header'.num_pages <=> q <= header.num_pages \/ q = p
    <3> SUFFICES ASSUME NEW q \in DataPages
                 PROVE  q <= header'.num_pages <=> q <= header.num_pages \/ q = p
      OBVIOUS
    <3>1. CASE grow
      BY <1>3, <1>4, <3>1, LinkFacts
    <3>2. CASE ~grow
      <4>1. p <= header.num_pages
        BY <1>4, <3>2 DEF PagesWithSpace, Allocated
      <4> QED BY <1>3, <3>2, <4>1
    <3> QED BY <3>1, <3>2
  <2> QED BY <1>1, <2>1 DEF Allocated
<1>8. PagesWithSpace' = IF page.num_free_slots = 1 THEN S \ {p} ELSE S \cup {p}
  <2>1. PagesWithSpace' = {q \in Allocated' : FreeSlots(pages'[q]) # {}}
    BY DEF PagesWithSpace, FreeSlots
  <2>2. \A q \in Allocated : q # p => pages'[q] = pages[q]
    BY <1>6 DEF Allocated
  <2> QED BY <1>2, <1>6, <1>7, <2>1, <2>2 DEF PagesWithSpace
<1>9. Chained(PagesWithSpace', header'.first_free_page, pages')
  <2>1. CASE page.num_free_slots = 1
    <3>1. header'.first_free_page = before[p].next_free_page
      BY <1>3, <1>5, <2>1 DEF FirstAfterInsert
    <3>2. (S \cup {p}) \ {p} = PagesWithSpace'
      BY <1>8, <2>1
    <3>3. S \cup {p} \in SUBSET DataPages /\ p \in S \cup {p}
      BY <1>1, <1>4
    <3>4. \A q \in (S \cup {p}) \ {p} : pages'[q].next_free_page = before[q].next_free_page
      BY <1>6, <3>3
    <3> HIDE DEF S, p, before
    <3>5. Chained((S \cup {p}) \ {p}, before[p].next_free_page, pages')
      BY <1>5, <3>3, <3>4, ChainLosesFirst
    <3> QED BY <3>1, <3>2, <3>5
  <2>2. CASE page.num_free_slots # 1
    <3>1. header'.first_free_page = p /\ PagesWithSpace' = S \cup {p}
      BY <1>3, <1>8, <2>2 DEF FirstAfterInsert
    <3>2. \A q \in S \cup {p} : pages'[q].next_free_page = before[q].next_free_page
      BY <1>2, <1>4, <1>5, <1>6, <2>2
    <3> HIDE DEF S, p, before
    <3> QED BY <1>5, <3>1, <3>2, ChainSame
  <2> QED BY <2>1, <2>2
<1>10. \A q \in Allocated' : pages'[q].num_slots = SlotsPerPage
  BY <1>2, <1>6, <1>7 DEF HealthyInv, ChainInv, Allocated
<1>11. status' = "open" /\ header'.num_pages + 1 = total_pages' /\ file_len' = total_pages'
  BY <1>3, <1>4 DEF HealthyInv, ChainInv
<1>12. ChainInv'
  BY <1>9, <1>10, <1>11 DEF ChainInv
<1>13. HeaderInv'
  <2>1. header'.num_pages \in Nat /\ header.num_pages <= header'.num_pages
    BY <1>3, <1>4
  <2> QED BY <1>3, <2>1, HeaderQuiet
<1> QED BY <1>12, <1>13

LEMMA UpdateChain ==
  ASSUME HealthyInv, NEW r \in Rids, NEW v \in Values, Update(r, v)
  PROVE  ChainInv' /\ HeaderInv'
<1> DEFINE new == Changed(pages[r[1]], r[2], v)
<1>1. /\ r[1] \in DataPages /\ r[2] \in Slots /\ PageOK(pages[r[1]])
      /\ pages[r[1]].slot[r[2]] # NoRecord
      /\ pages \in [DataPages -> PageContents] /\ PagesWithSpace \in SUBSET DataPages
  BY DEF Rids, Update, Readable, HealthyInv, FileInv, PagesOK, TypeOK, PagesWithSpace, Allocated
<1>2. /\ new.num_slots = pages[r[1]].num_slots /\ FreeSlots(new) = FreeSlots(pages[r[1]])
      /\ new.next_free_page = pages[r[1]].next_free_page
  BY <1>1, ChangedPage
<1>3. pages' = [pages EXCEPT ![r[1]] = new]
  BY DEF Update, Changed
<1>4. UNCHANGED <<status, header, header_dirty, header_page, total_pages, disk>>
      /\ dirty \subseteq dirty'
  BY DEF Update
<1> HIDE DEF new
<1>5. \A q \in DataPages : /\ pages'[q].num_slots = pages[q].num_slots
                           /\ FreeSlots(pages'[q]) = FreeSlots(pages[q])
                           /\ pages'[q].next_free_page = pages[q].next_free_page
  BY <1>1, <1>2, <1>3
<1>6. Allocated' = Allocated
  BY <1>4 DEF Allocated
<1>7. PagesWithSpace' = {q \in Allocated' : FreeSlots(pages'[q]) # {}}
  BY DEF PagesWithSpace, FreeSlots
<1>8. PagesWithSpace' = PagesWithSpace
  BY <1>5, <1>6, <1>7 DEF PagesWithSpace, Allocated
<1>9. Chained(PagesWithSpace, header.first_free_page, pages')
  BY <1>1, <1>5, ChainSame DEF HealthyInv, ChainInv
<1>10. ChainInv'
  BY <1>4, <1>5, <1>6, <1>8, <1>9 DEF HealthyInv, ChainInv, Allocated, disk
<1>11. HeaderInv'
  <2>1. header'.num_pages \in Nat /\ header.num_pages <= header'.num_pages
    BY <1>4 DEF HealthyInv, FileInv, TypeOK, Headers
  <2> QED BY <1>4, <2>1, HeaderQuiet DEF disk
<1> QED BY <1>10, <1>11

LEMMA DeleteChain ==
  ASSUME HealthyInv, NEW r \in Rids, Delete(r)
  PROVE  ChainInv' /\ HeaderInv'
<1> DEFINE p == r[1]
           page == pages[p]
           new == Freed(page, r[2], header.first_free_page)
<1>1. /\ p \in DataPages /\ r[2] \in Slots /\ PageOK(page)
      /\ page.slot[r[2]] # NoRecord /\ page.num_slots = SlotsPerPage
      /\ pages \in [DataPages -> PageContents] /\ PagesWithSpace \in SUBSET DataPages
      /\ header \in Headers /\ p <= header.num_pages
      /\ header.first_free_page \in DataPages \cup {RECORD_PAGE_LIST_END}
  BY DEF Rids, Delete, Readable, PageValid, HealthyInv, FileInv, PagesOK, TypeOK, PagesWithSpace,
         Allocated, Headers
<1>2. /\ new.num_slots = SlotsPerPage /\ FreeSlots(new) # {}
      /\ WasFull(page) <=> FreeSlots(page) = {}
      /\ new.next_free_page = IF WasFull(page) THEN header.first_free_page
                                               ELSE page.next_free_page
  BY <1>1, FreedPage
<1>3. pages' = [pages EXCEPT ![p] = new]
  BY DEF Delete, Freed
<1>4. /\ header' = IF WasFull(page) THEN [header EXCEPT !.first_free_page = p] ELSE header
      /\ header_dirty' = (header_dirty \/ WasFull(page))
      /\ UNCHANGED <<status, header_page, total_pages, disk>> /\ dirty \subseteq dirty'
  BY DEF Delete
<1> HIDE DEF new
<1>5. header'.num_pages = header.num_pages
      /\ header'.first_free_page = IF WasFull(page) THEN p ELSE header.first_free_page
  BY <1>1, <1>4 DEF Headers
<1>6. pages'[p] = new /\ \A q \in DataPages : q # p => pages'[q] = pages[q]
  BY <1>1, <1>3
<1>7. Allocated' = Allocated /\ p \in Allocated
  BY <1>1, <1>5 DEF Allocated
<1>8. PagesWithSpace' = {q \in Allocated' : FreeSlots(pages'[q]) # {}}
  BY DEF PagesWithSpace, FreeSlots
<1>9. PagesWithSpace' = PagesWithSpace \cup {p}
  BY <1>2, <1>6, <1>7, <1>8 DEF PagesWithSpace, Allocated
<1>10. p \in PagesWithSpace <=> ~WasFull(page)
  BY <1>2, <1>7 DEF PagesWithSpace
<1>11. Chained(PagesWithSpace', header'.first_free_page, pages')
  <2>1. Chained(PagesWithSpace, header.first_free_page, pages)
    BY DEF HealthyInv, ChainInv
  <2>2. CASE WasFull(page)
    <3>1. p \in DataPages \ PagesWithSpace /\ pages'[p].next_free_page = header.first_free_page
      BY <1>1, <1>2, <1>6, <1>10, <2>2
    <3>2. \A q \in PagesWithSpace : pages'[q].next_free_page = pages[q].next_free_page
      BY <1>1, <1>6, <3>1
    <3>3. Chained(PagesWithSpace \cup {p}, p, pages')
      BY <1>1, <2>1, <3>1, <3>2, ChainGetsFirst
    <3> QED BY <1>5, <1>9, <2>2, <3>3
  <2>3. CASE ~WasFull(page)
    <3>1. PagesWithSpace' = PagesWithSpace /\ header'.first_free_page = header.first_free_page
      BY <1>5, <1>9, <1>10, <2>3
    <3>2. \A q \in PagesWithSpace : pages'[q].next_free_page = pages[q].next_free_page
      BY <1>1, <1>2, <1>6, <2>3
    <3> QED BY <2>1, <3>1, <3>2, ChainSame
  <2> QED BY <2>2, <2>3
<1>12. \A q \in Allocated' : pages'[q].num_slots = SlotsPerPage
  BY <1>2, <1>6, <1>7 DEF HealthyInv, ChainInv, Allocated
<1>13. ChainInv'
  BY <1>4, <1>5, <1>11, <1>12 DEF HealthyInv, ChainInv, disk
<1>14. HeaderInv'
  <2>1. header'.num_pages \in Nat /\ header.num_pages <= header'.num_pages
    BY <1>1, <1>5 DEF Headers
  <2> QED BY <1>4, <2>1, HeaderQuiet DEF disk
<1> QED BY <1>13, <1>14

(* After a flush or a close the header on disk is that in memory. *)
LEMMA HeaderWritten ==
  ASSUME HealthyInv, WriteOut(PersistedDirty, PersistedHeader), disk_total' = Counted
  PROVE  /\ disk_header' = header /\ disk_total' = total_pages
         /\ \A p \in DataPages : disk_pages'[p] = pages[p]
         /\ Accepted(header, total_pages, file_len)
<1>1. status = "open" /\ FileInv /\ total_pages \in Nat /\ file_len = total_pages
      /\ header.num_pages + 1 = total_pages
  BY DEF HealthyInv, ChainInv, FileInv, TypeOK
<1>2. disk_header' = header /\ \A p \in DataPages : disk_pages'[p] = pages[p]
  BY <1>1, AllWritten
<1>3. HeaderValid(header)
  BY ChainFacts DEF HealthyInv
<1> QED BY <1>1, <1>2, <1>3, CountedAll DEF Accepted, PagesExist

LEMMA FlushChain ==
  ASSUME HealthyInv, Flush
  PROVE  ChainInv' /\ HeaderInv'
<1>1. /\ UNCHANGED <<status, header, pages, total_pages, file_len>>
      /\ header_page' = PersistedHeader
  BY DEF Flush
<1>2. ChainInv'
  BY <1>1, ChainQuiet DEF HealthyInv
<1>3. header_page' = header /\ header \in Headers
  BY <1>1, PersistedFacts DEF HealthyInv, ChainInv
<1>4. disk_header' = header /\ HeaderValid(header)
  BY HeaderWritten DEF Flush, Accepted
<1> QED BY <1>1, <1>2, <1>3, <1>4 DEF HeaderInv, Headers

LEMMA ReopenChain ==
  ASSUME HealthyInv, Reopen
  PROVE  ChainInv' /\ HeaderInv'
<1>1. Open /\ file_len = total_pages /\ header \in Headers /\ total_pages \in Nat
  BY DEF Reopen, HealthyInv, ChainInv, FileInv, TypeOK
<1>2. /\ disk_header' = header /\ disk_total' = total_pages
      /\ \A p \in DataPages : disk_pages'[p] = pages[p]
      /\ Accepted(header, total_pages, file_len)
  BY HeaderWritten DEF Reopen
<1>3. /\ status' = "open" /\ header' = header /\ header_page' = header
      /\ pages' = disk_pages' /\ total_pages' = total_pages /\ file_len' = total_pages
  BY <1>1, <1>2 DEF Open
<1>4. \A p \in Allocated : pages'[p] = pages[p]
  BY <1>2, <1>3 DEF Allocated
<1>5. Allocated' = Allocated
  BY <1>3 DEF Allocated
<1>6. PagesWithSpace' = {q \in Allocated' : FreeSlots(pages'[q]) # {}}
  BY DEF PagesWithSpace, FreeSlots
<1>7. PagesWithSpace' = PagesWithSpace /\ PagesWithSpace \subseteq Allocated
  BY <1>4, <1>5, <1>6 DEF PagesWithSpace
<1>8. Chained(PagesWithSpace, header.first_free_page, pages')
  BY <1>4, <1>7, ChainSame DEF HealthyInv, ChainInv
<1>9. ChainInv'
  BY <1>3, <1>4, <1>5, <1>7, <1>8 DEF HealthyInv, ChainInv
<1>10. HeaderInv'
  BY <1>1, <1>2, <1>3 DEF HeaderInv, Accepted, Headers
<1> QED BY <1>9, <1>10

(* A write-back, complete or not, puts on disk the header of the pool. *)
LEMMA WritingChain ==
  ASSUME HealthyInv, UNCHANGED <<status, header, header_page, pages, total_pages, file_len>>,
         disk_header' \in {disk_header, header_page}
  PROVE  ChainInv' /\ HeaderInv'
<1>1. ChainInv'
  BY ChainQuiet DEF HealthyInv
<1>2. HeaderInv'
  BY DEF HealthyInv, HeaderInv, FileInv, TypeOK, Headers
<1> QED BY <1>1, <1>2

LEMMA FlushStopsChain ==
  ASSUME HealthyInv, FlushStops
  PROVE  ChainInv' /\ HeaderInv'
<1>1. /\ UNCHANGED <<status, header, pages, total_pages, file_len>>
      /\ header_page' = header
      /\ disk_header' \in {disk_header, header}
  BY PersistedFacts DEF FlushStops, StopsAfter, WriteOut, HealthyInv, ChainInv
<1>2. ChainInv'
  BY <1>1, ChainQuiet DEF HealthyInv
<1>3. /\ disk_header.num_pages <= header.num_pages
      /\ header.num_pages <= header.num_pages
  BY DEF HealthyInv, HeaderInv, FileInv, TypeOK, Headers
<1>4. HeaderValid(header)
  BY ChainFacts DEF HealthyInv
<1>5. HeaderInv'
  BY <1>1, <1>3, <1>4 DEF HealthyInv, HeaderInv
<1> QED BY <1>2, <1>5

(* A call that changes nothing but its answer, and what pages are dirty. *)
LEMMA QuietChain ==
  ASSUME HealthyInv, UNCHANGED <<status, header, header_page, pages, total_pages, disk>>
  PROVE  ChainInv' /\ HeaderInv'
BY WritingChain DEF disk

-----------------------------------------------------------------------------
LEMMA InitHealthy == Init => HealthyInv
<1> SUFFICES ASSUME Init PROVE HealthyInv
  OBVIOUS
<1>1. FileInv
  BY InitFileInv
<1>2. Allocated = {} /\ PagesWithSpace = {}
  BY LinkFacts DEF Init, Allocated, PagesWithSpace
<1>3. Chained(PagesWithSpace, header.first_free_page, pages)
  <2> DEFINE s == [i \in 1 .. 0 |-> 0]
  <2>1. 1 .. 0 = {}
    OBVIOUS
  <2>2. s \in [1 .. 0 -> {}]
    BY <2>1
  <2>3. header.first_free_page = RECORD_PAGE_LIST_END
    BY DEF Init
  <2> HIDE DEF s
  <2>4. IsChain(0, s, {}, RECORD_PAGE_LIST_END, pages)
    BY <2>1, <2>2 DEF IsChain
  <2> QED BY <1>2, <2>3, <2>4 DEF Chained
<1>4. ChainInv
  BY <1>2, <1>3 DEF Init, ChainInv
<1>5. HeaderInv
  BY DEF Init, HeaderInv, HeaderValid
<1> QED BY <1>1, <1>4, <1>5 DEF HealthyInv

LEMMA NextHealthy == Faults \subseteq {"write"} /\ HealthyInv /\ [Next]_vars => HealthyInv'
<1> SUFFICES ASSUME Faults \subseteq {"write"}, HealthyInv, [Next]_vars
             PROVE  ChainInv' /\ HeaderInv'
  BY NextFileInv DEF HealthyInv
<1>1. ASSUME NEW v \in Values, Insert(v) PROVE ChainInv' /\ HeaderInv'
  BY <1>1, InsertChain
<1>2. CASE InsertFails
  BY <1>2, QuietChain DEF InsertFails
<1>3. ASSUME NEW r \in Rids, Get(r) PROVE ChainInv' /\ HeaderInv'
  BY <1>3, QuietChain DEF Get, memory
<1>4. ASSUME NEW r \in Rids, Refuse(r) PROVE ChainInv' /\ HeaderInv'
  BY <1>4, QuietChain DEF Refuse
<1>5. ASSUME NEW r \in Rids, Delete(r) PROVE ChainInv' /\ HeaderInv'
  BY <1>5, DeleteChain
<1>6. ASSUME NEW r \in Rids, NEW v \in Values, Update(r, v) PROVE ChainInv' /\ HeaderInv'
  BY <1>6, UpdateChain
<1>7. CASE Scan
  BY <1>7, QuietChain DEF Scan, memory
<1>8. ASSUME NEW p \in DataPages \cup {HEADER_PAGE_ID}, WriteBack(p)
      PROVE  ChainInv' /\ HeaderInv'
  BY <1>8, WritingChain DEF WriteBack, WriteOut
<1>9. CASE Flush
  BY <1>9, FlushChain
<1>10. CASE Reopen
  BY <1>10, ReopenChain
<1>11. CASE FlushStops
  BY <1>11, FlushStopsChain
<1>12. CASE Return
  BY <1>12, QuietChain DEF Return, memory
<1>13. ~Crash /\ ~SetLenFails
  BY DEF Crash, SetLenFails
<1>14. CASE UNCHANGED vars
  BY <1>14, QuietChain DEF vars, memory
<1>15. ASSUME NEW p \in DataPages \cup {HEADER_PAGE_ID}, EvictionFails(p)
       PROVE  ChainInv' /\ HeaderInv'
  BY <1>15, WritingChain DEF EvictionFails, StopsAfter, WriteOut, memory
<1> QED
  BY <1>1, <1>2, <1>3, <1>4, <1>5, <1>6, <1>7, <1>8, <1>9, <1>10, <1>11, <1>12, <1>13,
     <1>14, <1>15 DEF Next

LEMMA Healthy ==
  ASSUME Faults \subseteq {"write"}
  PROVE  Spec => []HealthyInv
BY InitHealthy, NextHealthy, PTL DEF Spec

(* A chain as FreePagesChained has it: a sequence without repetitions. *)
LEMMA ChainIsSequence ==
  ASSUME FileInv, NEW n, NEW s, IsChain(n, s, PagesWithSpace, header.first_free_page, pages)
  PROVE  /\ n \in 0 .. MaxPages /\ s \in Injection(1 .. n, PagesWithSpace)
         /\ Range(s) = PagesWithSpace
         /\ Chains(s)
<1>1. n \in Nat /\ s \in [1 .. n -> PagesWithSpace]
      /\ \A i, j \in 1 .. n : s[i] = s[j] => i = j
  BY DEF IsChain
<1>2. s \in Injection(1 .. n, PagesWithSpace)
  BY <1>1 DEF Injection, IsInjective
<1>3. n \in 0 .. MaxPages
  <2>1. IsFiniteSet(DataPages) /\ Cardinality(DataPages) = MaxPages
    BY BoundAssumption, FS_Interval DEF DataPages
  <2>2. PagesWithSpace \in SUBSET DataPages
    BY DEF PagesWithSpace, Allocated
  <2>3. IsFiniteSet(PagesWithSpace) /\ Cardinality(PagesWithSpace) <= MaxPages
    BY <2>1, <2>2, FS_Subset
  <2>4. Cardinality(1 .. n) <= Cardinality(PagesWithSpace) /\ Cardinality(1 .. n) = n
    BY <1>1, <1>2, <2>3, FS_Injection, FS_Interval
  <2>5. Cardinality(PagesWithSpace) \in Nat
    BY <2>3, FS_CardinalityType
  <2> QED BY <1>1, <2>3, <2>4, <2>5, BoundAssumption
<1>4. Range(s) = PagesWithSpace
  <2>1. Range(s) = {s[i] : i \in 1 .. n}
    BY <1>1 DEF Range
  <2> QED BY <1>1, <2>1 DEF IsChain
<1>5. s \in Seq(PagesWithSpace) /\ Len(s) = n
  BY <1>1
<1>6. s = <<>> <=> n = 0
  BY <1>5
<1>7. Chains(s)
  BY <1>5, <1>6 DEF Chains, IsChain
<1> QED BY <1>2, <1>3, <1>4, <1>7

(* Whatever writes fail, as long as the process is not killed and set_len    *)
(* does not fail: the pages with free slots are chained, each of them once,  *)
(* and no others, and insert finds space wherever there is some.             *)
THEOREM ChainIsExact ==
  ASSUME Faults \subseteq {"write"}
  PROVE  Spec => []FreePagesChained
<1>1. HealthyInv => FreePagesChained
  <2> SUFFICES ASSUME HealthyInv PROVE FreePagesChained
    OBVIOUS
  <2>1. PICK n, s : IsChain(n, s, PagesWithSpace, header.first_free_page, pages)
    BY DEF HealthyInv, ChainInv, Chained
  <2>2. /\ n \in 0 .. MaxPages /\ s \in Injection(1 .. n, PagesWithSpace)
        /\ Range(s) = PagesWithSpace /\ Chains(s)
    BY <2>1, ChainIsSequence DEF HealthyInv
  <2>3. ASSUME NEW p \in Allocated
        PROVE  /\ pages[p].num_free_slots = Cardinality(FreeSlots(pages[p]))
               /\ p \notin PagesWithSpace => pages[p].next_free_page = RECORD_PAGE_FULL
    <3>1. PageOK(pages[p]) /\ pages[p].num_slots = SlotsPerPage
      BY ChainFacts DEF HealthyInv, ChainInv
    <3>2. p \notin PagesWithSpace => FreeSlots(pages[p]) = {}
      BY DEF PagesWithSpace
    <3> QED BY <3>1, <3>2, FreeSlotsFinite DEF PageOK
  <2> QED BY <2>2, <2>3 DEF FreePagesChained
<1> QED BY <1>1, Healthy, PTL

(* Whatever writes of pages, of page counts or of flushes fail, as long as   *)
(* the process is not killed and set_len does not fail: the disk alone is a  *)
(* file that open accepts and that has every flushed record within reach of  *)
(* get, except while the page file knows that its page count on disk is too  *)
(* small; a close then writes it.                                            *)
THEOREM FlushedStayReadable ==
  ASSUME Faults \subseteq {"write"}
  PROVE  Spec => []FlushedRecordsReadable
<1>1. HealthyInv => FlushedRecordsReadable
  <2> SUFFICES ASSUME HealthyInv PROVE FlushedRecordsReadable
    OBVIOUS
  <2>1. /\ disk_header.num_pages + 1 <= total_pages /\ file_len = total_pages
        /\ disk_total \in Nat /\ total_pages \in Nat
    <3>1. /\ disk_header.num_pages \in Nat /\ header_page.num_pages \in Nat
          /\ header.num_pages \in Nat
          /\ total_pages \in Nat /\ disk_total \in Nat
      BY DEF HealthyInv, FileInv, TypeOK, Headers
    <3>2. /\ disk_header.num_pages <= header_page.num_pages
          /\ header_page.num_pages <= header.num_pages
          /\ header.num_pages + 1 = total_pages /\ file_len = total_pages
      BY DEF HealthyInv, HeaderInv, ChainInv
    <3> QED BY <3>1, <3>2
  <2>2. PICK a : a = disk_header.num_pages + 1
    OBVIOUS
  <2>3. a \in Nat /\ a <= total_pages
    BY <2>1, <2>2 DEF HealthyInv, FileInv, TypeOK, Headers
  <2>4. a <= disk_total \/ disk_total < file_len
    BY <2>1, <2>3
  <2>5. PagesExist(disk_header, disk_total) \/ CountDirty
    BY <2>2, <2>4 DEF PagesExist, CountDirty
  <2> QED BY <2>5 DEF HealthyInv, ChainInv, HeaderInv, FileInv, FlushedRecordsReadable
<1> QED BY <1>1, Healthy, PTL

-----------------------------------------------------------------------------
(* What a scan returns: the cursor is at every slot once, in order, and the *)
(* records it passes are counted off in the order of RecordStore.          *)

(* The quotient and the rest of a division, and that there are no others. *)
LEMMA Division ==
  ASSUME NEW a \in Nat, NEW k \in Nat \ {0}
  PROVE  /\ a \div k \in Nat /\ a % k \in 0 .. k - 1
         /\ a = (a \div k) * k + (a % k)
OBVIOUS

LEMMA DivisionUnique ==
  ASSUME NEW k \in Nat \ {0}, NEW q \in Nat, NEW r \in 0 .. k - 1, NEW p \in Nat, NEW s \in 0 .. k - 1,
         q * k + r < p * k + s
  PROVE  q < p \/ (q = p /\ r < s)
<1>1. ASSUME q > p PROVE FALSE
  <2>1. PICK d \in Nat : q = p + 1 + d
    <3>1. q - p - 1 \in Nat /\ q = p + 1 + (q - p - 1)
      BY <1>1
    <3> QED BY <3>1
  <2>2. q * k = p * k + k + d * k /\ d * k \in Nat /\ p * k \in Nat
    BY <2>1
  <2> QED BY <2>2
<1>2. ASSUME q = p PROVE r < s
  BY <1>2
<1> QED BY <1>1, <1>2

LEMMA QuotientUnique ==
  ASSUME NEW k \in Nat \ {0}, NEW q \in Nat, NEW r \in 0 .. k - 1, NEW p \in Nat, NEW s \in 0 .. k - 1,
         q * k + r = p * k + s
  PROVE  q = p /\ r = s
<1>1. ASSUME NEW x \in Nat, NEW y \in Nat, NEW a \in 0 .. k - 1, NEW b \in 0 .. k - 1,
             x * k + a = y * k + b
      PROVE  ~(x < y)
  <2> SUFFICES ASSUME x < y PROVE FALSE
    OBVIOUS
  <2>1. PICK d \in Nat : y = x + 1 + d
    <3>1. y - x - 1 \in Nat /\ y = x + 1 + (y - x - 1)
      OBVIOUS
    <3> QED BY <3>1
  <2>2. y * k = x * k + k + d * k /\ d * k \in Nat /\ x * k \in Nat
    BY <2>1
  <2> QED BY <1>1, <2>2
<1>2. ~(q < p) /\ ~(p < q)
  BY <1>1
<1> QED BY <1>2

(* The cursor is at every slot of every page once, in the order of a scan. *)
LEMMA CursorInOrder ==
  ASSUME header.num_pages \in 0 .. MaxPages
  PROVE  LET count == header.num_pages * SlotsPerPage IN
         /\ count \in Nat /\ Cursor \in [1 .. count -> Rids] /\ Len(Cursor) = count
         /\ \A i \in 1 .. count : Cursor[i][1] <= header.num_pages
         /\ \A i, j \in 1 .. count : i < j => RS!Before(Cursor[i], Cursor[j])
         /\ \A r \in Rids : r[1] <= header.num_pages => \E i \in 1 .. count : Cursor[i] = r
<1> DEFINE K == SlotsPerPage
           N == header.num_pages
           count == N * K
<1>1. K \in Nat \ {0} /\ N \in Nat /\ MaxPages \in Nat /\ N <= MaxPages
  BY BoundAssumption
<1> HIDE DEF K, N
<1>2. count \in Nat
  BY <1>1
<1>3. Cursor = [i \in 1 .. count |-> <<(i - 1) \div K + 1, (i - 1) % K>>]
  BY DEF Cursor, K, N
<1> HIDE DEF count
<1>4. ASSUME NEW i \in 1 .. count
      PROVE  /\ Cursor[i] = <<(i - 1) \div K + 1, (i - 1) % K>>
             /\ (i - 1) \div K \in Nat /\ (i - 1) % K \in 0 .. K - 1
             /\ i - 1 = ((i - 1) \div K) * K + ((i - 1) % K)
             /\ (i - 1) \div K + 1 <= N
  <2>1. i - 1 \in Nat
    BY <1>2
  <2>2. /\ (i - 1) \div K \in Nat /\ (i - 1) % K \in 0 .. K - 1
        /\ i - 1 = ((i - 1) \div K) * K + ((i - 1) % K)
    BY <1>1, <2>1, Division
  <2>3. PICK q \in Nat : q = (i - 1) \div K
    BY <2>2
  <2>4. PICK r \in 0 .. K - 1 : r = (i - 1) % K
    BY <2>2
  <2>5. q * K + r < N * K + 0
    BY <1>1, <1>2, <2>2, <2>3, <2>4 DEF count
  <2>6. q < N
    BY <1>1, <2>5, DivisionUnique
  <2> QED BY <1>1, <1>3, <2>2, <2>3, <2>6
<1>5. ASSUME NEW i \in 1 .. count
      PROVE  Cursor[i] \in Rids /\ Cursor[i][1] <= N
  <2>1. PICK p \in 1 .. MaxPages, t \in 0 .. K - 1 : Cursor[i] = <<p, t>> /\ p <= N
    BY <1>1, <1>4
  <2> QED BY <2>1 DEF Rids, DataPages, Slots, K
<1>6. ASSUME NEW i \in 1 .. count, NEW j \in 1 .. count, i < j
      PROVE  RS!Before(Cursor[i], Cursor[j])
  <2>1. PICK q \in Nat, r \in 0 .. K - 1 : i - 1 = q * K + r /\ Cursor[i] = <<q + 1, r>>
    BY <1>4
  <2>2. PICK p \in Nat, s \in 0 .. K - 1 : j - 1 = p * K + s /\ Cursor[j] = <<p + 1, s>>
    BY <1>4
  <2>3. q * K + r < p * K + s
    BY <1>2, <1>6, <2>1, <2>2
  <2>4. q < p \/ (q = p /\ r < s)
    BY <1>1, <2>3, DivisionUnique
  <2> QED BY <2>1, <2>2, <2>4 DEF RS!Before
<1>7. ASSUME NEW r \in Rids, r[1] <= N
      PROVE  \E i \in 1 .. count : Cursor[i] = r
  <2>1. PICK p \in 1 .. MaxPages, s \in 0 .. K - 1 : r = <<p, s>>
    BY DEF Rids, DataPages, Slots, K
  <2>2. PICK a \in Nat : a = (p - 1) * K + s /\ a < N * K
    <3>1. PICK d \in Nat : N = p + d
      <4>1. N - p \in Nat /\ N = p + (N - p)
        BY <1>1, <1>7, <2>1
      <4> QED BY <4>1
    <3>2. (p - 1) * K \in Nat /\ d * K \in Nat /\ N * K = (p - 1) * K + K + d * K
      BY <1>1, <3>1
    <3> QED BY <1>1, <3>2
  <2>3. a + 1 \in 1 .. count /\ a + 1 - 1 = a
    BY <1>2, <2>2 DEF count
  <2>4. PICK q \in Nat, t \in 0 .. K - 1 : a = q * K + t /\ Cursor[a + 1] = <<q + 1, t>>
    BY <1>4, <2>3
  <2>5. p - 1 \in Nat
    OBVIOUS
  <2>6. q = p - 1 /\ t = s
    BY <1>1, <2>2, <2>4, <2>5, QuotientUnique
  <2> QED BY <2>1, <2>3, <2>4, <2>6
<1>8. Cursor \in [1 .. count -> Rids] /\ Len(Cursor) = count
  BY <1>2, <1>3, <1>5
<1> QED BY <1>2, <1>5, <1>6, <1>7, <1>8 DEF count, K, N

\* The entry that next_record returns at the n-th position of the cursor.
Entry(n) == <<Cursor[n], pages[Cursor[n][1]].slot[Cursor[n][2]]>>

(* What has been returned after n positions, and what one more adds. *)
LEMMA ReturnedStepwise ==
  /\ Returned[0] = <<>>
  /\ \A n \in Nat : Returned[n + 1] = IF Readable(Cursor[n + 1]) THEN Append(Returned[n], Entry(n + 1))
                                                               ELSE Returned[n]
<1> DEFINE Is(f) == f = [n \in Nat |->
                           IF n = 0 THEN <<>>
                           ELSE LET r == Cursor[n] IN
                                IF Readable(r) THEN Append(f[n - 1], <<r, pages[r[1]].slot[r[2]]>>)
                                               ELSE f[n - 1]]
           S == Seq({Entry(n) : n \in Nat})
           step == [x \in Nat \X S |-> IF Readable(Cursor[x[1] + 1]) THEN Append(x[2], Entry(x[1] + 1))
                                                                   ELSE x[2]]
<1>1. <<>> \in S /\ step \in [Nat \X S -> S]
  <2>1. <<>> \in S
    OBVIOUS
  <2>2. ASSUME NEW n \in Nat, NEW s \in S
        PROVE  (IF Readable(Cursor[n + 1]) THEN Append(s, Entry(n + 1)) ELSE s) \in S
    <3>1. Entry(n + 1) \in {Entry(m) : m \in Nat}
      OBVIOUS
    <3> HIDE DEF Entry
    <3> QED BY <3>1
  <2> HIDE DEF S, Entry
  <2> QED BY <2>1, <2>2
<1> HIDE DEF S
<1>2. PICK g \in [Nat -> S] : g[0] = <<>> /\ \A n \in Nat : g[n + 1] = step[<<n, g[n]>>]
  <2> HIDE DEF step
  <2>1. PICK base \in S : base = <<>>
    BY <1>1
  <2>2. step \in Steps(S)
    BY <1>1 DEF Steps
  <2>3. PICK g : Recurs(g, S, base, step)
    BY <2>2, RecursionDefines
  <2> QED BY <2>1, <2>3 DEF Recurs
<1>3. \A n \in Nat : g[n + 1] = IF Readable(Cursor[n + 1]) THEN Append(g[n], Entry(n + 1)) ELSE g[n]
  BY <1>2
<1>4. Is(g)
  <2>1. ASSUME NEW n \in Nat, n # 0
        PROVE  g[n] = IF Readable(Cursor[n]) THEN Append(g[n - 1], Entry(n)) ELSE g[n - 1]
    <3>1. n - 1 \in Nat /\ n - 1 + 1 = n
      BY <2>1
    <3> QED BY <1>3, <3>1
  <2> QED BY <1>2, <2>1 DEF Entry
<1>5. Returned = CHOOSE f : Is(f)
  BY DEF Returned
<1> HIDE DEF Is
<1>6. Is(Returned)
  BY <1>4, <1>5
<1>7. Returned = [n \in Nat |-> IF n = 0 THEN <<>>
                              ELSE IF Readable(Cursor[n]) THEN Append(Returned[n - 1], Entry(n))
                                                          ELSE Returned[n - 1]]
  BY <1>6 DEF Is, Entry
<1>8. ASSUME NEW n \in Nat
      PROVE  Returned[n + 1] = IF Readable(Cursor[n + 1]) THEN Append(Returned[n], Entry(n + 1))
                                                          ELSE Returned[n]
  <2> HIDE DEF Entry
  <2>1. PICK m \in Nat : m = n + 1 /\ m # 0 /\ m - 1 = n
    OBVIOUS
  <2>2. Returned[m] = IF Readable(Cursor[m]) THEN Append(Returned[m - 1], Entry(m))
                                             ELSE Returned[m - 1]
    BY <1>7, <2>1
  <2> QED BY <2>1, <2>2
<1> QED BY <1>7, <1>8

(* A set that is counted off from 1 to n has n elements. *)
LEMMA CountedOff ==
  ASSUME NEW n \in Nat, NEW T, NEW e \in [1 .. n -> T],
         \A i, j \in 1 .. n : e[i] = e[j] => i = j,
         \A t \in T : \E i \in 1 .. n : e[i] = t
  PROVE  IsFiniteSet(T) /\ Cardinality(T) = n
<1>1. e \in Bijection(1 .. n, T)
  BY DEF Bijection, Injection, Surjection, IsInjective
<1>2. IsFiniteSet(1 .. n) /\ Cardinality(1 .. n) = n
  BY FS_Interval
<1>3. ExistsBijection(1 .. n, T)
  BY <1>1 DEF ExistsBijection
<1> QED BY <1>2, <1>3, FS_Bijection

\* order has all of L, each behind those that come before it.
InOrder(n, order, L) ==
  /\ order \in [1 .. n -> L]
  /\ \A i, j \in 1 .. n : i < j => RS!Before(order[i], order[j])
  /\ \A r \in L : \E i \in 1 .. n : order[i] = r

(* Then it is the order by the number of those before. *)
LEMMA OrderCounted ==
  ASSUME NEW L \in SUBSET Rids, NEW n \in Nat, NEW order, InOrder(n, order, L)
  PROVE  /\ IsFiniteSet(L) /\ Cardinality(L) = n
         /\ \A i \in 1 .. n :
              order[i] = CHOOSE r \in L : Cardinality({s \in L : RS!Before(s, r)}) = i - 1
<1>1. /\ order \in [1 .. n -> L]
      /\ \A i, j \in 1 .. n : i < j => RS!Before(order[i], order[j])
      /\ \A r \in L : \E i \in 1 .. n : order[i] = r
  BY DEF InOrder
<1>2. ASSUME NEW r \in L, NEW s \in L
      PROVE  ~(RS!Before(r, s) /\ RS!Before(s, r)) /\ ~RS!Before(r, r)
  BY DEF RS!Before, Rids, DataPages, Slots
<1>3. \A i, j \in 1 .. n : RS!Before(order[i], order[j]) <=> i < j
  <2> SUFFICES ASSUME NEW i \in 1 .. n, NEW j \in 1 .. n, RS!Before(order[i], order[j])
               PROVE  i < j
    BY <1>1
  <2>1. order[i] \in L /\ order[j] \in L
    BY <1>1
  <2>2. ~(j < i)
    BY <1>1, <1>2, <2>1
  <2>3. i # j
    BY <1>2, <2>1
  <2> QED BY <2>2, <2>3
<1>4. \A i, j \in 1 .. n : order[i] = order[j] => i = j
  <2> SUFFICES ASSUME NEW i \in 1 .. n, NEW j \in 1 .. n, order[i] = order[j] PROVE i = j
    OBVIOUS
  <2>1. ~RS!Before(order[i], order[j]) /\ ~RS!Before(order[j], order[i])
    BY <1>1, <1>2
  <2>2. ~(i < j) /\ ~(j < i)
    BY <1>1, <2>1
  <2> QED BY <2>2
<1>5. IsFiniteSet(L) /\ Cardinality(L) = n
  BY <1>1, <1>4, CountedOff
<1>6. ASSUME NEW i \in 1 .. n
      PROVE  Cardinality({s \in L : RS!Before(s, order[i])}) = i - 1
  <2> DEFINE T == {s \in L : RS!Before(s, order[i])}
             first == [j \in 1 .. i - 1 |-> order[j]]
  <2>1. i - 1 \in Nat /\ \A j \in 1 .. i - 1 : j \in 1 .. n /\ j < i
    OBVIOUS
  <2>2. first \in [1 .. i - 1 -> T]
    BY <1>1, <2>1
  <2>3. \A j, k \in 1 .. i - 1 : first[j] = first[k] => j = k
    BY <1>4, <2>1
  <2>4. ASSUME NEW t \in T PROVE \E j \in 1 .. i - 1 : first[j] = t
    <3>1. PICK j \in 1 .. n : order[j] = t
      BY <1>1
    <3>2. j < i
      BY <1>3, <3>1
    <3> QED BY <3>1, <3>2
  <2> HIDE DEF T, first
  <2>5. Cardinality(T) = i - 1
    BY <2>1, <2>2, <2>3, <2>4, CountedOff
  <2> QED BY <2>5 DEF T
<1>7. ASSUME NEW i \in 1 .. n
      PROVE  order[i] = CHOOSE r \in L : Cardinality({s \in L : RS!Before(s, r)}) = i - 1
  <2> DEFINE P(r) == Cardinality({s \in L : RS!Before(s, r)}) = i - 1
  <2>1. order[i] \in L /\ P(order[i])
    BY <1>1, <1>6
  <2>2. ASSUME NEW r \in L, P(r) PROVE r = order[i]
    <3>1. PICK j \in 1 .. n : order[j] = r
      BY <1>1
    <3>2. Cardinality({s \in L : RS!Before(s, r)}) = j - 1
      BY <1>6, <3>1
    <3> QED BY <2>2, <3>1, <3>2
  <2> HIDE DEF P
  <2>3. order[i] = CHOOSE r \in L : P(r)
    BY <2>1, <2>2
  <2> QED BY <2>3 DEF P
<1> QED BY <1>5, <1>7

\* s is what a scan has returned of the first n positions.
Listing(n, s) ==
  /\ s \in Seq({Entry(m) : m \in Nat})
  /\ \A i \in 1 .. Len(s) : \E m \in 1 .. n : Readable(Cursor[m]) /\ s[i] = Entry(m)
  /\ \A i, j \in 1 .. Len(s) : i < j => RS!Before(s[i][1], s[j][1])
  /\ \A m \in 1 .. n : Readable(Cursor[m]) => \E i \in 1 .. Len(s) : s[i] = Entry(m)

(* Every used slot of the positions so far has been returned once, in order. *)
LEMMA ReturnedListing ==
  ASSUME header.num_pages \in 0 .. MaxPages
  PROVE  \A n \in 0 .. header.num_pages * SlotsPerPage : Listing(n, Returned[n])
<1> DEFINE count == header.num_pages * SlotsPerPage
           T == {n \in Nat : n <= count => Listing(n, Returned[n])}
<1>1. /\ count \in Nat /\ Cursor \in [1 .. count -> Rids] /\ Len(Cursor) = count
      /\ \A i, j \in 1 .. count : i < j => RS!Before(Cursor[i], Cursor[j])
  BY CursorInOrder
<1> HIDE DEF count
<1>2. 0 \in T
  <2>1. Listing(0, <<>>)
    BY DEF Listing
  <2> QED BY <2>1, ReturnedStepwise
<1>3. ASSUME NEW n \in Nat, n \in T PROVE n + 1 \in T
  <2> SUFFICES ASSUME n + 1 <= count PROVE Listing(n + 1, Returned[n + 1])
    OBVIOUS
  <2>1. PICK s : s = Returned[n]
    OBVIOUS
  <2>2. Listing(n, s)
    BY <1>1, <1>3, <2>1
  <2>3. PICK m \in 1 .. count : m = n + 1
    BY <1>1
  <2>4. CASE ~Readable(Cursor[m])
    <3>1. Returned[n + 1] = s
      BY <2>1, <2>3, <2>4, ReturnedStepwise
    <3>2. \A k \in 1 .. n + 1 : k \in 1 .. n \/ k = m
      BY <2>3
    <3>3. \A k \in 1 .. n : k \in 1 .. n + 1
      OBVIOUS
    <3> QED BY <2>2, <2>4, <3>1, <3>2, <3>3 DEF Listing
  <2>5. CASE Readable(Cursor[m])
    <3> DEFINE t == Append(s, Entry(m))
    <3>1. Returned[n + 1] = t
      BY <2>1, <2>3, <2>5, ReturnedStepwise
    <3>2. /\ t \in Seq({Entry(k) : k \in Nat}) /\ Len(t) = Len(s) + 1 /\ Len(s) \in Nat
          /\ \A i \in 1 .. Len(s) : t[i] = s[i]
          /\ t[Len(s) + 1] = Entry(m)
      <4>1. s \in Seq({Entry(k) : k \in Nat}) /\ Entry(m) \in {Entry(k) : k \in Nat}
        BY <2>2 DEF Listing
      <4> HIDE DEF Entry
      <4> QED BY <4>1
    <3> HIDE DEF t
    <3>3. PICK l \in Nat : l = Len(s)
      BY <3>2
    <3>4. Len(t) = l + 1 /\ \A i \in 1 .. l + 1 : i \in 1 .. l \/ i = l + 1
      BY <3>2, <3>3
    <3>5. ASSUME NEW i \in 1 .. Len(t)
          PROVE  \E k \in 1 .. n + 1 : Readable(Cursor[k]) /\ t[i] = Entry(k)
      <4>1. CASE i \in 1 .. l
        <5>1. PICK k \in 1 .. n : Readable(Cursor[k]) /\ s[i] = Entry(k)
          BY <2>2, <3>3, <4>1 DEF Listing
        <5>2. k \in 1 .. n + 1
          OBVIOUS
        <5> QED BY <3>2, <3>3, <4>1, <5>1, <5>2
      <4>2. CASE i = l + 1
        <5>1. m \in 1 .. n + 1
          BY <2>3
        <5> QED BY <2>5, <3>2, <3>3, <4>2, <5>1
      <4> QED BY <3>4, <4>1, <4>2
    <3>6. ASSUME NEW k \in 1 .. n + 1, Readable(Cursor[k])
          PROVE  \E i \in 1 .. Len(t) : t[i] = Entry(k)
      <4>1. CASE k \in 1 .. n
        <5>1. PICK i \in 1 .. l : s[i] = Entry(k)
          BY <2>2, <3>3, <3>6, <4>1 DEF Listing
        <5>2. i \in 1 .. Len(t) /\ t[i] = s[i]
          BY <3>2, <3>3
        <5> QED BY <5>1, <5>2
      <4>2. CASE k = m
        <5>1. l + 1 \in 1 .. Len(t)
          BY <3>4
        <5> QED BY <3>2, <3>3, <4>2, <5>1
      <4> QED BY <2>3, <4>1, <4>2
    <3>7. ASSUME NEW i \in 1 .. Len(t), NEW j \in 1 .. Len(t), i < j
          PROVE  RS!Before(t[i][1], t[j][1])
      <4>1. i \in 1 .. l /\ t[i] = s[i]
        BY <3>2, <3>3, <3>4, <3>7
      <4>2. CASE j \in 1 .. l
        BY <2>2, <3>2, <3>3, <3>7, <4>1, <4>2 DEF Listing
      <4>3. CASE j = l + 1
        <5>1. PICK k \in 1 .. n : s[i] = Entry(k)
          BY <2>2, <3>3, <4>1 DEF Listing
        <5>2. k \in 1 .. count /\ k < m
          BY <1>1, <2>3
        <5>3. t[j] = Entry(m)
          BY <3>2, <3>3, <4>3
        <5>4. RS!Before(Cursor[k], Cursor[m])
          BY <1>1, <5>2
        <5> QED BY <4>1, <5>1, <5>3, <5>4 DEF Entry
      <4> QED BY <3>4, <4>2, <4>3
    <3> QED BY <3>1, <3>2, <3>5, <3>6, <3>7 DEF Listing
  <2> QED BY <2>4, <2>5
<1> HIDE DEF T
<1>4. Nat \subseteq T
  BY <1>2, <1>3, Induction
<1> QED BY <1>1, <1>4 DEF T, count

-----------------------------------------------------------------------------
(* The record file as a store of records.                                  *)

Records == [r \in Rids |-> IF Readable(r) THEN pages[r[1]].slot[r[2]] ELSE NoRecord]

\* The record of a page that the header counts.
RecordAt(r) == IF r[1] <= header.num_pages THEN pages[r[1]].slot[r[2]] ELSE NoRecord

StoreStep == [RS!Next]_(RS!vars)

LEMMA RecordsCounted == HealthyInv => Records = [r \in Rids |-> RecordAt(r)]
<1> SUFFICES ASSUME HealthyInv, NEW r \in Rids
             PROVE  (IF Readable(r) THEN pages[r[1]].slot[r[2]] ELSE NoRecord) = RecordAt(r)
  BY DEF Records
<1>1. r[1] <= header.num_pages => PageValid(r[1])
  <2>1. r[1] \in DataPages
    BY DEF Rids
  <2>2. r[1] <= header.num_pages => r[1] \in Allocated
    BY <2>1 DEF Allocated
  <2> QED BY <2>2, ChainFacts DEF HealthyInv, ChainInv, PageValid
<1> QED BY <1>1 DEF Readable, RecordAt

LEMMA RecordsCountedNext == HealthyInv' => Records' = [r \in Rids |-> RecordAt(r)']
<1>1. (HealthyInv => Records = [r \in Rids |-> RecordAt(r)])'
  BY RecordsCounted, PTL
<1> QED BY <1>1

(* A call that changes no record. *)
LEMMA RecordsKept ==
  ASSUME HealthyInv, HealthyInv', header'.num_pages = header.num_pages,
         \A p \in Allocated : pages'[p] = pages[p]
  PROVE  Records' = Records
<1>1. \A r \in Rids : RecordAt(r)' = RecordAt(r)
  BY DEF RecordAt, Rids, Allocated
<1> QED BY <1>1, RecordsCounted, RecordsCountedNext

(* A call that changes one record, in the slot s of the page p. *)
LEMMA OneRecord ==
  ASSUME HealthyInv, HealthyInv', NEW q \in Rids,
         \A p \in DataPages \ {q[1]} : pages'[p] = pages[p],
         \A t \in Slots \ {q[2]} : pages'[q[1]].slot[t] = pages[q[1]].slot[t],
         q[1] <= header.num_pages, header'.num_pages = header.num_pages
  PROVE  Records' = [Records EXCEPT ![q] = pages'[q[1]].slot[q[2]]]
<1> DEFINE x == pages'[q[1]].slot[q[2]]
<1>1. pages \in [DataPages -> PageContents]
  BY DEF HealthyInv, FileInv, TypeOK
<1>2. q[1] \in DataPages /\ q[2] \in Slots /\ q = <<q[1], q[2]>>
  BY DEF Rids
<1>3. ASSUME NEW r \in Rids PROVE RecordAt(r)' = IF r = q THEN x ELSE RecordAt(r)
  <2>1. r[1] \in DataPages /\ r[2] \in Slots /\ r = <<r[1], r[2]>>
    BY DEF Rids
  <2>2. CASE r = q
    BY <1>1, <1>2, <2>2 DEF RecordAt
  <2>3. CASE r # q /\ r[1] = q[1]
    <3>1. r[2] # q[2]
      BY <1>2, <2>1, <2>3
    <3>2. pages'[r[1]].slot[r[2]] = pages[r[1]].slot[r[2]]
      BY <1>1, <1>2, <2>1, <2>3, <3>1
    <3> QED BY <2>3, <3>2 DEF RecordAt
  <2>4. CASE r[1] # q[1]
    <3>1. pages'[r[1]] = pages[r[1]]
      BY <1>1, <2>1, <2>4
    <3> QED BY <2>4, <3>1 DEF RecordAt
  <2> QED BY <2>2, <2>3, <2>4
<1>4. Records = [r \in Rids |-> RecordAt(r)] /\ Records' = [r \in Rids |-> RecordAt(r)']
  BY RecordsCounted, RecordsCountedNext
<1> HIDE DEF x
<1>5. Records' = [Records EXCEPT ![q] = x]
  BY <1>3, <1>4
<1> QED BY <1>5 DEF x

LEMMA InsertStores ==
  ASSUME HealthyInv, HealthyInv', NEW v \in Values, Insert(v)
  PROVE  RS!Insert(v)
<1> DEFINE grow == header.first_free_page = RECORD_PAGE_LIST_END
           p == IF grow THEN total_pages ELSE header.first_free_page
           page == IF grow THEN EmptyPage ELSE pages[p]
           s == Min(FreeSlots(page))
           new == Filled(page, s, v)
<1>1. /\ p \in DataPages /\ PageOK(page) /\ s \in FreeSlots(page)
  BY InsertPage DEF HealthyInv
<1>2. page.slot \in [Slots -> Values \cup {NoRecord}] /\ page \in PageContents
  BY <1>1 DEF PageOK, PageContents
<1>3. new.slot = [page.slot EXCEPT ![s] = v]
  BY <1>2 DEF Filled, PageContents
<1>4. /\ pages' = [pages EXCEPT ![p] = new]
      /\ header'.num_pages = IF grow THEN header.num_pages + 1 ELSE header.num_pages
      /\ out' = <<"insert", <<p, s>>, <<>>>>
  BY DEF Insert, Answer
<1>5. /\ pages \in [DataPages -> PageContents] /\ header.num_pages \in Nat
      /\ total_pages = header.num_pages + 1
  BY DEF HealthyInv, ChainInv, FileInv, TypeOK, Headers
<1>6. p <= header'.num_pages /\ (~grow => p <= header.num_pages)
  <2>1. CASE grow
    BY <1>4, <1>5, <2>1
  <2>2. CASE ~grow
    <3>1. p \in Allocated
      BY <2>2, ChainFacts DEF HealthyInv, PagesWithSpace
    <3> QED BY <1>4, <2>2, <3>1 DEF Allocated
  <2> QED BY <2>1, <2>2
<1>7. page.slot[s] = NoRecord /\ s \in Slots
  BY <1>1 DEF FreeSlots
<1>8. grow => \A t \in Slots : page.slot[t] = NoRecord
  BY DEF EmptyPage
<1>9. PICK q \in Rids : q = <<p, s>>
  BY <1>1, <1>7 DEF Rids
<1> HIDE DEF page, s, new
<1>10. ASSUME NEW r \in Rids
       PROVE  RecordAt(r)' = IF r = q THEN v ELSE RecordAt(r)
  <2>1. r[1] \in DataPages /\ r[2] \in Slots /\ r = <<r[1], r[2]>> /\ r[1] \in Nat
    BY LinkFacts DEF Rids
  <2>2. CASE r = q
    <3>1. r[1] = p /\ r[2] = s
      BY <1>9, <2>2
    <3>2. pages'[p].slot[s] = v
      BY <1>1, <1>2, <1>3, <1>4, <1>5, <1>7
    <3> QED BY <1>6, <2>2, <3>1, <3>2 DEF RecordAt
  <2>3. CASE r # q /\ r[1] = p
    <3>1. r[2] # s
      BY <1>9, <2>1, <2>3
    <3>2. pages'[p].slot[r[2]] = page.slot[r[2]]
      BY <1>1, <1>2, <1>3, <1>4, <1>5, <2>1, <3>1
    <3>3. RecordAt(r)' = page.slot[r[2]]
      BY <1>6, <2>3, <3>2 DEF RecordAt
    <3>4. CASE grow
      <4>1. ~(r[1] <= header.num_pages)
        BY <1>5, <2>3, <3>4
      <4> QED BY <1>8, <2>1, <2>3, <3>3, <3>4, <4>1 DEF RecordAt
    <3>5. CASE ~grow
      BY <1>6, <2>3, <3>3, <3>5 DEF RecordAt, page
    <3> QED BY <3>4, <3>5
  <2>4. CASE r[1] # p
    <3>1. pages'[r[1]] = pages[r[1]]
      BY <1>4, <1>5, <2>1, <2>4
    <3>2. r[1] <= header'.num_pages <=> r[1] <= header.num_pages
      <4>1. CASE grow
        BY <1>4, <1>5, <2>1, <2>4, <4>1
      <4>2. CASE ~grow
        BY <1>4, <4>2
      <4> QED BY <4>1, <4>2
    <3> QED BY <1>9, <2>4, <3>1, <3>2 DEF RecordAt
  <2> QED BY <2>2, <2>3, <2>4
<1>11. Records' = [Records EXCEPT ![q] = v]
  BY <1>10, RecordsCounted, RecordsCountedNext
<1>12. Records[q] = NoRecord
  <2>1. q[1] = p /\ q[2] = s
    BY <1>9
  <2>2. CASE grow
    <3>1. ~(q[1] <= header.num_pages)
      BY <1>5, <2>1, <2>2
    <3> QED BY <3>1, RecordsCounted DEF RecordAt
  <2>3. CASE ~grow
    BY <1>7, <2>1, <2>3, RecordsCounted DEF RecordAt, page
  <2> QED BY <2>2, <2>3
<1>13. q \in Rids /\ q \notin RS!Live
  BY <1>12 DEF RS!Live, Records
<1>14. out' = <<"insert", q, <<>>>>
  BY <1>4, <1>9
<1> HIDE DEF p
<1> QED BY <1>11, <1>13, <1>14 DEF RS!Insert, Records

LEMMA UpdateStores ==
  ASSUME HealthyInv, HealthyInv', NEW r \in Rids, NEW v \in Values, Update(r, v)
  PROVE  RS!Update(r, v)
<1> DEFINE new == Changed(pages[r[1]], r[2], v)
<1>1. r[1] \in DataPages /\ r[2] \in Slots /\ Readable(r)
  BY DEF Rids, Update
<1>2. PageOK(pages[r[1]]) /\ pages[r[1]].slot[r[2]] # NoRecord /\ r[1] <= header.num_pages
  BY <1>1 DEF Readable, HealthyInv, FileInv, PagesOK
<1>3. new.slot[r[2]] = v /\ \A t \in Slots \ {r[2]} : new.slot[t] = pages[r[1]].slot[t]
  BY <1>1, <1>2, ChangedPage
<1>4. pages' = [pages EXCEPT ![r[1]] = new]
  BY DEF Update, Changed
<1>5. header'.num_pages = header.num_pages
  BY DEF Update
<1> HIDE DEF new
<1>6. Records' = [Records EXCEPT ![r] = v]
  <2>1. pages \in [DataPages -> PageContents]
    BY DEF HealthyInv, FileInv, TypeOK
  <2>2. /\ \A p \in DataPages \ {r[1]} : pages'[p] = pages[p]
        /\ \A t \in Slots \ {r[2]} : pages'[r[1]].slot[t] = pages[r[1]].slot[t]
        /\ pages'[r[1]].slot[r[2]] = v
    BY <1>1, <1>3, <1>4, <2>1
  <2>3. Records' = [Records EXCEPT ![r] = pages'[r[1]].slot[r[2]]]
    BY <1>2, <1>5, <2>2, OneRecord
  <2> QED BY <2>2, <2>3
<1>7. r \in RS!Live
  BY <1>1, <1>2 DEF RS!Live
<1> QED BY <1>6, <1>7 DEF RS!Update, Records, Update, Done, Answer

LEMMA DeleteStores ==
  ASSUME HealthyInv, HealthyInv', NEW r \in Rids, Delete(r)
  PROVE  RS!Delete(r)
<1> DEFINE new == Freed(pages[r[1]], r[2], header.first_free_page)
<1>1. r[1] \in DataPages /\ r[2] \in Slots /\ Readable(r)
  BY DEF Rids, Delete
<1>2. /\ PageOK(pages[r[1]]) /\ pages[r[1]].slot[r[2]] # NoRecord /\ r[1] <= header.num_pages
      /\ pages[r[1]] \in PageContents
  BY <1>1 DEF Readable, HealthyInv, FileInv, PagesOK, PageOK
<1>3. new.slot = [pages[r[1]].slot EXCEPT ![r[2]] = NoRecord]
  BY <1>2 DEF Freed, PageContents
<1>4. new.slot[r[2]] = NoRecord /\ \A t \in Slots \ {r[2]} : new.slot[t] = pages[r[1]].slot[t]
  BY <1>1, <1>2, <1>3 DEF PageContents
<1>5. pages' = [pages EXCEPT ![r[1]] = new]
  BY DEF Delete, Freed
<1>6. header'.num_pages = header.num_pages
  BY DEF Delete, HealthyInv, FileInv, TypeOK, Headers
<1> HIDE DEF new
<1>7. Records' = [Records EXCEPT ![r] = NoRecord]
  <2>1. pages \in [DataPages -> PageContents]
    BY DEF HealthyInv, FileInv, TypeOK
  <2>2. /\ \A p \in DataPages \ {r[1]} : pages'[p] = pages[p]
        /\ \A t \in Slots \ {r[2]} : pages'[r[1]].slot[t] = pages[r[1]].slot[t]
        /\ pages'[r[1]].slot[r[2]] = NoRecord
    BY <1>1, <1>4, <1>5, <2>1
  <2>3. Records' = [Records EXCEPT ![r] = pages'[r[1]].slot[r[2]]]
    BY <1>2, <1>6, <2>2, OneRecord
  <2> QED BY <2>2, <2>3
<1>8. r \in RS!Live
  BY <1>1, <1>2 DEF RS!Live
<1> QED BY <1>7, <1>8 DEF RS!Delete, Records, Delete, Done, Answer

(* Whatever else is called changes no record. *)
LEMMA OthersKeep ==
  ASSUME HealthyInv, HealthyInv',
         \/ InsertFails \/ Scan \/ Flush \/ Reopen \/ FlushStops \/ Return
         \/ \E r \in Rids : Get(r) \/ Refuse(r)
         \/ \E p \in DataPages \cup {HEADER_PAGE_ID} : WriteBack(p) \/ EvictionFails(p)
  PROVE  Records' = Records
<1>1. CASE Reopen
  <2>1. status = "open" /\ Open
    BY <1>1 DEF Reopen, IsOpen
  <2>2. disk_header' = header
    BY <1>1, HeaderWritten DEF Reopen
  <2>4. header' = header /\ pages' = disk_pages'
    BY <2>1, <2>2 DEF Open
  <2>5. \A p \in Allocated : pages'[p] = pages[p]
    BY <1>1, <2>4, HeaderWritten DEF Reopen, Allocated
  <2> QED BY <2>4, <2>5, RecordsKept
<1>2. CASE ~Reopen
  <2>1. pages' = pages /\ header' = header
    BY <1>2 DEF InsertFails, Scan, Flush, FlushStops, Return, Get, Refuse, WriteBack,
                EvictionFails, memory
  <2> QED BY <2>1, RecordsKept
<1> QED BY <1>1, <1>2

(* RecordStore counts with the Cardinality of FiniteSets. *)
LEMMA SameCardinality ==
  /\ \A S : RS!Cardinality(S) = Cardinality(S)
  /\ \A i : RS!Nth(i) = CHOOSE r \in RS!Live :
                            Cardinality({s \in RS!Live : RS!Before(s, r)}) = i - 1
<1>1. \A S : RS!Cardinality(S) = Cardinality(S)
  BY DEF RS!Cardinality, Cardinality
<1>2. ASSUME NEW i
      PROVE  RS!Nth(i) = CHOOSE r \in RS!Live :
                            Cardinality({s \in RS!Live : RS!Before(s, r)}) = i - 1
  BY <1>1, Zenon DEF RS!Nth
<1> QED BY <1>1, <1>2

(* A scan returns the records in the order of the store, every one once. *)
LEMMA ScanStores ==
  ASSUME HealthyInv, HealthyInv', Scan
  PROVE  RS!Scan
<1> DEFINE count == header.num_pages * SlotsPerPage
           L == RS!Live
<1>1. header.num_pages \in 0 .. MaxPages
  BY DEF HealthyInv, FileInv, TypeOK, Headers
<1>2. /\ count \in Nat /\ Cursor \in [1 .. count -> Rids] /\ Len(Cursor) = count
      /\ \A r \in Rids : r[1] <= header.num_pages => \E i \in 1 .. count : Cursor[i] = r
  BY <1>1, CursorInOrder
<1>3. Records' = Records
  BY OthersKeep
<1>4. \A p \in 1 .. header.num_pages : PageValid(p)
  <2>1. \A p \in 1 .. header.num_pages : p \in Allocated
    BY <1>1, BoundAssumption DEF Allocated, DataPages
  <2> QED BY <2>1, ChainFacts DEF HealthyInv, ChainInv, PageValid
<1> HIDE DEF count
<1>5. PICK s : s = Returned[count]
  OBVIOUS
<1>6. Listing(count, s)
  <2>1. count \in 0 .. count
    BY <1>2
  <2> QED BY <1>1, <1>5, <2>1, ReturnedListing DEF count
<1>7. out' = <<"scan", <<>>, s>>
  BY <1>2, <1>4, <1>5 DEF Scan, Answer
<1>8. L = {r \in Rids : Readable(r)}
  BY DEF RS!Live, Readable
<1>9. PICK n \in Nat : n = Len(s) /\ s = [i \in 1 .. n |-> s[i]]
  <2>1. \A E : s \in Seq(E) => Len(s) \in Nat /\ s = [i \in 1 .. Len(s) |-> s[i]]
    OBVIOUS
  <2> QED BY <1>6, <2>1 DEF Listing
<1> DEFINE order == [i \in 1 .. n |-> s[i][1]]
<1> HIDE DEF L
<1>10. ASSUME NEW i \in 1 .. n
       PROVE  order[i] \in L /\ s[i] = <<order[i], Records[order[i]]>>
  <2>1. PICK m \in 1 .. count : Readable(Cursor[m]) /\ s[i] = Entry(m)
    BY <1>6, <1>9 DEF Listing
  <2>2. order[i] = Cursor[m] /\ Cursor[m] \in Rids
    BY <1>2, <2>1 DEF Entry
  <2> QED BY <1>8, <2>1, <2>2 DEF Entry, Records
<1>11. InOrder(n, order, L)
  <2>1. order \in [1 .. n -> L]
    BY <1>10
  <2>2. \A i, j \in 1 .. n : i < j => RS!Before(order[i], order[j])
    BY <1>6, <1>9 DEF Listing
  <2>3. ASSUME NEW r \in L PROVE \E i \in 1 .. n : order[i] = r
    <3>1. r \in Rids /\ Readable(r) /\ r[1] <= header.num_pages
      BY <1>8 DEF Readable
    <3>2. PICK m \in 1 .. count : Cursor[m] = r
      BY <1>2, <3>1
    <3>3. PICK i \in 1 .. n : s[i] = Entry(m)
      BY <1>6, <1>9, <3>1, <3>2 DEF Listing
    <3>4. order[i] = r
      BY <3>2, <3>3 DEF Entry
    <3> QED BY <3>4
  <2> QED BY <2>1, <2>2, <2>3 DEF InOrder
<1>12. L \in SUBSET Rids
  BY <1>8
<1>13. /\ Cardinality(L) = n
       /\ \A i \in 1 .. n :
            order[i] = CHOOSE r \in L : Cardinality({t \in L : RS!Before(t, r)}) = i - 1
  <2> HIDE DEF order
  <2> QED BY <1>11, <1>12, OrderCounted
<1>14. \A i \in 1 .. n : RS!Nth(i) = order[i]
  BY <1>13, SameCardinality DEF L
<1>15. s = [i \in 1 .. RS!Cardinality(RS!Live) |-> <<RS!Nth(i), Records[RS!Nth(i)]>>]
  <2> HIDE DEF order
  <2>1. s = [i \in 1 .. n |-> <<order[i], Records[order[i]]>>]
    BY <1>9, <1>10
  <2>2. RS!Cardinality(RS!Live) = n
    BY <1>13, SameCardinality DEF L
  <2> QED BY <1>14, <2>1, <2>2
<1> QED BY <1>3, <1>7, <1>15 DEF RS!Scan, Records

LEMMA StoreSteps ==
  ASSUME Faults \subseteq {"write"}, HealthyInv, HealthyInv', [Next]_vars
  PROVE  StoreStep
<1>1. ASSUME NEW v \in Values, Insert(v) PROVE StoreStep
  BY <1>1, InsertStores DEF StoreStep, RS!Next
<1>2. ASSUME NEW r \in Rids, NEW v \in Values, Update(r, v) PROVE StoreStep
  BY <1>2, UpdateStores DEF StoreStep, RS!Next
<1>3. ASSUME NEW r \in Rids, Delete(r) PROVE StoreStep
  BY <1>3, DeleteStores DEF StoreStep, RS!Next
<1>4. ASSUME NEW r \in Rids, Get(r) PROVE StoreStep
  <2>1. Records' = Records
    BY <1>4, OthersKeep
  <2>2. r \in RS!Live
    BY <1>4 DEF Get, Readable, RS!Live
  <2>3. RS!Get(r)
    BY <1>4, <2>1, <2>2 DEF Get, Answer, Records, RS!Get
  <2> QED BY <2>3 DEF StoreStep, RS!Next
<1>5. ASSUME NEW r \in Rids, Refuse(r) PROVE StoreStep
  <2>1. Records' = Records
    BY <1>5, OthersKeep
  <2>2. r \in Rids \ RS!Live
    BY <1>5 DEF Refuse, RS!Live
  <2>3. RS!Refuse(r)
    BY <1>5, <2>1, <2>2 DEF Refuse, Answer, Records, RS!Refuse
  <2> QED BY <2>3 DEF StoreStep, RS!Next
<1>6. CASE Scan
  BY <1>6, ScanStores DEF StoreStep, RS!Next
<1>7. CASE InsertFails \/ Flush \/ Reopen \/ FlushStops \/ Return
  <2>1. Records' = Records
    BY <1>7, OthersKeep
  <2>2. \E call \in {"idle", "flush", "error", "open"} : out' = <<call, <<>>, <<>>>>
    BY <1>7 DEF InsertFails, Flush, Reopen, FlushStops, Return, Done, Answer, NoAnswer
  <2>3. RS!Keep
    BY <2>1, <2>2 DEF Records, RS!Keep
  <2> QED BY <2>3 DEF StoreStep, RS!Next
<1>8. ASSUME NEW p \in DataPages \cup {HEADER_PAGE_ID}, WriteBack(p) PROVE StoreStep
  <2>1. Records' = Records /\ out' = out
    BY <1>8, OthersKeep DEF WriteBack
  <2> QED BY <2>1 DEF StoreStep, RS!vars, Records
<1>9. ~Crash /\ ~SetLenFails
  BY DEF Crash, SetLenFails
<1>10. CASE UNCHANGED vars
  <2>1. UNCHANGED <<pages, header, total_pages, out>>
    BY <1>10 DEF vars, memory
  <2> QED BY <2>1 DEF StoreStep, RS!vars, Readable, PageValid
<1>11. ASSUME NEW p \in DataPages \cup {HEADER_PAGE_ID}, EvictionFails(p) PROVE StoreStep
  <2>1. Records' = Records
    BY <1>11, OthersKeep
  <2>2. out' = <<"error", <<>>, <<>>>>
    BY <1>11 DEF EvictionFails, Done, Answer
  <2>3. RS!Keep
    BY <2>1, <2>2 DEF Records, RS!Keep
  <2> QED BY <2>3 DEF StoreStep, RS!Next
<1> QED
  BY <1>1, <1>2, <1>3, <1>4, <1>5, <1>6, <1>7, <1>8, <1>9, <1>10, <1>11 DEF Next

(* As long as the process is not killed and set_len does not fail, the       *)
(* record file implements the store: an insert takes no other record's       *)
(* place, get and scan return what was last written, a scan returns every    *)
(* record once and in order, and flushes and evictions, failed or not, and a *)
(* close change no record.                                                   *)
THEOREM FileIsRecordStore ==
  ASSUME Faults \subseteq {"write"}
  PROVE  Spec => ImplementsRecordStore
<1>1. Init => RS!Init
  <2> SUFFICES ASSUME Init PROVE RS!Init
    OBVIOUS
  <2>1. Records = [r \in Rids |-> NoRecord]
    <3>1. \A r \in Rids : ~(r[1] <= header.num_pages)
      BY LinkFacts DEF Init, Rids
    <3> QED BY <3>1 DEF Records, Readable
  <2> QED BY <2>1 DEF RS!Init, Records, Init, NoAnswer
<1>2. HealthyInv /\ HealthyInv' /\ [Next]_vars => [RS!Next]_(RS!vars)
  BY StoreSteps DEF StoreStep
<1> QED BY <1>1, <1>2, Healthy, PTL DEF Spec, ImplementsRecordStore, RS!Spec

=============================================================================
