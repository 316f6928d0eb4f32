------------------------------ MODULE PageFile ------------------------------
(***************************************************************************)
(* A page file of src/storage/page/mod.rs: a file header, a buffer of one  *)
(* page, and the file on disk.  The head of the free list is in the file   *)
(* header, the links are in the four header bytes of the free pages.       *)
(* Every action is one call of the client, with every load, write-back and *)
(* sync that the call makes; a call that fails on an I/O error leaves the  *)
(* file where the error left it.  A write that stops early leaves any      *)
(* number of the bytes it was given on disk; only the four bytes of a link *)
(* or of a counter are written together or not at all.                     *)
(***************************************************************************)
EXTENDS Integers, Sequences, FiniteSets, Functions

CONSTANTS
  MaxPages,        \* bound on the pages of the file
  DataSize,        \* the data bytes of a page, 4092 in the code
  Byte,            \* the values of a byte
  ZeroByte,        \* the value of a byte that was never written
  NoData,          \* no answer: the call was refused or returns no data
  SignBit,         \* 2^31: the smallest page id with the sign bit of an i32
  Faults,          \* the I/O errors that happen
  ClientDisposes   \* whether the client calls dispose_page

ASSUME BoundAssumption ==
  /\ MaxPages \in Nat \ {0}
  /\ SignBit \in Nat \ {0, 1}
  /\ MaxPages <= SignBit
ASSUME DataAssumption ==
  /\ DataSize \in Nat \ {0}
  /\ ZeroByte \in Byte
  /\ NoData \notin [1 .. DataSize -> Byte]
ASSUME FaultAssumption ==
  /\ Faults \subseteq {"write", "drop", "read", "setlen", "crash"}
  /\ ClientDisposes \in BOOLEAN

VARIABLES
  status,             \* "open", or "rejected" by the checks of open
  header,             \* the FileHeader in memory
  header_dirty,
  loaded_page_id,     \* the page the buffer holds, NoPage if none
  loaded_page_dirty,
  loaded_page,        \* the buffer
  disk_header,        \* the file: its header page,
  disk_len,           \*   its length in pages after the header,
  disk_pages,         \*   and those pages, zeros beyond disk_len
  out,                \* <<call, page, data>>: the last call and its answer
  written,            \* history: the data last written to each page,
  flushed             \*   and the data a flushed page may have on disk

memory == <<status, header, header_dirty,
            loaded_page_id, loaded_page_dirty, loaded_page>>
disk == <<disk_header, disk_len, disk_pages>>
history == <<out, written, flushed>>
vars == <<memory, disk, history>>

FREE_LIST_END == -1
PAGE_USED == -2
NoPage == -1

PageIds == 0 .. MaxPages - 1

\* The casts between page ids (u32) and links (i32).
AsI32(p) == IF p < SignBit THEN p ELSE p - 2 * SignBit
AsU32(n) == IF n < 0 THEN n + 2 * SignBit ELSE n

\* What the 4 bytes of a link hold: a page id as an i32, or a marker.
Links == {AsI32(p) : p \in PageIds} \cup {FREE_LIST_END, PAGE_USED}

\* The contents of the data bytes of a page.
Data == [1 .. DataSize -> Byte]
ZeroData == [i \in 1 .. DataSize |-> ZeroByte]

Pages == [next_free : Links, data : Data]
Headers == [first_free_page : Links, num_pages : 0 .. MaxPages]
ZeroPage == [next_free |-> 0, data |-> ZeroData]

-----------------------------------------------------------------------------
(* The answer of a call, and the history that the durability of the file   *)
(* is stated in, for a client that disposes no page.  written[p] is the    *)
(* data last written to p, NoData if the client was not given p, by        *)
(* allocate_page or when it opened the file.  flushed[p] is what p had     *)
(* when it was flushed last and all that it was given since.               *)

Reply(call, p, d) ==
  /\ out' = <<call, p, d>>
  /\ written' =
       IF call = "allocate" \/ (call = "write" /\ d # NoData /\ written[p] # NoData)
         THEN [written EXCEPT ![p] = d]
         ELSE IF call = "dispose" /\ d # NoData
                THEN [written EXCEPT ![p] = NoData]
                ELSE written
  /\ flushed' =
       [q \in PageIds |->
          IF ClientDisposes THEN {}
          ELSE IF call = "flush" THEN {written[q]} \ {NoData}
          ELSE IF flushed[q] = {} THEN {}
          ELSE flushed[q] \cup ({written'[q]} \ {NoData})]

\* A call that fails on an I/O error.
Failed == Reply("error", 0, NoData)

-----------------------------------------------------------------------------
(* The file header: its checks, and the open that runs them.               *)

HeaderValid(h) ==
  /\ h.first_free_page >= FREE_LIST_END
  /\ h.first_free_page # FREE_LIST_END => h.first_free_page < h.num_pages

HeaderWithinFile(h, len) == h.num_pages <= len

\* A new PageFile on the file as it now is on disk.
Open ==
  /\ status' = IF HeaderValid(disk_header') /\ HeaderWithinFile(disk_header', disk_len')
                 THEN "open" ELSE "rejected"
  /\ header' = disk_header'
  /\ header_dirty' = FALSE
  /\ loaded_page_id' = NoPage
  /\ loaded_page_dirty' = FALSE
  /\ loaded_page' = ZeroPage
  /\ out' = <<"open", 0, NoData>>
  /\ written' = [p \in PageIds |->
       IF p < disk_header'.num_pages /\ disk_pages'[p].next_free = PAGE_USED
         THEN disk_pages'[p].data ELSE NoData]
  /\ UNCHANGED flushed

\* The state after PageFile::create.
Init ==
  /\ status = "open"
  /\ header = [first_free_page |-> FREE_LIST_END, num_pages |-> 0]
  /\ header_dirty = FALSE
  /\ loaded_page_id = NoPage
  /\ loaded_page_dirty = FALSE
  /\ loaded_page = ZeroPage
  /\ disk_header = header
  /\ disk_len = 0
  /\ disk_pages = [p \in PageIds |-> ZeroPage]
  /\ out = <<"open", 0, NoData>>
  /\ written = [p \in PageIds |-> NoData]
  /\ flushed = [p \in PageIds |-> {}]

-----------------------------------------------------------------------------
(* The one-page buffer.                                                    *)

\* Mutated form: the write-back forgets that the file header comes first.
FlushedOnePageEarly ==
  IF loaded_page_id > 0 /\ loaded_page_dirty
    THEN [disk_pages EXCEPT ![loaded_page_id - 1] = loaded_page]
    ELSE disk_pages

\* The pages of the file after flush_loaded_page.
Flushed ==
  IF loaded_page_id # NoPage /\ loaded_page_dirty
    THEN [disk_pages EXCEPT ![loaded_page_id] = loaded_page]
    ELSE disk_pages

\* load_page(p) succeeds: p is in range and, unless buffered, in the file.
CanLoad(p) ==
  /\ p < header.num_pages
  /\ loaded_page_id = p \/ p < disk_len

\* The buffer after load_page(p).
Loaded(p) == IF loaded_page_id = p THEN loaded_page ELSE disk_pages[p]

IsUsed(p) == Loaded(p).next_free = PAGE_USED

\* Mutated form: load_page forgets flush_loaded_page.
LoadAndSetNoWriteBack(p, page, touch) ==
  /\ CanLoad(p)
  /\ loaded_page_id' = p
  /\ loaded_page_dirty' = (touch \/ (loaded_page_id = p /\ loaded_page_dirty))
  /\ loaded_page' = page
  /\ UNCHANGED <<status, disk>>

\* load_page(p), then page becomes the content of the buffer; touch says
\* whether the call marks the buffer dirty.
LoadAndSet(p, page, touch) ==
  /\ CanLoad(p)
  /\ disk_pages' = IF loaded_page_id = p THEN disk_pages ELSE Flushed
  /\ loaded_page_id' = p
  /\ loaded_page_dirty' = (touch \/ (loaded_page_id = p /\ loaded_page_dirty))
  /\ loaded_page' = page
  /\ UNCHANGED <<status, disk_header, disk_len>>

-----------------------------------------------------------------------------
(* The calls.                                                              *)

IsOpen == status = "open"

\* allocate_page takes the head of the free list; the caller writes d
\* through the guard, over the zeros.
AllocateReuse(d) ==
  LET p == AsU32(header.first_free_page) IN
  /\ IsOpen
  /\ header.first_free_page # FREE_LIST_END
  /\ LoadAndSet(p, [next_free |-> PAGE_USED, data |-> d], TRUE)
  /\ header' = [header EXCEPT !.first_free_page = Loaded(p).next_free]
  /\ header_dirty' = TRUE
  /\ Reply("allocate", p, d)

\* Mutated form: the page id is read after num_pages was incremented.
AllocateGrowLateId(d) ==
  LET p == header.num_pages IN
  /\ IsOpen
  /\ header.first_free_page = FREE_LIST_END
  /\ p < MaxPages
  /\ header' = [header EXCEPT !.num_pages = p + 1]
  /\ header_dirty' = TRUE
  /\ disk_len' = p + 1
  /\ disk_pages' = Flushed
  /\ loaded_page_id' = p + 1
  /\ loaded_page_dirty' = TRUE
  /\ loaded_page' = [next_free |-> PAGE_USED, data |-> d]
  /\ Reply("allocate", p, d)
  /\ UNCHANGED <<status, disk_header>>

\* allocate_page grows the file.  set_len also cuts off pages that a crash
\* left beyond the ones the header counts.
AllocateGrow(d) ==
  LET p == header.num_pages IN
  /\ IsOpen
  /\ header.first_free_page = FREE_LIST_END
  /\ p < MaxPages
  /\ header' = [header EXCEPT !.num_pages = p + 1]
  /\ header_dirty' = TRUE
  /\ disk_len' = p + 1
  /\ disk_pages' = [q \in PageIds |->
                      IF q < disk_len /\ q <= p THEN Flushed[q] ELSE ZeroPage]
  /\ loaded_page_id' = p
  /\ loaded_page_dirty' = TRUE
  /\ loaded_page' = [next_free |-> PAGE_USED, data |-> d]
  /\ Reply("allocate", p, d)
  /\ UNCHANGED <<status, disk_header>>

ReadPage(p) ==
  /\ IsOpen
  /\ LoadAndSet(p, Loaded(p), FALSE)
  /\ Reply("read", p, IF IsUsed(p) THEN Loaded(p).data ELSE NoData)
  /\ UNCHANGED <<header, header_dirty>>

\* Mutated form: the buffer is not marked dirty.
WritePageClean(p, d) ==
  /\ IsOpen
  /\ CanLoad(p)
  /\ IsUsed(p)
  /\ LoadAndSet(p, [next_free |-> PAGE_USED, data |-> d], FALSE)
  /\ Reply("write", p, d)
  /\ UNCHANGED <<header, header_dirty>>

\* write_page, and the caller writes d through the guard.
WritePage(p, d) ==
  /\ IsOpen
  /\ CanLoad(p)
  /\ IsUsed(p)
  /\ LoadAndSet(p, [next_free |-> PAGE_USED, data |-> d], TRUE)
  /\ Reply("write", p, d)
  /\ UNCHANGED <<header, header_dirty>>

\* Mutated form: the page is linked to the list, the header not to the page.
DisposePageUnlinked(p) ==
  /\ IsOpen
  /\ ClientDisposes
  /\ CanLoad(p)
  /\ IsUsed(p)
  /\ LoadAndSet(p, [next_free |-> header.first_free_page, data |-> ZeroData], TRUE)
  /\ header_dirty' = TRUE
  /\ Reply("dispose", p, ZeroData)
  /\ UNCHANGED header

DisposePage(p) ==
  /\ IsOpen
  /\ ClientDisposes
  /\ CanLoad(p)
  /\ IsUsed(p)
  /\ LoadAndSet(p, [next_free |-> header.first_free_page, data |-> ZeroData], TRUE)
  /\ header' = [header EXCEPT !.first_free_page = AsI32(p)]
  /\ header_dirty' = TRUE
  /\ Reply("dispose", p, ZeroData)

\* A page that is not in use is refused, after it was loaded.
Refused(p, call) ==
  /\ IsOpen
  /\ CanLoad(p)
  /\ ~IsUsed(p)
  /\ LoadAndSet(p, Loaded(p), FALSE)
  /\ Reply(call, p, NoData)
  /\ UNCHANGED <<header, header_dirty>>

\* A page beyond the last one is refused before anything is loaded.
OutOfRange(p, call) ==
  /\ IsOpen
  /\ p >= header.num_pages
  /\ Reply(call, p, NoData)
  /\ UNCHANGED <<memory, disk>>

Flush ==
  /\ IsOpen
  /\ disk_pages' = Flushed
  /\ loaded_page_dirty' = FALSE
  /\ disk_header' = IF header_dirty THEN header ELSE disk_header
  /\ header_dirty' = FALSE
  /\ Reply("flush", 0, NoData)
  /\ UNCHANGED <<status, header, loaded_page_id, loaded_page, disk_len>>

\* The file is dropped, which flushes it, and opened again.
Reopen ==
  /\ IsOpen
  /\ disk_pages' = Flushed
  /\ disk_header' = IF header_dirty THEN header ELSE disk_header
  /\ UNCHANGED disk_len
  /\ Open

-----------------------------------------------------------------------------
(* I/O errors.                                                             *)

\* The page old after the link and n data bytes of the page new were copied
\* over it.
PartCopied(old, new, n) ==
  [next_free |-> new.next_free,
   data |-> [i \in 1 .. DataSize |-> IF i <= n THEN new.data[i] ELSE old.data[i]]]

\* What a write of the buffer that stops early leaves on disk: the old page,
\* or any number of the new bytes in front of the old ones.
HalfFlushed ==
  {disk_pages} \cup
  {[disk_pages EXCEPT ![loaded_page_id] = PartCopied(@, loaded_page, n)]
     : n \in 0 .. DataSize - 1}

HalfWrittenHeader ==
  {disk_header, [disk_header EXCEPT !.first_free_page = header.first_free_page]}

\* Any call that writes the buffer back fails in that write; the buffer stays
\* dirty.  allocate_page has not yet touched the header then.
PageWriteFails ==
  /\ "write" \in Faults
  /\ IsOpen
  /\ loaded_page_id # NoPage
  /\ loaded_page_dirty
  /\ disk_pages' \in HalfFlushed
  /\ Failed
  /\ UNCHANGED <<memory, disk_header, disk_len>>

\* flush has written the page and fails in the write of the header.
HeaderWriteFails ==
  /\ "write" \in Faults
  /\ IsOpen
  /\ header_dirty
  /\ disk_pages' = Flushed
  /\ loaded_page_dirty' = FALSE
  /\ disk_header' \in HalfWrittenHeader
  /\ Failed
  /\ UNCHANGED <<status, header, header_dirty, loaded_page_id, loaded_page, disk_len>>

\* A write fails in the flush of a drop.  Nobody hears of it; the file is
\* opened again.
DropFails ==
  /\ "drop" \in Faults
  /\ IsOpen
  /\ \/ /\ loaded_page_id # NoPage
        /\ loaded_page_dirty
        /\ disk_pages' \in HalfFlushed
        /\ UNCHANGED disk_header
     \/ /\ header_dirty
        /\ disk_pages' = Flushed
        /\ disk_header' \in HalfWrittenHeader
  /\ UNCHANGED disk_len
  /\ Open

\* load_page(p) wrote the old page back and fails in read_exact_at: the buffer
\* has taken none, a part or all of page p, and is still named after the old
\* page.  A page beyond the end of the file leaves the buffer alone.
ReadFails(p) ==
  /\ IsOpen
  /\ p < header.num_pages
  /\ loaded_page_id # p
  /\ "read" \in Faults \/ p >= disk_len
  /\ disk_pages' = Flushed
  /\ loaded_page_dirty' = FALSE
  /\ loaded_page' \in
       IF p >= disk_len
         THEN {loaded_page}
         ELSE {loaded_page} \cup
              {PartCopied(loaded_page, disk_pages[p], n) : n \in 0 .. DataSize}
  /\ Failed
  /\ UNCHANGED <<status, header, header_dirty, loaded_page_id, disk_header, disk_len>>

\* allocate_page fails in set_len; num_pages has been incremented.
SetLenFails ==
  /\ "setlen" \in Faults
  /\ IsOpen
  /\ header.first_free_page = FREE_LIST_END
  /\ header.num_pages < MaxPages
  /\ header' = [header EXCEPT !.num_pages = @ + 1]
  /\ disk_pages' = Flushed
  /\ loaded_page_dirty' = FALSE
  /\ Failed
  /\ UNCHANGED <<status, header_dirty, loaded_page_id, loaded_page, disk_header, disk_len>>

\* The process is killed and the file is opened again.  What was written
\* before is on disk, and of what the running call writes, the buffer and then
\* the header, any part.
Crash ==
  /\ "crash" \in Faults
  /\ IsOpen
  /\ \/ UNCHANGED <<disk_header, disk_pages>>
     \/ /\ loaded_page_id # NoPage
        /\ loaded_page_dirty
        /\ disk_pages' \in HalfFlushed \cup {Flushed}
        /\ UNCHANGED disk_header
     \/ /\ header_dirty
        /\ disk_pages' = Flushed
        /\ disk_header' \in HalfWrittenHeader
  /\ UNCHANGED disk_len
  /\ Open

-----------------------------------------------------------------------------
Next ==
  \/ \E d \in Data : AllocateReuse(d) \/ AllocateGrow(d)
  \/ \E p \in PageIds :
       \/ ReadPage(p)
       \/ \E d \in Data : WritePage(p, d)
       \/ DisposePage(p)
       \/ \E call \in {"write", "dispose"} : Refused(p, call)
       \/ \E call \in {"read", "write", "dispose"} : OutOfRange(p, call)
       \/ ReadFails(p)
  \/ Flush
  \/ Reopen
  \/ PageWriteFails
  \/ HeaderWriteFails
  \/ DropFails
  \/ SetLenFails
  \/ Crash

Spec == Init /\ [][Next]_vars

-----------------------------------------------------------------------------
(* What the file holds, wherever it is held.                               *)

InRange == {p \in PageIds : p < header.num_pages}
UsedPages == {p \in InRange : IsUsed(p)}
FreePages == InRange \ UsedPages
content == [p \in PageIds |-> IF p \in UsedPages THEN Loaded(p).data ELSE NoData]

\* s is the free list: it starts at the header, each page links to the next
\* one, and the last one to FREE_LIST_END.
Threads(s) ==
  /\ header.first_free_page = IF s = <<>> THEN FREE_LIST_END ELSE AsI32(s[1])
  /\ \A i \in 1 .. Len(s) :
       Loaded(s[i]).next_free = IF i = Len(s) THEN FREE_LIST_END ELSE AsI32(s[i + 1])

\* The orders in which the free pages, or some of them, can be listed.
FreeLists == UNION {Injection(1 .. n, FreePages) : n \in 0 .. MaxPages}

FreeList == CHOOSE s \in FreeLists : Threads(s)

(* Type invariant. *)
TypeOK ==
  /\ status \in {"open", "rejected"}
  /\ header \in Headers
  /\ header_dirty \in BOOLEAN
  /\ loaded_page_id \in PageIds \cup {NoPage}
  /\ loaded_page_dirty \in BOOLEAN
  /\ loaded_page \in Pages
  /\ disk_header \in Headers
  /\ disk_len \in 0 .. MaxPages
  /\ disk_pages \in [PageIds -> Pages]
  /\ out \in {"open", "allocate", "read", "write", "dispose", "flush", "error"}
               \X PageIds \X (Data \cup {NoData})
  /\ written \in [PageIds -> Data \cup {NoData}]
  /\ flushed \in [PageIds -> SUBSET Data]

(* The free list threads exactly the pages that are not in use, each of   *)
(* them once: allocate_page never hands out a page that is in use, and no *)
(* disposed page is lost.                                                  *)
FreeListThreaded ==
  \E s \in FreeLists : Threads(s) /\ Range(s) = FreePages

(* A buffer that is not dirty is what a read of its page would return, and *)
(* a header that is not dirty is the one on disk: skipping the write-back  *)
(* of a clean buffer or header (flush_loaded_page, flush_header) loses     *)
(* nothing.                                                                *)
CleanIsOnDisk ==
  /\ loaded_page_id # NoPage /\ ~loaded_page_dirty
       => loaded_page = disk_pages[loaded_page_id]
  /\ ~header_dirty => header = disk_header

\* Every byte of d is one of a content in S, at the same place.
MixOf(S, d) == \A i \in 1 .. DataSize : \E e \in S : d[i] = e[i]

(* Once a flush has returned, every page that was in use then survives      *)
(* crashes, failed writes and failed drops, as long as the client disposes  *)
(* no page: at every later moment the file on disk alone, header included,  *)
(* counts the page and holds it as a page in use, and each byte of it is    *)
(* one that the page had then or that it was given later.  A page that was  *)
(* not written since is as it was; one that was written since, and whose    *)
(* writes were cut short, mixes bytes of these contents and of no others.   *)
FlushedPagesSurvive ==
  \A p \in PageIds : flushed[p] # {} =>
    /\ p < disk_header.num_pages
    /\ p < disk_len
    /\ disk_pages[p].next_free = PAGE_USED
    /\ MixOf(flushed[p], disk_pages[p].data)

(* The header that a later open would read passes FileHeader::validate.    *)
DiskHeaderValid == HeaderValid(disk_header)

-----------------------------------------------------------------------------
(* The page file implements the abstract store: the last page disposed is  *)
(* the first to be reused, reads return what was last written, wherever it *)
(* is buffered, and a failed write-back, a flush or a reopen changes       *)
(* nothing that a client sees.                                             *)
PS == INSTANCE PageStore WITH
  free <- FreeList, num_pages <- header.num_pages

ImplementsPageStore == PS!Spec
=============================================================================
