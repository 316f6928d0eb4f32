------------------------------ MODULE RecordPage ------------------------------
(***************************************************************************)
(* The bytes of a data page of a record file, src/storage/record/mod.rs:   *)
(* a header of three words, a bitmap with one bit for every slot (1 is     *)
(* free), and the slots, each of the size of one record.  RecordFile takes *)
(* a page for the decoded header and a function from slots to records;     *)
(* this module says how both lie in the 4092 bytes.                        *)
(*                                                                         *)
(* A page is a function from offsets to bytes.  Records and other slices   *)
(* are sequences of bytes.  In all operators `slots' is slots_per_page and *)
(* `size' is record_size of the file.                                      *)
(***************************************************************************)
EXTENDS Integers, Sequences

CONSTANTS PAGE_DATA_SIZE       \* 4092; a few slots only when TLC checks it

MaxI32 == 2147483647

\* A page has fewer slots than an i32 can count.
ASSUME PageSizeAssumption == PAGE_DATA_SIZE \in Nat /\ PAGE_DATA_SIZE <= MaxI32

RECORD_PAGE_HEADER_SIZE == 12
RECORD_PAGE_LIST_END == -1
RECORD_PAGE_FULL == -2

I32 == {n \in Int : -MaxI32 - 1 <= n /\ n <= MaxI32}

Offsets == 0 .. PAGE_DATA_SIZE - 1
Bytes == 0 .. 255
DataPages == [Offsets -> Bytes]
SlotIds(slots) == 0 .. slots - 1

-----------------------------------------------------------------------------
(* Slices and words.                                                       *)

\* bytes[start .. start + len]
Slice(bytes, start, len) == [i \in 1 .. len |-> bytes[start + i - 1]]

\* bytes[start ..].copy_from_slice(data)
CopyTo(bytes, start, data) ==
  [at \in DOMAIN bytes |->
     IF at \in start .. start + Len(data) - 1 THEN data[at - start + 1] ELSE bytes[at]]

\* to_le_bytes of an i32, and from_le_bytes: the last byte has the sign.
ToLeBytes(n) == <<n % 256, (n \div 256) % 256, (n \div 65536) % 256, (n \div 16777216) % 256>>
FromLeBytes(b) ==
  b[1] + 256 * b[2] + 65536 * b[3] + 16777216 * (IF b[4] < 128 THEN b[4] ELSE b[4] - 256)

-----------------------------------------------------------------------------
(* Layout.                                                                 *)

\* bitmap_bytes: div_ceil(8).
BitmapBytes(slots) == (slots + 7) \div 8

DataStart(slots) == RECORD_PAGE_HEADER_SIZE + BitmapBytes(slots)

\* Mutated form: the bitmap is forgotten.
UsedBytesNoBitmap(slots, size) == RECORD_PAGE_HEADER_SIZE + slots * size

\* What a page with that many slots takes.
UsedBytes(slots, size) == DataStart(slots) + slots * size

\* compute_slots_per_page counts down from PAGE_DATA_SIZE / record_size to the
\* first number of slots that fits; none is RecordTooLarge.
Fitting(size) == {n \in 1 .. PAGE_DATA_SIZE \div size : UsedBytes(n, size) <= PAGE_DATA_SIZE}
RecordFits(size) == Fitting(size) # {}
SlotsPerPage(size) == CHOOSE n \in Fitting(size) : \A m \in Fitting(size) : m <= n

\* record_range, its first byte; slots count from 0.
RecordStart(slots, size, s) == DataStart(slots) + s * size

\* The byte of the bitmap that has the bit of slot s, and the bit.
BitmapByte(s) == RECORD_PAGE_HEADER_SIZE + s \div 8
BitMask(s) == <<1, 2, 4, 8, 16, 32, 64, 128>>[(s % 8) + 1]

SlotIsFree(page, s) == (page[BitmapByte(s)] \div BitMask(s)) % 2 = 1

SetSlotFree(page, s, free) ==
  [page EXCEPT ![BitmapByte(s)] =
     IF SlotIsFree(page, s) = free THEN @
     ELSE IF free THEN @ + BitMask(s) ELSE @ - BitMask(s)]

FreeSlots(page, slots) == {s \in SlotIds(slots) : SlotIsFree(page, s)}

\* find_first_free_slot.
FirstFreeSlot(page, slots) ==
  CHOOSE s \in FreeSlots(page, slots) : \A t \in FreeSlots(page, slots) : s <= t

-----------------------------------------------------------------------------
(* RecordPageHeader: decode, encode.                                       *)

DecodeHeader(page) ==
  [next_free_page |-> FromLeBytes(Slice(page, 0, 4)),
   num_slots |-> FromLeBytes(Slice(page, 4, 4)),
   num_free_slots |-> FromLeBytes(Slice(page, 8, 4))]

EncodeHeader(page, h) ==
  CopyTo(CopyTo(CopyTo(page, 0, ToLeBytes(h.next_free_page)),
                4, ToLeBytes(h.num_slots)),
         8, ToLeBytes(h.num_free_slots))

HeaderValid(h, slots) ==
  /\ h.num_slots = slots
  /\ h.num_free_slots <= h.num_slots
  /\ h.next_free_page >= RECORD_PAGE_FULL

-----------------------------------------------------------------------------
(* What the operations make of a page.                                     *)

\* initialize_page, on a page of any content.
InitializePage(slots) ==
  EncodeHeader(
    [at \in Offsets |->
       IF at \in RECORD_PAGE_HEADER_SIZE .. DataStart(slots) - 1 THEN 255 ELSE 0],
    [next_free_page |-> RECORD_PAGE_LIST_END, num_slots |-> slots, num_free_slots |-> slots])

Record(page, slots, size, s) == Slice(page, RecordStart(slots, size, s), size)

\* update, of a slot in use.
UpdateSlot(page, slots, size, s, data) == CopyTo(page, RecordStart(slots, size, s), data)

\* insert, into a page with a free slot: the page is full after its last one.
InsertRecord(page, slots, size, data) ==
  LET s == FirstFreeSlot(page, slots)
      h == DecodeHeader(page)
      left == h.num_free_slots - 1
      filled == CopyTo(SetSlotFree(page, s, FALSE), RecordStart(slots, size, s), data)
  IN
  EncodeHeader(filled,
    [h EXCEPT !.num_free_slots = left,
              !.next_free_page = IF left = 0 THEN RECORD_PAGE_FULL ELSE @])

\* delete, of a slot in use: the bytes are zeroed.  `first' is the head of the
\* chain of pages with space, to which a page that was full is linked.
DeleteSlot(page, slots, size, s, first) ==
  LET h == DecodeHeader(page)
      cleared == CopyTo(SetSlotFree(page, s, TRUE), RecordStart(slots, size, s),
                        [i \in 1 .. size |-> 0])
  IN
  EncodeHeader(cleared,
    [h EXCEPT !.num_free_slots = @ + 1,
              !.next_free_page = IF h.num_free_slots = 0 THEN first ELSE @])
=============================================================================
