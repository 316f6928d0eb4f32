--------------------------- MODULE RecordPageProofs ---------------------------
(***************************************************************************)
(* Proofs about the bytes of a data page, for every size of a page and of  *)
(* a record and every number of slots that fits: what insert, update and   *)
(* delete do to the bytes is what they mean for the slots.  TLC checks the *)
(* layouts of some sizes (LayoutFits) and pages of four slots              *)
(* (WritesChangeWhatTheyName).                                             *)
(***************************************************************************)
EXTENDS RecordPage, FiniteSets, FiniteSetTheorems, WellFoundedInduction, TLAPS

-----------------------------------------------------------------------------
(* Where the slots lie.                                                    *)

(* Of two slots the first ends before the second begins. *)
LEMMA Multiples ==
  ASSUME NEW s \in Nat, NEW t \in Nat, NEW size \in Nat, s < t
  PROVE  s * size + size <= t * size
<1> DEFINE d == t - s - 1
<1>1. d \in Nat /\ t = s + 1 + d
  OBVIOUS
<1>2. d * size \in Nat /\ s * size \in Nat
  BY <1>1
<1>3. (s + 1 + d) * size = s * size + size + d * size
  BY <1>1
<1> QED BY <1>1, <1>2, <1>3

(* The slots of a layout: behind header and bitmap, in the page, and apart. *)
THEOREM SlotsApart ==
  ASSUME NEW slots \in Nat \ {0}, NEW size \in Nat \ {0},
         UsedBytes(slots, size) <= PAGE_DATA_SIZE,
         NEW s \in SlotIds(slots)
  PROVE  /\ RecordStart(slots, size, s) \in Nat
         /\ DataStart(slots) \in Nat
         /\ DataStart(slots) <= RecordStart(slots, size, s)
         /\ RecordStart(slots, size, s) + size <= PAGE_DATA_SIZE
         /\ BitmapByte(s) \in RECORD_PAGE_HEADER_SIZE .. DataStart(slots) - 1
         /\ \A t \in SlotIds(slots) : s < t =>
              RecordStart(slots, size, s) + size <= RecordStart(slots, size, t)
<1>1. s \in Nat /\ slots \in Nat /\ s < slots
  BY DEF SlotIds
<1>2. s * size \in Nat /\ slots * size \in Nat
  BY <1>1
<1>3. s * size + size <= slots * size
  BY <1>1, Multiples
<1>4. DataStart(slots) \in Nat
  BY DEF DataStart, BitmapBytes, RECORD_PAGE_HEADER_SIZE
<1>5. BitmapByte(s) \in RECORD_PAGE_HEADER_SIZE .. DataStart(slots) - 1
  BY <1>1 DEF BitmapByte, DataStart, BitmapBytes, RECORD_PAGE_HEADER_SIZE
<1>6. \A t \in SlotIds(slots) : s < t =>
        RecordStart(slots, size, s) + size <= RecordStart(slots, size, t)
  <2> SUFFICES ASSUME NEW t \in SlotIds(slots), s < t
               PROVE  RecordStart(slots, size, s) + size <= RecordStart(slots, size, t)
    OBVIOUS
  <2>1. t \in Nat /\ t * size \in Nat
    BY DEF SlotIds
  <2>2. s * size + size <= t * size
    BY <1>1, <2>1, Multiples
  <2> QED BY <1>2, <1>4, <2>1, <2>2 DEF RecordStart
<1>7. RecordStart(slots, size, s) + size <= PAGE_DATA_SIZE
  BY <1>2, <1>3, <1>4, PageSizeAssumption DEF RecordStart, UsedBytes
<1> QED BY <1>2, <1>4, <1>5, <1>6, <1>7 DEF RecordStart

(* The greatest of a set of numbers below a bound. *)
LEMMA Greatest ==
  ASSUME NEW K \in Nat, NEW S, S \subseteq 0 .. K, S # {}
  PROVE  \E n \in S : \A m \in S : m <= n
<1> DEFINE T == {k \in Nat : \E n \in S : k = K - n}
<1>1. T \subseteq Nat /\ T # {}
  <2>1. PICK n \in S : TRUE
    OBVIOUS
  <2>2. K - n \in Nat
    OBVIOUS
  <2> QED BY <2>2
<1>2. PICK k \in T : \A j \in T : <<j, k>> \notin OpToRel(<, Nat)
  BY <1>1, NatLessThanWellFounded, WFMin
<1>3. \A j \in T : ~(j < k)
  BY <1>1, <1>2 DEF OpToRel
<1>4. PICK n \in S : k = K - n
  OBVIOUS
<1>5. ASSUME NEW m \in S
      PROVE  m <= n
  <2>1. K - m \in T /\ n \in Int /\ m \in Int
    OBVIOUS
  <2>2. ~(K - m < K - n)
    BY <1>3, <1>4, <2>1
  <2> QED BY <2>1, <2>2
<1> QED BY <1>5

(* compute_slots_per_page gives a number of slots that fits, and no more slots *)
(* would fit.                                                                  *)
THEOREM SlotsPerPageFits ==
  ASSUME NEW size \in Nat \ {0}, RecordFits(size)
  PROVE  /\ SlotsPerPage(size) \in Nat \ {0}
         /\ UsedBytes(SlotsPerPage(size), size) <= PAGE_DATA_SIZE
         /\ \A m \in Nat : UsedBytes(m, size) <= PAGE_DATA_SIZE => m <= SlotsPerPage(size)
<1> DEFINE K == PAGE_DATA_SIZE \div size
<1>1. K \in Nat /\ PAGE_DATA_SIZE = K * size + (PAGE_DATA_SIZE % size) /\ PAGE_DATA_SIZE % size < size
  BY PageSizeAssumption
<1> HIDE DEF K
<1>2. Fitting(size) = {n \in 1 .. K : UsedBytes(n, size) <= PAGE_DATA_SIZE}
  BY DEF Fitting, K
<1>3. Fitting(size) \subseteq 0 .. K
  BY <1>1, <1>2
<1>4. \E n \in Fitting(size) : \A m \in Fitting(size) : m <= n
  BY <1>1, <1>3, Greatest DEF RecordFits
<1>5. /\ SlotsPerPage(size) \in Fitting(size)
      /\ \A m \in Fitting(size) : m <= SlotsPerPage(size)
  BY <1>4 DEF SlotsPerPage
<1>6. ASSUME NEW m \in Nat, UsedBytes(m, size) <= PAGE_DATA_SIZE
      PROVE  m <= SlotsPerPage(size)
  <2>1. m * size \in Nat /\ K * size \in Nat
    BY <1>1
  <2>2. m * size < PAGE_DATA_SIZE
    BY <1>6, <2>1, PageSizeAssumption
       DEF UsedBytes, DataStart, BitmapBytes, RECORD_PAGE_HEADER_SIZE
  <2>3. m <= K
    <3>1. SUFFICES ASSUME K < m PROVE FALSE
      BY <1>1
    <3>2. K * size + size <= m * size
      BY <1>1, <3>1, Multiples
    <3> QED BY <1>1, <2>1, <2>2, <3>2, PageSizeAssumption
  <2>4. CASE m = 0
    BY <1>2, <1>5, <2>4
  <2>5. CASE m # 0
    BY <1>1, <1>2, <1>5, <1>6, <2>3, <2>5
  <2> QED BY <2>4, <2>5
<1> QED BY <1>1, <1>2, <1>5, <1>6

-----------------------------------------------------------------------------
(* Words, slices and bits.                                                 *)

(* The largest number of 32 bits. *)
LEMMA MaxI32Value == MaxI32 \in Int /\ MaxI32 = 2147483647
BY SMT DEF MaxI32

(* A word that was stored is read back. *)
LEMMA WordRoundTrip ==
  ASSUME NEW n \in I32
  PROVE  ToLeBytes(n) \in Seq(Bytes) /\ Len(ToLeBytes(n)) = 4 /\ FromLeBytes(ToLeBytes(n)) = n
<1> DEFINE q1 == n \div 256
           q2 == n \div 65536
           q3 == n \div 16777216
<1>1. n \in Int
  BY MaxI32Value, SMT DEF I32
<1>2. q1 \in Int /\ q2 \in Int /\ q3 \in Int
  BY <1>1
<1>3. n % 256 \in 0 .. 255 /\ q1 % 256 \in 0 .. 255 /\ q2 % 256 \in 0 .. 255 /\ q3 % 256 \in 0 .. 255
  BY <1>1, <1>2
<1>4. n = 256 * q1 + (n % 256) /\ q1 = 256 * q2 + (q1 % 256) /\ q2 = 256 * q3 + (q2 % 256)
  BY <1>1, SMT
<1>5. -128 <= q3 /\ q3 <= 127
  BY MaxI32Value, SMT DEF I32
<1>6. IF q3 % 256 < 128 THEN q3 = q3 % 256 ELSE q3 = (q3 % 256) - 256
  BY <1>2, <1>5, SMT
<1>7. ToLeBytes(n) = <<n % 256, q1 % 256, q2 % 256, q3 % 256>>
  BY DEF ToLeBytes
<1> HIDE DEF q1, q2, q3
<1>8. ToLeBytes(n) \in Seq(Bytes) /\ Len(ToLeBytes(n)) = 4
  BY <1>3, <1>7, SMT DEF Bytes
<1>9. FromLeBytes(ToLeBytes(n)) = n
  BY <1>1, <1>2, <1>3, <1>4, <1>6, <1>7, SMT DEF FromLeBytes
<1> QED BY <1>8, <1>9

(* copy_from_slice changes the bytes it is given, and no others. *)
LEMMA CopyBytes ==
  ASSUME NEW page \in DataPages, NEW start \in Nat, NEW data \in Seq(Bytes),
         start + Len(data) <= PAGE_DATA_SIZE
  PROVE  /\ CopyTo(page, start, data) \in DataPages
         /\ \A i \in 1 .. Len(data) : CopyTo(page, start, data)[start + i - 1] = data[i]
         /\ \A at \in Offsets : at < start \/ start + Len(data) <= at =>
              CopyTo(page, start, data)[at] = page[at]
<1>1. DOMAIN page = Offsets /\ \A at \in Offsets : page[at] \in Bytes
  BY DEF DataPages
<1>2. Len(data) \in Nat /\ \A i \in 1 .. Len(data) : data[i] \in Bytes
  OBVIOUS
<1>3. \A i \in 1 .. Len(data) : start + i - 1 \in Offsets
  BY <1>2, PageSizeAssumption, SMT DEF Offsets
<1>4. \A at \in Offsets : at \in start .. start + Len(data) - 1 => data[at - start + 1] \in Bytes
  BY <1>2, PageSizeAssumption, SMT DEF Offsets
<1>5. CopyTo(page, start, data) \in DataPages
  BY <1>1, <1>4 DEF CopyTo, DataPages
<1>6. \A i \in 1 .. Len(data) : CopyTo(page, start, data)[start + i - 1] = data[i]
  <2> SUFFICES ASSUME NEW i \in 1 .. Len(data)
               PROVE  CopyTo(page, start, data)[start + i - 1] = data[i]
    OBVIOUS
  <2>1. /\ start + i - 1 \in DOMAIN page
        /\ start + i - 1 \in start .. start + Len(data) - 1
        /\ (start + i - 1) - start + 1 = i
    BY <1>1, <1>2, <1>3
  <2> QED BY <2>1, SMT DEF CopyTo
<1>7. \A at \in Offsets : at < start \/ start + Len(data) <= at =>
        CopyTo(page, start, data)[at] = page[at]
  BY <1>1, <1>2, PageSizeAssumption, SMT DEF CopyTo, Offsets
<1> QED BY <1>5, <1>6, <1>7

(* A slice of what was copied is what was copied. *)
LEMMA CopySlice ==
  ASSUME NEW page \in DataPages, NEW start \in Nat, NEW data \in Seq(Bytes),
         start + Len(data) <= PAGE_DATA_SIZE
  PROVE  Slice(CopyTo(page, start, data), start, Len(data)) = data
BY CopyBytes DEF Slice

(* A slice apart from what is overwritten stays. *)
LEMMA CopyApart ==
  ASSUME NEW page \in DataPages, NEW start \in Nat, NEW data \in Seq(Bytes),
         NEW size \in Nat, size = Len(data), start + size <= PAGE_DATA_SIZE,
         NEW from \in Nat, NEW len \in Nat, from + len <= PAGE_DATA_SIZE,
         from + len <= start \/ start + size <= from
  PROVE  Slice(CopyTo(page, start, data), from, len) = Slice(page, from, len)
<1>1. \A i \in 1 .. len : /\ from + i - 1 \in Offsets
                          /\ from + i - 1 < start \/ start + size <= from + i - 1
  BY PageSizeAssumption, SMT DEF Offsets
<1>2. \A at \in Offsets : at < start \/ start + size <= at =>
        CopyTo(page, start, data)[at] = page[at]
  BY CopyBytes
<1>3. \A i \in 1 .. len : CopyTo(page, start, data)[from + i - 1] = page[from + i - 1]
  BY <1>1, <1>2
<1> QED BY <1>3 DEF Slice

(* Bits of a byte.                                                         *)

Bit == {0, 1}
Sum(d0, d1, d2, d3, d4, d5, d6, d7) ==
  d0 + 2 * d1 + 4 * d2 + 8 * d3 + 16 * d4 + 32 * d5 + 64 * d6 + 128 * d7
ByteOf(d) == Sum(d[0], d[1], d[2], d[3], d[4], d[5], d[6], d[7])
Mask(n) == <<1, 2, 4, 8, 16, 32, 64, 128>>[n + 1]
BitsOf(b) == [n \in 0 .. 7 |-> (b \div Mask(n)) % 2]

(* The masks of the bits of a byte. *)
LEMMA MaskValues ==
  /\ Mask(0) = 1 /\ Mask(1) = 2 /\ Mask(2) = 4 /\ Mask(3) = 8
  /\ Mask(4) = 16 /\ Mask(5) = 32 /\ Mask(6) = 64 /\ Mask(7) = 128
BY DEF Mask


(* Every byte is the sum of its bits. *)
LEMMA ByteHasBits ==
  ASSUME NEW b \in Bytes
  PROVE  BitsOf(b) \in [0 .. 7 -> Bit] /\ b = ByteOf(BitsOf(b))
<1> DEFINE d(m) == (b \div m) % 2
<1>1. /\ b = d(1) + 2 * (b \div 2) /\ b \div 2 = d(2) + 2 * (b \div 4)
      /\ b \div 4 = d(4) + 2 * (b \div 8) /\ b \div 8 = d(8) + 2 * (b \div 16)
  BY SMT DEF Bytes
<1>2. /\ b \div 16 = d(16) + 2 * (b \div 32) /\ b \div 32 = d(32) + 2 * (b \div 64)
      /\ b \div 64 = d(64) + 2 * (b \div 128) /\ b \div 128 = d(128)
  BY SMT DEF Bytes
<1>3. /\ d(1) \in Bit /\ d(2) \in Bit /\ d(4) \in Bit /\ d(8) \in Bit
      /\ d(16) \in Bit /\ d(32) \in Bit /\ d(64) \in Bit /\ d(128) \in Bit
  BY SMT DEF Bytes, Bit
<1>4. b = Sum(d(1), d(2), d(4), d(8), d(16), d(32), d(64), d(128))
  BY <1>1, <1>2, SMT DEF Sum, Bytes
<1>5. \A n \in 0 .. 7 : BitsOf(b)[n] = d(Mask(n))
  BY DEF BitsOf
<1> HIDE DEF d
<1>6. /\ BitsOf(b)[0] = d(1) /\ BitsOf(b)[1] = d(2) /\ BitsOf(b)[2] = d(4) /\ BitsOf(b)[3] = d(8)
      /\ BitsOf(b)[4] = d(16) /\ BitsOf(b)[5] = d(32) /\ BitsOf(b)[6] = d(64) /\ BitsOf(b)[7] = d(128)
  BY <1>5, MaskValues
<1>7. \A n \in 0 .. 7 : n \in {0, 1, 2, 3, 4, 5, 6, 7}
  OBVIOUS
<1>8. BitsOf(b) \in [0 .. 7 -> Bit]
  BY <1>3, <1>6, <1>7 DEF BitsOf
<1> QED BY <1>4, <1>6, <1>8, Zenon DEF ByteOf

(* The bits of the sum are the bits it was made of. *)
LEMMA BitsOfSum ==
  ASSUME NEW d \in [0 .. 7 -> Bit]
  PROVE  ByteOf(d) \in Bytes /\ BitsOf(ByteOf(d)) = d
<1>1. d[0] \in Bit /\ d[1] \in Bit /\ d[2] \in Bit /\ d[3] \in Bit
  OBVIOUS
<1>2. d[4] \in Bit /\ d[5] \in Bit /\ d[6] \in Bit /\ d[7] \in Bit
  OBVIOUS
<1>3. PICK d0 \in Bit : d0 = d[0]
  BY <1>1
<1>4. PICK d1 \in Bit : d1 = d[1]
  BY <1>1
<1>5. PICK d2 \in Bit : d2 = d[2]
  BY <1>1
<1>6. PICK d3 \in Bit : d3 = d[3]
  BY <1>1
<1>7. PICK d4 \in Bit : d4 = d[4]
  BY <1>2
<1>8. PICK d5 \in Bit : d5 = d[5]
  BY <1>2
<1>9. PICK d6 \in Bit : d6 = d[6]
  BY <1>2
<1>10. PICK d7 \in Bit : d7 = d[7]
  BY <1>2
<1> DEFINE b == Sum(d0, d1, d2, d3, d4, d5, d6, d7)
<1>11. b = ByteOf(d)
  BY <1>3, <1>4, <1>5, <1>6, <1>7, <1>8, <1>9, <1>10 DEF ByteOf
<1>12. b \in Bytes
  BY SMT DEF Bytes, Sum, Bit
<1>13. (b \div 1) % 2 = d0 /\ (b \div 2) % 2 = d1
  BY SMT DEF Sum, Bit
<1>14. (b \div 4) % 2 = d2
  BY SMT DEF Sum, Bit
<1>15. (b \div 8) % 2 = d3
  BY SMT DEF Sum, Bit
<1>16. (b \div 16) % 2 = d4
  BY SMT DEF Sum, Bit
<1>17. (b \div 32) % 2 = d5
  BY SMT DEF Sum, Bit
<1>18. (b \div 64) % 2 = d6
  BY SMT DEF Sum, Bit
<1>19. (b \div 128) % 2 = d7
  BY SMT DEF Sum, Bit
<1> HIDE DEF b
<1>20. BitsOf(b)[0] = d[0] /\ BitsOf(b)[1] = d[1] /\ BitsOf(b)[2] = d[2] /\ BitsOf(b)[3] = d[3]
  BY <1>3, <1>4, <1>5, <1>6, <1>13, <1>14, <1>15, MaskValues DEF BitsOf
<1>21. BitsOf(b)[4] = d[4] /\ BitsOf(b)[5] = d[5] /\ BitsOf(b)[6] = d[6] /\ BitsOf(b)[7] = d[7]
  BY <1>7, <1>8, <1>9, <1>10, <1>16, <1>17, <1>18, <1>19, MaskValues DEF BitsOf
<1>22. \A n \in 0 .. 7 : n \in {0, 1, 2, 3, 4, 5, 6, 7}
  OBVIOUS
<1>23. BitsOf(b) \in [0 .. 7 -> Bit]
  BY <1>12, ByteHasBits
<1>24. \A n \in 0 .. 7 : BitsOf(b)[n] = d[n]
  BY <1>20, <1>21, <1>22, Zenon
<1>25. BitsOf(b) = d
  <2>1. ASSUME NEW e \in [0 .. 7 -> Bit], \A n \in 0 .. 7 : e[n] = d[n]
        PROVE  e = d
    BY <2>1
  <2> QED BY <1>23, <1>24, <2>1
<1> QED BY <1>11, <1>12, <1>25

(* Adding the mask of a bit that is not set sets it, and no other. *)
LEMMA BitChanged ==
  ASSUME NEW b \in Bytes, NEW i \in 0 .. 7
  PROVE  /\ BitsOf(b)[i] \in Bit
         /\ BitsOf(b)[i] = 0 => /\ b + Mask(i) \in Bytes
                                /\ BitsOf(b + Mask(i)) = [BitsOf(b) EXCEPT ![i] = 1]
         /\ BitsOf(b)[i] = 1 => /\ b - Mask(i) \in Bytes
                                /\ BitsOf(b - Mask(i)) = [BitsOf(b) EXCEPT ![i] = 0]
<1> DEFINE d == BitsOf(b)
<1>1. d \in [0 .. 7 -> Bit] /\ b = ByteOf(d) /\ b \in Nat
  <2>1. b \in Nat
    BY DEF Bytes
  <2> QED BY <2>1, ByteHasBits
<1> HIDE DEF d
<1>2. ASSUME NEW v \in Bit
      PROVE  ByteOf([d EXCEPT ![i] = v]) = b + (v - d[i]) * Mask(i)
  <2>1. i \in {0, 1, 2, 3, 4, 5, 6, 7}
    OBVIOUS
  <2>2. PICK e : e = [d EXCEPT ![i] = v]
    OBVIOUS
  <2>3. \A n \in 0 .. 7 : e[n] = IF n = i THEN v ELSE d[n]
    BY <1>1, <2>2
  <2>4. \A n \in 0 .. 7 : d[n] \in Int
    BY <1>1 DEF Bit
  <2>5. ByteOf(e) = b + (v - d[i]) * Mask(i)
    <3>0. CASE i = 0
      BY <1>1, <2>3, <2>4, <3>0, MaskValues, SMT DEF ByteOf, Sum, Bit
    <3>1. CASE i = 1
      BY <1>1, <2>3, <2>4, <3>1, MaskValues, SMT DEF ByteOf, Sum, Bit
    <3>2. CASE i = 2
      BY <1>1, <2>3, <2>4, <3>2, MaskValues, SMT DEF ByteOf, Sum, Bit
    <3>3. CASE i = 3
      BY <1>1, <2>3, <2>4, <3>3, MaskValues, SMT DEF ByteOf, Sum, Bit
    <3>4. CASE i = 4
      BY <1>1, <2>3, <2>4, <3>4, MaskValues, SMT DEF ByteOf, Sum, Bit
    <3>5. CASE i = 5
      BY <1>1, <2>3, <2>4, <3>5, MaskValues, SMT DEF ByteOf, Sum, Bit
    <3>6. CASE i = 6
      BY <1>1, <2>3, <2>4, <3>6, MaskValues, SMT DEF ByteOf, Sum, Bit
    <3>7. CASE i = 7
      BY <1>1, <2>3, <2>4, <3>7, MaskValues, SMT DEF ByteOf, Sum, Bit
    <3> QED BY <2>1, <3>0, <3>1, <3>2, <3>3, <3>4, <3>5, <3>6, <3>7
  <2> QED BY <2>2, <2>5
<1>3. \A v \in Bit : [d EXCEPT ![i] = v] \in [0 .. 7 -> Bit]
  BY <1>1
<1>4. Mask(i) \in Nat
  BY MaskValues
<1>5. d[i] = 0 => ByteOf([d EXCEPT ![i] = 1]) = b + Mask(i)
  BY <1>1, <1>2, <1>4 DEF Bit
<1>6. d[i] = 1 => ByteOf([d EXCEPT ![i] = 0]) = b - Mask(i)
  BY <1>1, <1>2, <1>4 DEF Bit
<1>7. d[i] \in Bit
  BY <1>1
<1>8. 0 \in Bit /\ 1 \in Bit
  BY DEF Bit
<1> QED BY <1>3, <1>5, <1>6, <1>7, <1>8, BitsOfSum DEF d

(* Setting or clearing one bit of a byte leaves the seven others. *)
LEMMA BitsOfByte ==
  ASSUME NEW b \in Bytes, NEW i \in 0 .. 7, NEW j \in 0 .. 7
  PROVE  /\ (b \div Mask(i)) % 2 = 0 =>
              /\ b + Mask(i) \in Bytes
              /\ ((b + Mask(i)) \div Mask(j)) % 2 = IF i = j THEN 1 ELSE (b \div Mask(j)) % 2
         /\ (b \div Mask(i)) % 2 = 1 =>
              /\ b - Mask(i) \in Bytes
              /\ ((b - Mask(i)) \div Mask(j)) % 2 = IF i = j THEN 0 ELSE (b \div Mask(j)) % 2
         /\ (b \div Mask(i)) % 2 \in {0, 1}
<1>1. \A c : \A n \in 0 .. 7 : BitsOf(c)[n] = (c \div Mask(n)) % 2
  BY DEF BitsOf
<1>2. BitsOf(b) \in [0 .. 7 -> Bit]
  BY ByteHasBits
<1>3. \A v : [BitsOf(b) EXCEPT ![i] = v][j] = IF i = j THEN v ELSE BitsOf(b)[j]
  BY <1>2
<1>4. CASE BitsOf(b)[i] = 0
  <2>1. b + Mask(i) \in Bytes /\ BitsOf(b + Mask(i)) = [BitsOf(b) EXCEPT ![i] = 1]
    BY <1>4, BitChanged
  <2>2. BitsOf(b + Mask(i))[j] = IF i = j THEN 1 ELSE BitsOf(b)[j]
    BY <1>3, <2>1
  <2> QED BY <1>1, <1>4, <2>1, <2>2
<1>5. CASE BitsOf(b)[i] = 1
  <2>1. b - Mask(i) \in Bytes /\ BitsOf(b - Mask(i)) = [BitsOf(b) EXCEPT ![i] = 0]
    BY <1>5, BitChanged
  <2>2. BitsOf(b - Mask(i))[j] = IF i = j THEN 0 ELSE BitsOf(b)[j]
    BY <1>3, <2>1
  <2> QED BY <1>1, <1>5, <2>1, <2>2
<1> QED BY <1>2, <1>4, <1>5 DEF Bit

(* The bit of a slot is that of its number modulo eight. *)
LEMMA MaskOfSlot ==
  \A s : BitMask(s) = Mask(s % 8)
BY DEF BitMask, Mask

-----------------------------------------------------------------------------
(* The bitmap.                                                             *)

(* The layout of a page leaves room for the header and for few enough slots. *)
LEMMA LayoutBounds ==
  ASSUME NEW slots \in Nat \ {0}, NEW size \in Nat \ {0},
         UsedBytes(slots, size) <= PAGE_DATA_SIZE
  PROVE  /\ DataStart(slots) \in Nat /\ 12 <= DataStart(slots)
         /\ DataStart(slots) <= PAGE_DATA_SIZE
         /\ slots <= PAGE_DATA_SIZE /\ slots \in I32
<1> DEFINE d == size - 1
<1>1. DataStart(slots) \in Nat /\ 12 <= DataStart(slots)
  BY DEF DataStart, BitmapBytes, RECORD_PAGE_HEADER_SIZE
<1>2. d \in Nat /\ size = 1 + d
  OBVIOUS
<1>3. slots * d \in Nat
  BY <1>2
<1>4. slots * (1 + d) = slots + slots * d
  BY <1>2
<1>5. slots * size \in Nat /\ slots <= slots * size
  BY <1>2, <1>3, <1>4
<1>6. UsedBytes(slots, size) = DataStart(slots) + slots * size
  BY DEF UsedBytes
<1> QED BY <1>1, <1>5, <1>6, PageSizeAssumption, MaxI32Value, SMT DEF I32

(* Two slots have different bytes or different bits, and every bit is in a byte of the page. *)
LEMMA BitPlaces ==
  ASSUME NEW slots \in Nat \ {0}, NEW size \in Nat \ {0},
         UsedBytes(slots, size) <= PAGE_DATA_SIZE,
         NEW s \in SlotIds(slots), NEW t \in SlotIds(slots)
  PROVE  /\ s % 8 \in 0 .. 7
         /\ BitmapByte(s) \in Offsets
         /\ 12 <= BitmapByte(s) /\ BitmapByte(s) < DataStart(slots)
         /\ s = t <=> BitmapByte(s) = BitmapByte(t) /\ s % 8 = t % 8
<1>1. s \in Nat /\ t \in Nat
  BY DEF SlotIds
<1>2. BitmapByte(s) \in 12 .. DataStart(slots) - 1
  BY SlotsApart DEF RECORD_PAGE_HEADER_SIZE
<1>3. BitmapByte(s) \in Offsets
  BY <1>2, LayoutBounds, PageSizeAssumption, SMT DEF Offsets
<1>4. s = 8 * (s \div 8) + (s % 8) /\ t = 8 * (t \div 8) + (t % 8)
  BY <1>1
<1>5. s \div 8 \in Nat /\ t \div 8 \in Nat /\ s % 8 \in 0 .. 7 /\ t % 8 \in 0 .. 7
  BY <1>1
<1>6. BitmapByte(s) = BitmapByte(t) <=> s \div 8 = t \div 8
  BY <1>5 DEF BitmapByte, RECORD_PAGE_HEADER_SIZE
<1> QED BY <1>2, <1>3, <1>4, <1>5, <1>6, LayoutBounds

MarkTaken(page, s) == SetSlotFree(page, s, FALSE)
MarkFree(page, s) == SetSlotFree(page, s, TRUE)

(* set_slot_free changes the bit of its slot, and nothing else in the page. *)
LEMMA SlotTaken ==
  ASSUME NEW slots \in Nat \ {0}, NEW size \in Nat \ {0},
         UsedBytes(slots, size) <= PAGE_DATA_SIZE,
         NEW page \in DataPages, NEW s \in SlotIds(slots), s \in FreeSlots(page, slots)
  PROVE  /\ MarkTaken(page, s) \in DataPages
         /\ \A at \in Offsets : at < 12 \/ DataStart(slots) <= at =>
              MarkTaken(page, s)[at] = page[at]
         /\ FreeSlots(MarkTaken(page, s), slots) = FreeSlots(page, slots) \ {s}
<1> DEFINE new == MarkTaken(page, s)
           byte == page[BitmapByte(s)]
<1>1. s \in SlotIds(slots) /\ (byte \div BitMask(s)) % 2 = 1
  BY DEF FreeSlots, SlotIds, SlotIsFree
<1>2. BitmapByte(s) \in Offsets /\ s % 8 \in 0 .. 7 /\ byte \in Bytes
  BY <1>1, BitPlaces DEF DataPages
<1>3. new = [page EXCEPT ![BitmapByte(s)] = byte - BitMask(s)]
  BY <1>1 DEF MarkTaken, SetSlotFree, SlotIsFree
<1>4. byte - BitMask(s) \in Bytes
  BY <1>1, <1>2, BitsOfByte, MaskOfSlot
<1>5. new \in DataPages
  BY <1>2, <1>3, <1>4 DEF DataPages
<1>6. \A at \in Offsets : at # BitmapByte(s) => new[at] = page[at]
  BY <1>3 DEF DataPages
<1>7. new[BitmapByte(s)] = byte - BitMask(s)
  BY <1>2, <1>3 DEF DataPages
<1>8. ASSUME NEW t \in SlotIds(slots)
      PROVE  SlotIsFree(new, t) <=> SlotIsFree(page, t) /\ t # s
  <2>1. BitmapByte(t) \in Offsets /\ t % 8 \in 0 .. 7
        /\ (s = t <=> BitmapByte(s) = BitmapByte(t) /\ s % 8 = t % 8)
    BY <1>1, BitPlaces
  <2>2. CASE BitmapByte(t) # BitmapByte(s)
    BY <1>6, <2>1, <2>2 DEF SlotIsFree
  <2>3. CASE BitmapByte(t) = BitmapByte(s)
    <3>1. ((byte - BitMask(s)) \div BitMask(t)) % 2 =
            IF s % 8 = t % 8 THEN 0 ELSE (byte \div BitMask(t)) % 2
      BY <1>1, <1>2, <2>1, BitsOfByte, MaskOfSlot
    <3> HIDE DEF new
    <3>2. CASE s % 8 = t % 8
      BY <1>7, <2>1, <2>3, <3>1, <3>2 DEF SlotIsFree
    <3>3. CASE s % 8 # t % 8
      BY <1>7, <2>1, <2>3, <3>1, <3>3 DEF SlotIsFree
    <3> QED BY <3>2, <3>3
  <2> QED BY <2>2, <2>3
<1>9. FreeSlots(new, slots) = FreeSlots(page, slots) \ {s}
  BY <1>8 DEF FreeSlots, SlotIds
<1>10. 12 <= BitmapByte(s) /\ BitmapByte(s) < DataStart(slots) /\ DataStart(slots) \in Nat
  BY <1>1, BitPlaces, LayoutBounds
<1>11. \A at \in Offsets : at < 12 \/ DataStart(slots) <= at => at # BitmapByte(s)
  BY <1>10, PageSizeAssumption, SMT DEF Offsets
<1>12. \A at \in Offsets : at < 12 \/ DataStart(slots) <= at => new[at] = page[at]
  BY <1>6, <1>11
<1> QED BY <1>5, <1>9, <1>12

(* The same of a slot that is given back. *)
LEMMA SlotFreed ==
  ASSUME NEW slots \in Nat \ {0}, NEW size \in Nat \ {0},
         UsedBytes(slots, size) <= PAGE_DATA_SIZE,
         NEW page \in DataPages, NEW s \in SlotIds(slots) \ FreeSlots(page, slots)
  PROVE  /\ MarkFree(page, s) \in DataPages
         /\ \A at \in Offsets : at < 12 \/ DataStart(slots) <= at =>
              MarkFree(page, s)[at] = page[at]
         /\ FreeSlots(MarkFree(page, s), slots) = FreeSlots(page, slots) \cup {s}
<1> DEFINE new == MarkFree(page, s)
           byte == page[BitmapByte(s)]
<1>1. s \in SlotIds(slots) /\ ~SlotIsFree(page, s)
  BY DEF FreeSlots, SlotIds
<1>2. BitmapByte(s) \in Offsets /\ s % 8 \in 0 .. 7 /\ byte \in Bytes
  BY <1>1, BitPlaces DEF DataPages
<1>3. (byte \div BitMask(s)) % 2 = 0
  <2>1. (byte \div BitMask(s)) % 2 \in {0, 1}
    BY <1>2, BitsOfByte, MaskOfSlot
  <2>2. (byte \div BitMask(s)) % 2 # 1
    BY <1>1, Zenon DEF SlotIsFree
  <2> HIDE DEF byte
  <2> QED BY <2>1, <2>2
<1>4. new = [page EXCEPT ![BitmapByte(s)] = byte + BitMask(s)]
  BY <1>1 DEF MarkFree, SetSlotFree
<1>5. byte + BitMask(s) \in Bytes
  BY <1>2, <1>3, BitsOfByte, MaskOfSlot
<1>6. new \in DataPages
  BY <1>2, <1>4, <1>5 DEF DataPages
<1>7. \A at \in Offsets : at # BitmapByte(s) => new[at] = page[at]
  BY <1>4 DEF DataPages
<1>8. new[BitmapByte(s)] = byte + BitMask(s)
  BY <1>2, <1>4 DEF DataPages
<1>9. ASSUME NEW t \in SlotIds(slots)
      PROVE  SlotIsFree(new, t) <=> SlotIsFree(page, t) \/ t = s
  <2>1. BitmapByte(t) \in Offsets /\ t % 8 \in 0 .. 7
        /\ (s = t <=> BitmapByte(s) = BitmapByte(t) /\ s % 8 = t % 8)
    BY <1>1, BitPlaces
  <2>2. CASE BitmapByte(t) # BitmapByte(s)
    BY <1>7, <2>1, <2>2 DEF SlotIsFree
  <2>3. CASE BitmapByte(t) = BitmapByte(s)
    <3>1. ((byte + BitMask(s)) \div BitMask(t)) % 2 =
            IF s % 8 = t % 8 THEN 1 ELSE (byte \div BitMask(t)) % 2
      BY <1>2, <1>3, <2>1, BitsOfByte, MaskOfSlot
    <3> HIDE DEF new
    <3>2. CASE s % 8 = t % 8
      BY <1>8, <2>1, <2>3, <3>1, <3>2 DEF SlotIsFree
    <3>3. CASE s % 8 # t % 8
      BY <1>8, <2>1, <2>3, <3>1, <3>3 DEF SlotIsFree
    <3> QED BY <3>2, <3>3
  <2> QED BY <2>2, <2>3
<1>10. FreeSlots(new, slots) = FreeSlots(page, slots) \cup {s}
  BY <1>1, <1>9 DEF FreeSlots, SlotIds
<1>11. 12 <= BitmapByte(s) /\ BitmapByte(s) < DataStart(slots) /\ DataStart(slots) \in Nat
  BY <1>1, BitPlaces, LayoutBounds
<1>12. \A at \in Offsets : at < 12 \/ DataStart(slots) <= at => at # BitmapByte(s)
  BY <1>11, PageSizeAssumption, SMT DEF Offsets
<1>13. \A at \in Offsets : at < 12 \/ DataStart(slots) <= at => new[at] = page[at]
  BY <1>7, <1>12
<1> QED BY <1>6, <1>10, <1>13

(* The bitmap is all that FreeSlots looks at. *)
LEMMA SameBitmap ==
  ASSUME NEW slots \in Nat \ {0}, NEW size \in Nat \ {0},
         UsedBytes(slots, size) <= PAGE_DATA_SIZE,
         NEW page, NEW other,
         \A at \in Offsets : 12 <= at /\ at < DataStart(slots) => page[at] = other[at]
  PROVE  FreeSlots(page, slots) = FreeSlots(other, slots)
<1>1. \A s \in SlotIds(slots) : page[BitmapByte(s)] = other[BitmapByte(s)]
  BY BitPlaces
<1> QED BY <1>1 DEF FreeSlots, SlotIds, SlotIsFree

(* find_first_free_slot finds the first, if there is one. *)
LEMMA FirstFree ==
  ASSUME NEW page, NEW slots \in Nat, FreeSlots(page, slots) # {}
  PROVE  /\ FirstFreeSlot(page, slots) \in FreeSlots(page, slots)
         /\ \A t \in FreeSlots(page, slots) : FirstFreeSlot(page, slots) <= t
<1> DEFINE free == FreeSlots(page, slots)
<1>1. free \subseteq Nat
  BY DEF FreeSlots, SlotIds
<1>2. PICK s \in free : \A t \in free : <<t, s>> \notin OpToRel(<, Nat)
  BY <1>1, NatLessThanWellFounded, WFMin
<1>3. \A t \in free : ~(t < s)
  BY <1>1, <1>2 DEF OpToRel
<1>4. \A t \in free : s <= t
  BY <1>1, <1>3
<1> QED BY <1>4 DEF FirstFreeSlot

-----------------------------------------------------------------------------
(* The header, and the records next to a slot that is written.             *)

Headers == [next_free_page : I32, num_slots : I32, num_free_slots : I32]

(* One word of the header is written: it reads back, the others stay. *)
LEMMA WordWritten ==
  ASSUME 12 <= PAGE_DATA_SIZE, NEW page \in DataPages, NEW start \in {0, 4, 8}, NEW n \in I32
  PROVE  LET new == CopyTo(page, start, ToLeBytes(n)) IN
         /\ new \in DataPages
         /\ FromLeBytes(Slice(new, start, 4)) = n
         /\ \A from \in {0, 4, 8} \ {start} : Slice(new, from, 4) = Slice(page, from, 4)
         /\ \A at \in Offsets : 12 <= at => new[at] = page[at]
<1> DEFINE word == ToLeBytes(n)
           new == CopyTo(page, start, word)
<1>1. word \in Seq(Bytes) /\ Len(word) = 4 /\ FromLeBytes(word) = n
  BY WordRoundTrip
<1> HIDE DEF word
<1>2. start \in Nat /\ start + Len(word) <= PAGE_DATA_SIZE
  BY <1>1, PageSizeAssumption, SMT
<1>3. Slice(new, start, Len(word)) = word
  BY <1>1, <1>2, CopySlice
<1>4. ASSUME NEW from \in {0, 4, 8} \ {start}
      PROVE  Slice(new, from, 4) = Slice(page, from, 4)
  <2>1. \A i \in 1 .. 4 : /\ from + i - 1 \in Offsets
                          /\ from + i - 1 < start \/ start + Len(word) <= from + i - 1
    BY <1>1, PageSizeAssumption, SMT DEF Offsets
  <2>2. \A i \in 1 .. 4 : new[from + i - 1] = page[from + i - 1]
    BY <1>1, <1>2, <2>1, CopyBytes
  <2> QED BY <2>2 DEF Slice
<1>5. new \in DataPages
  BY <1>1, <1>2, CopyBytes
<1>6. ASSUME NEW at \in Offsets, 12 <= at
      PROVE  new[at] = page[at]
  <2>1. start + Len(word) <= at
    BY <1>1, <1>6, PageSizeAssumption, SMT DEF Offsets
  <2> QED BY <1>1, <1>2, <2>1, CopyBytes
<1> QED BY <1>1, <1>3, <1>4, <1>5, <1>6 DEF word

(* A header that was encoded is decoded again; the bytes behind it stay. *)
LEMMA HeaderRoundTrip ==
  ASSUME 12 <= PAGE_DATA_SIZE, NEW page \in DataPages, NEW h \in Headers
  PROVE  /\ EncodeHeader(page, h) \in DataPages
         /\ \A at \in Offsets : 12 <= at => EncodeHeader(page, h)[at] = page[at]
         /\ DecodeHeader(EncodeHeader(page, h)) = h
<1> DEFINE p0 == CopyTo(page, 0, ToLeBytes(h.next_free_page))
           p4 == CopyTo(p0, 4, ToLeBytes(h.num_slots))
           p8 == CopyTo(p4, 8, ToLeBytes(h.num_free_slots))
           Word(p, start) == FromLeBytes(Slice(p, start, 4))
<1>1. h.next_free_page \in I32 /\ h.num_slots \in I32 /\ h.num_free_slots \in I32
  BY DEF Headers
<1> DEFINE Put(p, start, n) == CopyTo(p, start, ToLeBytes(n))
           Behind(q, p) == \A at \in Offsets : 12 <= at => q[at] = p[at]
<1>2. ASSUME NEW p \in DataPages, NEW n \in I32
      PROVE  /\ Put(p, 0, n) \in DataPages /\ Behind(Put(p, 0, n), p)
             /\ Word(Put(p, 0, n), 0) = n
  BY WordWritten
<1>3. ASSUME NEW p \in DataPages, NEW n \in I32
      PROVE  /\ Put(p, 4, n) \in DataPages /\ Behind(Put(p, 4, n), p)
             /\ Word(Put(p, 4, n), 4) = n /\ Word(Put(p, 4, n), 0) = Word(p, 0)
  BY WordWritten
<1>4. ASSUME NEW p \in DataPages, NEW n \in I32
      PROVE  /\ Put(p, 8, n) \in DataPages /\ Behind(Put(p, 8, n), p)
             /\ Word(Put(p, 8, n), 8) = n /\ Word(Put(p, 8, n), 0) = Word(p, 0)
             /\ Word(Put(p, 8, n), 4) = Word(p, 4)
  BY WordWritten
<1>5. /\ p8 \in DataPages
      /\ Word(p8, 8) = h.num_free_slots
      /\ Word(p8, 4) = h.num_slots /\ Word(p8, 0) = h.next_free_page
      /\ \A at \in Offsets : 12 <= at => p8[at] = page[at]
  <2>0. /\ p0 = Put(page, 0, h.next_free_page) /\ p4 = Put(p0, 4, h.num_slots)
        /\ p8 = Put(p4, 8, h.num_free_slots)
    OBVIOUS
  <2> HIDE DEF Word, Put, Behind, p0, p4, p8
  <2>1. p0 \in DataPages /\ Behind(p0, page) /\ Word(p0, 0) = h.next_free_page
    BY <1>1, <1>2, <2>0
  <2>2. /\ p4 \in DataPages /\ Behind(p4, p0)
        /\ Word(p4, 4) = h.num_slots /\ Word(p4, 0) = h.next_free_page
    BY <1>1, <1>3, <2>0, <2>1
  <2>3. /\ p8 \in DataPages /\ Behind(p8, p4) /\ Word(p8, 8) = h.num_free_slots
        /\ Word(p8, 4) = h.num_slots /\ Word(p8, 0) = h.next_free_page
    BY <1>1, <1>4, <2>0, <2>2
  <2>4. \A at \in Offsets : 12 <= at => p8[at] = page[at]
    BY <2>1, <2>2, <2>3 DEF Behind
  <2> QED BY <2>3, <2>4
<1> HIDE DEF p0, p4, p8, Word
<1>6. DecodeHeader(p8) = h
  BY <1>5 DEF DecodeHeader, Headers, Word
<1>7. EncodeHeader(page, h) = p8
  BY DEF EncodeHeader, p0, p4, p8
<1> QED BY <1>5, <1>6, <1>7

(* Four bytes are never more than an i32. *)
LEMMA WordInRange ==
  ASSUME NEW b, \A i \in 1 .. 4 : b[i] \in Bytes
  PROVE  FromLeBytes(b) \in I32
<1>1. b[1] \in Bytes /\ b[2] \in Bytes /\ b[3] \in Bytes /\ b[4] \in Bytes
  OBVIOUS
<1>2. PICK b1 \in Bytes : b1 = b[1]
  BY <1>1
<1>3. PICK b2 \in Bytes : b2 = b[2]
  BY <1>1
<1>4. PICK b3 \in Bytes : b3 = b[3]
  BY <1>1
<1>5. PICK b4 \in Bytes : b4 = b[4]
  BY <1>1
<1> DEFINE top == IF b4 < 128 THEN b4 ELSE b4 - 256
<1>6. top \in -128 .. 127
  BY SMT DEF Bytes
<1>7. FromLeBytes(b) = b1 + 256 * b2 + 65536 * b3 + 16777216 * top
  BY <1>2, <1>3, <1>4, <1>5 DEF FromLeBytes
<1> HIDE DEF top
<1> QED BY <1>6, <1>7, MaxI32Value, SMT DEF Bytes, I32

(* Any bytes decode to a header, and the first twelve decide which. *)
LEMMA HeaderDecodes ==
  ASSUME 12 <= PAGE_DATA_SIZE, NEW page \in DataPages
  PROVE  /\ DecodeHeader(page) \in Headers
         /\ \A other \in DataPages :
              (\A at \in Offsets : at < 12 => other[at] = page[at])
                => DecodeHeader(other) = DecodeHeader(page)
<1>1. ASSUME NEW start \in {0, 4, 8}
      PROVE  FromLeBytes(Slice(page, start, 4)) \in I32
  <2> DEFINE b == Slice(page, start, 4)
  <2>1. \A i \in 1 .. 4 : b[i] \in Bytes
    BY PageSizeAssumption, SMT DEF Slice, DataPages, Offsets
  <2> HIDE DEF b
  <2>2. FromLeBytes(b) \in I32
    BY <2>1, WordInRange
  <2> QED BY <2>2 DEF b
<1>2. ASSUME NEW other \in DataPages, \A at \in Offsets : at < 12 => other[at] = page[at],
             NEW start \in {0, 4, 8}
      PROVE  Slice(other, start, 4) = Slice(page, start, 4)
  <2>1. \A i \in 1 .. 4 : start + i - 1 \in Offsets /\ start + i - 1 < 12
    BY PageSizeAssumption, SMT DEF Offsets
  <2>2. \A i \in 1 .. 4 : other[start + i - 1] = page[start + i - 1]
    BY <1>2, <2>1
  <2> QED BY <2>2 DEF Slice
<1> QED BY <1>1, <1>2 DEF DecodeHeader, Headers

(* Bytes are written to one slot, and the header: what is read from the page. *)
LEMMA SlotWritten ==
  ASSUME NEW slots \in Nat \ {0}, NEW size \in Nat \ {0},
         UsedBytes(slots, size) <= PAGE_DATA_SIZE,
         NEW page \in DataPages, NEW s \in SlotIds(slots), NEW data \in Seq(Bytes),
         Len(data) = size
  PROVE  LET new == CopyTo(page, RecordStart(slots, size, s), data) IN
         /\ new \in DataPages
         /\ DecodeHeader(new) = DecodeHeader(page)
         /\ FreeSlots(new, slots) = FreeSlots(page, slots)
         /\ Record(new, slots, size, s) = data
         /\ \A t \in SlotIds(slots) \ {s} :
              Record(new, slots, size, t) = Record(page, slots, size, t)
<1> DEFINE start == RecordStart(slots, size, s)
           new == CopyTo(page, start, data)
<1>1. /\ start \in Nat /\ start + size <= PAGE_DATA_SIZE
      /\ DataStart(slots) <= start /\ DataStart(slots) \in Nat /\ 12 <= DataStart(slots)
      /\ DataStart(slots) <= PAGE_DATA_SIZE
  BY SlotsApart, LayoutBounds
<1>2. \A t \in SlotIds(slots) \ {s} :
        /\ RecordStart(slots, size, t) \in Nat
        /\ RecordStart(slots, size, t) + size <= PAGE_DATA_SIZE
        /\ \/ RecordStart(slots, size, t) + size <= start
           \/ start + size <= RecordStart(slots, size, t)
  <2> SUFFICES ASSUME NEW t \in SlotIds(slots) \ {s}
               PROVE  /\ RecordStart(slots, size, t) \in Nat
                      /\ RecordStart(slots, size, t) + size <= PAGE_DATA_SIZE
                      /\ \/ RecordStart(slots, size, t) + size <= start
                         \/ start + size <= RecordStart(slots, size, t)
    OBVIOUS
  <2>1. s < t \/ t < s
    BY DEF SlotIds
  <2> QED BY <2>1, SlotsApart
<1> HIDE DEF start
<1>3. /\ new \in DataPages
      /\ \A at \in Offsets : at < start => new[at] = page[at]
  BY <1>1, CopyBytes
<1>4. \A at \in Offsets : at < DataStart(slots) => at < start
  BY <1>1, PageSizeAssumption, SMT DEF Offsets
<1>5. \A at \in Offsets : at < 12 => at < start
  BY <1>1, PageSizeAssumption, SMT DEF Offsets
<1>6. DecodeHeader(new) = DecodeHeader(page)
  BY <1>1, <1>3, <1>5, HeaderDecodes, PageSizeAssumption
<1>7. FreeSlots(new, slots) = FreeSlots(page, slots)
  BY <1>3, <1>4, SameBitmap
<1>8. Record(new, slots, size, s) = data
  <2>1. Slice(new, start, size) = data
    BY <1>1, CopySlice
  <2> QED BY <2>1 DEF Record, start
<1>9. ASSUME NEW t \in SlotIds(slots) \ {s}
      PROVE  Record(new, slots, size, t) = Record(page, slots, size, t)
  <2> DEFINE from == RecordStart(slots, size, t)
  <2>1. /\ from \in Nat /\ size \in Nat /\ from + size <= PAGE_DATA_SIZE
        /\ start \in Nat /\ start + size <= PAGE_DATA_SIZE
        /\ from + size <= start \/ start + size <= from
    BY <1>1, <1>2
  <2> HIDE DEF from
  <2>2. Slice(new, from, size) = Slice(page, from, size)
    BY <2>1, CopyApart
  <2> QED BY <2>2 DEF Record, from
<1> QED BY <1>3, <1>6, <1>7, <1>8, <1>9 DEF start

(* A page that agrees with another behind the bitmap has its records. *)
LEMMA SameRecords ==
  ASSUME NEW slots \in Nat \ {0}, NEW size \in Nat \ {0},
         UsedBytes(slots, size) <= PAGE_DATA_SIZE,
         NEW page, NEW other,
         \A at \in Offsets : DataStart(slots) <= at => other[at] = page[at],
         NEW s \in SlotIds(slots)
  PROVE  Record(other, slots, size, s) = Record(page, slots, size, s)
<1> DEFINE start == RecordStart(slots, size, s)
<1>1. /\ start \in Nat /\ start + size <= PAGE_DATA_SIZE
      /\ DataStart(slots) <= start /\ DataStart(slots) \in Nat
  BY SlotsApart
<1> HIDE DEF start
<1>2. \A i \in 1 .. size : start + i - 1 \in Offsets /\ DataStart(slots) <= start + i - 1
  BY <1>1, PageSizeAssumption, SMT DEF Offsets
<1>3. \A i \in 1 .. size : other[start + i - 1] = page[start + i - 1]
  BY <1>2
<1> QED BY <1>3 DEF Record, Slice, start

-----------------------------------------------------------------------------
(* What the operations mean for the slots.                                 *)

\* The header of a page agrees with its bitmap.
HeaderCounts(page, slots) ==
  /\ HeaderValid(DecodeHeader(page), slots)
  /\ DecodeHeader(page).num_free_slots = Cardinality(FreeSlots(page, slots))

(* Free slots are counted by numbers that fit a header. *)
LEMMA FreeSlotsCounted ==
  ASSUME NEW slots \in Nat \ {0}, NEW size \in Nat \ {0},
         UsedBytes(slots, size) <= PAGE_DATA_SIZE, NEW page
  PROVE  /\ IsFiniteSet(FreeSlots(page, slots))
         /\ Cardinality(FreeSlots(page, slots)) \in 0 .. slots
         /\ \A n \in 0 .. slots : n \in I32
<1>1. IsFiniteSet(SlotIds(slots)) /\ Cardinality(SlotIds(slots)) = slots
  BY FS_Interval DEF SlotIds
<1>2. FreeSlots(page, slots) \in SUBSET SlotIds(slots)
  BY DEF FreeSlots, SlotIds
<1>3. /\ IsFiniteSet(FreeSlots(page, slots))
      /\ Cardinality(FreeSlots(page, slots)) <= slots
  BY <1>1, <1>2, FS_Subset
<1>4. Cardinality(FreeSlots(page, slots)) \in Nat
  BY <1>3, FS_CardinalityType
<1>5. \A n \in 0 .. slots : n \in I32
  BY LayoutBounds, MaxI32Value, SMT DEF I32
<1> QED BY <1>3, <1>4, <1>5

(* initialize_page makes a page whose slots are all free, and says so in its   *)
(* header, whatever the layout.                                                *)
THEOREM NewPageIsEmpty ==
  ASSUME NEW slots \in Nat \ {0}, NEW size \in Nat \ {0},
         UsedBytes(slots, size) <= PAGE_DATA_SIZE
  PROVE  /\ InitializePage(slots) \in DataPages
         /\ FreeSlots(InitializePage(slots), slots) = SlotIds(slots)
         /\ HeaderCounts(InitializePage(slots), slots)
         /\ DecodeHeader(InitializePage(slots)).next_free_page = RECORD_PAGE_LIST_END
<1> DEFINE blank == [at \in Offsets |->
                       IF at \in RECORD_PAGE_HEADER_SIZE .. DataStart(slots) - 1 THEN 255 ELSE 0]
           h == [next_free_page |-> RECORD_PAGE_LIST_END, num_slots |-> slots,
                 num_free_slots |-> slots]
           new == EncodeHeader(blank, h)
<1>1. blank \in DataPages
  BY DEF DataPages, Bytes
<1>2. h \in Headers
  BY LayoutBounds, MaxI32Value, SMT DEF Headers, I32, RECORD_PAGE_LIST_END
<1>3. 12 <= PAGE_DATA_SIZE
  BY LayoutBounds, PageSizeAssumption
<1> HIDE DEF h
<1>4. /\ new \in DataPages /\ DecodeHeader(new) = h
      /\ \A at \in Offsets : 12 <= at => new[at] = blank[at]
  BY <1>1, <1>2, <1>3, HeaderRoundTrip
<1>5. FreeSlots(new, slots) = FreeSlots(blank, slots)
  BY <1>4, SameBitmap
<1>6. ASSUME NEW s \in SlotIds(slots)
      PROVE  SlotIsFree(blank, s)
  <2>1. s % 8 \in 0 .. 7
    BY BitPlaces
  <2>2. BitmapByte(s) \in Offsets
    BY BitPlaces
  <2>3. BitmapByte(s) \in RECORD_PAGE_HEADER_SIZE .. DataStart(slots) - 1
    BY SlotsApart
  <2>4. blank[BitmapByte(s)] = 255
    BY <2>2, <2>3
  <2> HIDE DEF blank
  <2>5. (255 \div BitMask(s)) % 2 = 1
    <3>1. CASE s % 8 = 0
      BY <3>1 DEF BitMask
    <3>2. CASE s % 8 = 1
      BY <3>2 DEF BitMask
    <3>3. CASE s % 8 = 2
      BY <3>3 DEF BitMask
    <3>4. CASE s % 8 = 3
      BY <3>4 DEF BitMask
    <3>5. CASE s % 8 = 4
      BY <3>5 DEF BitMask
    <3>6. CASE s % 8 = 5
      BY <3>6 DEF BitMask
    <3>7. CASE s % 8 = 6
      BY <3>7 DEF BitMask
    <3>8. CASE s % 8 = 7
      BY <3>8 DEF BitMask
    <3> QED BY <2>1, <3>1, <3>2, <3>3, <3>4, <3>5, <3>6, <3>7, <3>8
  <2> QED BY <2>4, <2>5 DEF SlotIsFree
<1> HIDE DEF blank
<1>7. FreeSlots(blank, slots) = SlotIds(slots)
  BY <1>6 DEF FreeSlots, SlotIds
<1>8. Cardinality(SlotIds(slots)) = slots
  BY FS_Interval DEF SlotIds
<1>9. HeaderValid(h, slots) /\ h.num_free_slots = slots /\ h.next_free_page = RECORD_PAGE_LIST_END
  BY DEF h, HeaderValid, RECORD_PAGE_LIST_END, RECORD_PAGE_FULL
<1>10. new = InitializePage(slots)
  BY DEF InitializePage, h, blank
<1> HIDE DEF new
<1> QED BY <1>4, <1>5, <1>7, <1>8, <1>9, <1>10 DEF HeaderCounts

(* update changes the record of its slot: not the other records, not the       *)
(* bitmap, not the header.                                                     *)
THEOREM UpdateChangesItsSlot ==
  ASSUME NEW slots \in Nat \ {0}, NEW size \in Nat \ {0},
         UsedBytes(slots, size) <= PAGE_DATA_SIZE,
         NEW page \in DataPages, NEW s \in SlotIds(slots),
         NEW data \in Seq(Bytes), Len(data) = size
  PROVE  LET new == UpdateSlot(page, slots, size, s, data) IN
         /\ new \in DataPages
         /\ Record(new, slots, size, s) = data
         /\ \A t \in SlotIds(slots) \ {s} :
              Record(new, slots, size, t) = Record(page, slots, size, t)
         /\ FreeSlots(new, slots) = FreeSlots(page, slots)
         /\ DecodeHeader(new) = DecodeHeader(page)
BY SlotWritten DEF UpdateSlot

(* A slot is taken or given back, its bytes are written, and then the header.  *)
LEMMA SlotAndHeaderWritten ==
  ASSUME NEW slots \in Nat \ {0}, NEW size \in Nat \ {0},
         UsedBytes(slots, size) <= PAGE_DATA_SIZE,
         NEW page \in DataPages, NEW s \in SlotIds(slots),
         NEW marked \in DataPages,
         \A at \in Offsets : at < 12 \/ DataStart(slots) <= at => marked[at] = page[at],
         NEW data \in Seq(Bytes), Len(data) = size, NEW h \in Headers
  PROVE  LET new == EncodeHeader(CopyTo(marked, RecordStart(slots, size, s), data), h) IN
         /\ new \in DataPages
         /\ Record(new, slots, size, s) = data
         /\ \A t \in SlotIds(slots) \ {s} :
              Record(new, slots, size, t) = Record(page, slots, size, t)
         /\ FreeSlots(new, slots) = FreeSlots(marked, slots)
         /\ DecodeHeader(new) = h
<1> DEFINE filled == CopyTo(marked, RecordStart(slots, size, s), data)
           new == EncodeHeader(filled, h)
<1>1. /\ filled \in DataPages
      /\ FreeSlots(filled, slots) = FreeSlots(marked, slots)
      /\ Record(filled, slots, size, s) = data
      /\ \A t \in SlotIds(slots) \ {s} :
           Record(filled, slots, size, t) = Record(marked, slots, size, t)
  BY SlotWritten
<1>2. \A t \in SlotIds(slots) : Record(marked, slots, size, t) = Record(page, slots, size, t)
  BY SameRecords
<1> HIDE DEF filled
<1>3. 12 <= PAGE_DATA_SIZE /\ 12 <= DataStart(slots) /\ DataStart(slots) \in Nat
  BY LayoutBounds, PageSizeAssumption
<1>4. /\ new \in DataPages /\ DecodeHeader(new) = h
      /\ \A at \in Offsets : 12 <= at => new[at] = filled[at]
  BY <1>1, <1>3, HeaderRoundTrip
<1> HIDE DEF new
<1>5. \A at \in Offsets : DataStart(slots) <= at => new[at] = filled[at]
  <2>1. \A at \in Offsets : DataStart(slots) <= at => 12 <= at
    BY <1>3, PageSizeAssumption, SMT DEF Offsets
  <2> QED BY <1>4, <2>1
<1>6. \A t \in SlotIds(slots) : Record(new, slots, size, t) = Record(filled, slots, size, t)
  BY <1>5, SameRecords
<1>7. FreeSlots(new, slots) = FreeSlots(filled, slots)
  BY <1>4, SameBitmap
<1> QED BY <1>1, <1>2, <1>4, <1>6, <1>7 DEF new, filled

(* insert and delete written with the two names of SetSlotFree.                *)
LEMMA InsertedAs ==
  ASSUME NEW page, NEW slots, NEW size, NEW data
  PROVE  InsertRecord(page, slots, size, data) =
           LET s == FirstFreeSlot(page, slots)
               h == DecodeHeader(page)
               left == h.num_free_slots - 1
           IN
           EncodeHeader(CopyTo(MarkTaken(page, s), RecordStart(slots, size, s), data),
             [h EXCEPT !.num_free_slots = left,
                       !.next_free_page = IF left = 0 THEN RECORD_PAGE_FULL ELSE @])
BY Zenon DEF InsertRecord, MarkTaken

(* A delete frees the bit, clears the record and then counts the slot. *)
LEMMA DeletedAs ==
  ASSUME NEW page, NEW slots, NEW size, NEW s, NEW first
  PROVE  DeleteSlot(page, slots, size, s, first) =
           LET h == DecodeHeader(page) IN
           EncodeHeader(CopyTo(MarkFree(page, s), RecordStart(slots, size, s),
                               [i \in 1 .. size |-> 0]),
             [h EXCEPT !.num_free_slots = @ + 1,
                       !.next_free_page = IF h.num_free_slots = 0 THEN first ELSE @])
BY Zenon DEF DeleteSlot, MarkFree

(* insert, into a page with a free slot, puts the record into a slot that was  *)
(* free, takes that slot and no other, and leaves the other records; the       *)
(* header still agrees with the bitmap, and says full when no slot is left.    *)
THEOREM InsertFillsAFreeSlot ==
  ASSUME NEW slots \in Nat \ {0}, NEW size \in Nat \ {0},
         UsedBytes(slots, size) <= PAGE_DATA_SIZE,
         NEW page \in DataPages, HeaderCounts(page, slots), FreeSlots(page, slots) # {},
         NEW data \in Seq(Bytes), Len(data) = size
  PROVE  LET new == InsertRecord(page, slots, size, data)
             s == FirstFreeSlot(page, slots)
         IN
         /\ new \in DataPages
         /\ s \in FreeSlots(page, slots)
         /\ FreeSlots(new, slots) = FreeSlots(page, slots) \ {s}
         /\ Record(new, slots, size, s) = data
         /\ \A t \in SlotIds(slots) \ {s} :
              Record(new, slots, size, t) = Record(page, slots, size, t)
         /\ HeaderCounts(new, slots)
         /\ DecodeHeader(new).next_free_page =
              IF FreeSlots(new, slots) = {} THEN RECORD_PAGE_FULL
              ELSE DecodeHeader(page).next_free_page
<1> DEFINE s == FirstFreeSlot(page, slots)
           old == DecodeHeader(page)
           left == old.num_free_slots - 1
           h == [old EXCEPT !.num_free_slots = left,
                            !.next_free_page = IF left = 0 THEN RECORD_PAGE_FULL ELSE @]
           marked == MarkTaken(page, s)
           new == EncodeHeader(CopyTo(marked, RecordStart(slots, size, s), data), h)
<1>1. s \in FreeSlots(page, slots) /\ s \in SlotIds(slots)
  BY FirstFree DEF FreeSlots, SlotIds
<1>2. /\ IsFiniteSet(FreeSlots(page, slots))
      /\ Cardinality(FreeSlots(page, slots)) \in 0 .. slots
      /\ Cardinality(FreeSlots(page, slots) \ {s}) = Cardinality(FreeSlots(page, slots)) - 1
      /\ Cardinality(FreeSlots(page, slots) \ {s}) \in Nat
      /\ IsFiniteSet(FreeSlots(page, slots) \ {s})
  BY <1>1, FreeSlotsCounted, FS_RemoveElement, FS_CardinalityType
<1>3. old \in Headers
  BY LayoutBounds, HeaderDecodes, PageSizeAssumption
<1>4. /\ old.num_slots = slots /\ old.next_free_page >= RECORD_PAGE_FULL
      /\ left = Cardinality(FreeSlots(page, slots) \ {s}) /\ left \in 0 .. slots
  BY <1>2 DEF HeaderCounts, HeaderValid
<1> HIDE DEF s, old, left, h, new
<1>5. /\ marked \in DataPages
      /\ \A at \in Offsets : at < 12 \/ DataStart(slots) <= at => marked[at] = page[at]
      /\ FreeSlots(marked, slots) = FreeSlots(page, slots) \ {s}
  BY <1>1, SlotTaken
<1> HIDE DEF marked
<1>6. left \in I32 /\ RECORD_PAGE_FULL \in I32 /\ old.next_free_page \in I32
  <2>1. slots \in I32
    BY LayoutBounds
  <2>2. left \in I32
    BY <1>4, <2>1, MaxI32Value, SMT DEF I32
  <2>3. RECORD_PAGE_FULL \in I32
    BY MaxI32Value, SMT DEF I32, RECORD_PAGE_FULL
  <2>4. old.next_free_page \in I32
    BY <1>3 DEF Headers
  <2> QED BY <2>2, <2>3, <2>4
<1>7. /\ h \in Headers /\ h.num_free_slots = left /\ h.num_slots = slots
      /\ h.next_free_page = IF left = 0 THEN RECORD_PAGE_FULL ELSE old.next_free_page
  BY <1>3, <1>4, <1>6 DEF Headers, h
<1>8. /\ new \in DataPages
      /\ Record(new, slots, size, s) = data
      /\ \A t \in SlotIds(slots) \ {s} :
           Record(new, slots, size, t) = Record(page, slots, size, t)
      /\ FreeSlots(new, slots) = FreeSlots(marked, slots)
      /\ DecodeHeader(new) = h
  BY <1>1, <1>5, <1>7, SlotAndHeaderWritten DEF new
<1>9. HeaderValid(h, slots)
  BY <1>4, <1>7, SMT DEF HeaderValid, RECORD_PAGE_FULL
<1>10. HeaderCounts(new, slots)
  BY <1>4, <1>5, <1>7, <1>8, <1>9 DEF HeaderCounts
<1>11. DecodeHeader(new).next_free_page =
         IF FreeSlots(new, slots) = {} THEN RECORD_PAGE_FULL ELSE old.next_free_page
  <2>1. FreeSlots(new, slots) = {} <=> left = 0
    BY <1>2, <1>4, <1>5, <1>8, FS_EmptySet
  <2> QED BY <1>7, <1>8, <2>1
<1>12. new = InsertRecord(page, slots, size, data)
  BY InsertedAs DEF new, h, left, marked, s, old
<1> HIDE DEF new
<1> QED BY <1>1, <1>5, <1>8, <1>10, <1>11, <1>12 DEF s, old

(* delete, of a slot in use, gives that slot back and no other, zeroes its     *)
(* bytes, and leaves the other records; the header still agrees with the       *)
(* bitmap, and a page that was full is linked to the head of the chain.        *)
THEOREM DeleteFreesItsSlot ==
  ASSUME NEW slots \in Nat \ {0}, NEW size \in Nat \ {0},
         UsedBytes(slots, size) <= PAGE_DATA_SIZE,
         NEW page \in DataPages, HeaderCounts(page, slots),
         NEW s \in SlotIds(slots) \ FreeSlots(page, slots),
         NEW first \in I32, first >= RECORD_PAGE_LIST_END
  PROVE  LET new == DeleteSlot(page, slots, size, s, first) IN
         /\ new \in DataPages
         /\ FreeSlots(new, slots) = FreeSlots(page, slots) \cup {s}
         /\ Record(new, slots, size, s) = [i \in 1 .. size |-> 0]
         /\ \A t \in SlotIds(slots) \ {s} :
              Record(new, slots, size, t) = Record(page, slots, size, t)
         /\ HeaderCounts(new, slots)
         /\ DecodeHeader(new).next_free_page =
              IF FreeSlots(page, slots) = {} THEN first ELSE DecodeHeader(page).next_free_page
<1> DEFINE old == DecodeHeader(page)
           more == old.num_free_slots + 1
           h == [old EXCEPT !.num_free_slots = @ + 1,
                            !.next_free_page = IF old.num_free_slots = 0 THEN first ELSE @]
           data == [i \in 1 .. size |-> 0]
           marked == MarkFree(page, s)
           new == EncodeHeader(CopyTo(marked, RecordStart(slots, size, s), data), h)
<1>1. /\ marked \in DataPages
      /\ \A at \in Offsets : at < 12 \/ DataStart(slots) <= at => marked[at] = page[at]
      /\ FreeSlots(marked, slots) = FreeSlots(page, slots) \cup {s}
  BY SlotFreed
<1>2. /\ IsFiniteSet(FreeSlots(page, slots))
      /\ Cardinality(FreeSlots(page, slots)) \in 0 .. slots
      /\ Cardinality(FreeSlots(page, slots) \cup {s}) = Cardinality(FreeSlots(page, slots)) + 1
  BY FreeSlotsCounted, FS_AddElement
<1>3. Cardinality(FreeSlots(marked, slots)) \in 0 .. slots
  BY FreeSlotsCounted
<1>4. old \in Headers
  BY LayoutBounds, HeaderDecodes, PageSizeAssumption
<1>5. /\ old.num_slots = slots /\ old.next_free_page >= RECORD_PAGE_FULL
      /\ old.num_free_slots = Cardinality(FreeSlots(page, slots))
      /\ more = Cardinality(FreeSlots(marked, slots)) /\ more \in 0 .. slots
  BY <1>1, <1>2, <1>3 DEF HeaderCounts, HeaderValid
<1>6. data \in Seq(Bytes) /\ Len(data) = size
  BY DEF Bytes
<1> HIDE DEF old, data, marked
<1>7. more \in I32 /\ old.next_free_page \in I32
  BY <1>4, <1>5, FreeSlotsCounted DEF Headers
<1>8. /\ h \in Headers /\ h.num_free_slots = more /\ h.num_slots = slots
      /\ h.next_free_page = IF old.num_free_slots = 0 THEN first ELSE old.next_free_page
  BY <1>4, <1>5, <1>7 DEF Headers
<1> HIDE DEF h, more
<1>9. /\ new \in DataPages
      /\ Record(new, slots, size, s) = data
      /\ \A t \in SlotIds(slots) \ {s} :
           Record(new, slots, size, t) = Record(page, slots, size, t)
      /\ FreeSlots(new, slots) = FreeSlots(marked, slots)
      /\ DecodeHeader(new) = h
  BY <1>1, <1>6, <1>8, SlotAndHeaderWritten
<1>10. HeaderValid(h, slots)
  <2>1. h.next_free_page >= RECORD_PAGE_FULL
    BY <1>5, <1>7, <1>8, SMT DEF RECORD_PAGE_FULL, RECORD_PAGE_LIST_END, I32
  <2>2. h.num_free_slots <= h.num_slots
    BY <1>5, <1>8
  <2> QED BY <1>8, <2>1, <2>2 DEF HeaderValid
<1>11. HeaderCounts(new, slots)
  BY <1>5, <1>8, <1>9, <1>10 DEF HeaderCounts
<1>12. DecodeHeader(new).next_free_page =
         IF FreeSlots(page, slots) = {} THEN first ELSE old.next_free_page
  <2>1. FreeSlots(page, slots) = {} <=> old.num_free_slots = 0
    BY <1>2, <1>5, FS_EmptySet
  <2> QED BY <1>8, <1>9, <2>1
<1>13. new = DeleteSlot(page, slots, size, s, first)
  BY DeletedAs DEF h, data, marked, old
<1> HIDE DEF new
<1> QED BY <1>1, <1>9, <1>11, <1>12, <1>13 DEF data, old
=============================================================================
