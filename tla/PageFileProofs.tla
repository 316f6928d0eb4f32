--------------------------- MODULE PageFileProofs ---------------------------
(***************************************************************************)
(* Proofs about PageFile, for every number of pages, every set of contents *)
(* and, where it is stated, every choice of I/O errors.                    *)
(***************************************************************************)
EXTENDS PageFile, FiniteSetTheorems, SequenceTheorems, WellFoundedInduction, TLAPS

(* Below 2^31 pages the casts between page ids and links lose nothing, and *)
(* no page id is mistaken for one of the two markers.                      *)
LEMMA LinksAreIds ==
  /\ Links = PageIds \cup {FREE_LIST_END, PAGE_USED}
  /\ \A p \in PageIds : AsI32(p) = p /\ AsU32(p) = p
  /\ AsU32(FREE_LIST_END) >= MaxPages
  /\ AsU32(PAGE_USED) >= MaxPages
  /\ 0 \in PageIds
<1>1. \A p \in PageIds : p \in Nat /\ p < SignBit
  BY BoundAssumption DEF PageIds
<1>2. \A p \in PageIds : AsI32(p) = p /\ AsU32(p) = p
  BY <1>1, BoundAssumption DEF AsI32, AsU32
<1>3. Links = PageIds \cup {FREE_LIST_END, PAGE_USED}
  BY <1>2 DEF Links
<1> QED BY <1>2, <1>3, BoundAssumption DEF PageIds, AsU32, FREE_LIST_END, PAGE_USED

(* The buffer before the first load is a page. *)
LEMMA DataFacts == ZeroData \in Data /\ NoData \notin Data
  BY DataAssumption DEF Data, ZeroData

LEMMA ZeroPageIsPage == ZeroPage \in Pages
BY LinksAreIds, DataFacts DEF ZeroPage, Pages

(* A loaded page is a page, and so is what it is replaced by. *)
LEMMA LoadAndSetType ==
  ASSUME TypeOK,
         NEW p \in PageIds, NEW page \in Pages, NEW touch \in BOOLEAN,
         LoadAndSet(p, page, touch)
  PROVE  /\ disk_pages' \in [PageIds -> Pages]
         /\ loaded_page_id' \in PageIds
         /\ loaded_page_dirty' \in BOOLEAN
         /\ loaded_page' \in Pages
         /\ UNCHANGED <<status, disk_header, disk_len>>
BY DEF TypeOK, LoadAndSet, Flushed, NoPage

(* What load_page puts into the buffer is a page. *)
LEMMA PartCopiedType ==
  ASSUME NEW old \in Pages, NEW new \in Pages, NEW n \in Nat
  PROVE  PartCopied(old, new, n) \in Pages
<1>1. old.data \in Data /\ new.data \in Data /\ new.next_free \in Links
  BY DEF Pages
<1>2. [i \in 1 .. DataSize |-> IF i <= n THEN new.data[i] ELSE old.data[i]] \in Data
  BY <1>1 DEF Data
<1> QED BY <1>1, <1>2 DEF PartCopied, Pages

LEMMA LoadedType == TypeOK => \A p \in PageIds : Loaded(p) \in Pages
BY DEF TypeOK, Loaded

(* So is everything that flush_loaded_page leaves on disk. *)
LEMMA FlushedType == TypeOK => Flushed \in [PageIds -> Pages]
BY DEF TypeOK, Flushed, NoPage

(* The conjuncts of TypeOK about the answers, and the ones about the file. *)
HistoryOK ==
  /\ out \in {"open", "allocate", "read", "write", "dispose", "flush", "error"}
               \X PageIds \X (Data \cup {NoData})
  /\ written \in [PageIds -> Data \cup {NoData}]
  /\ flushed \in [PageIds -> SUBSET Data]

(* Every answer keeps the type of the history. *)
LEMMA HalfFlushedType ==
  ASSUME TypeOK, loaded_page_id # NoPage
  PROVE  HalfFlushed \subseteq [PageIds -> Pages]
<1>1. /\ loaded_page_id \in PageIds /\ loaded_page \in Pages
      /\ disk_pages \in [PageIds -> Pages]
  BY DEF TypeOK
<1>2. ASSUME NEW n \in 0 .. DataSize - 1
      PROVE  [disk_pages EXCEPT ![loaded_page_id] = PartCopied(@, loaded_page, n)]
               \in [PageIds -> Pages]
  <2>1. n \in Nat
    BY DataAssumption
  <2>2. PartCopied(disk_pages[loaded_page_id], loaded_page, n) \in Pages
    BY <1>1, <2>1, PartCopiedType
  <2> QED BY <1>1, <2>2
<1> QED BY <1>1, <1>2 DEF HalfFlushed

LEMMA ReplyType ==
  ASSUME TypeOK,
         NEW call \in {"allocate", "read", "write", "dispose", "flush", "error"},
         NEW p \in PageIds, NEW d \in Data \cup {NoData},
         Reply(call, p, d)
  PROVE  HistoryOK'
<1>1. out' \in {"open", "allocate", "read", "write", "dispose", "flush", "error"}
                 \X PageIds \X (Data \cup {NoData})
  BY DEF Reply
<1>2. written' \in [PageIds -> Data \cup {NoData}]
  BY DEF Reply, TypeOK
<1>3. flushed' \in [PageIds -> SUBSET Data]
  BY <1>2 DEF Reply, TypeOK
<1> QED BY <1>1, <1>2, <1>3 DEF HistoryOK

(* open finds memory in its type if the disk is. *)
LEMMA OpenType ==
  ASSUME TypeOK, Open, disk_header' \in Headers, disk_pages' \in [PageIds -> Pages],
         disk_len' \in 0 .. MaxPages
  PROVE  TypeOK'
<1>1. written' \in [PageIds -> Data \cup {NoData}]
  BY DEF Open, Pages
<1> QED BY <1>1, LinksAreIds, ZeroPageIsPage DEF Open, TypeOK

(* A new page file has its type. *)
LEMMA TypeInit == Init => TypeOK
<1> SUFFICES ASSUME Init PROVE TypeOK
  OBVIOUS
<1>1. header \in Headers /\ disk_header = header
  BY LinksAreIds, BoundAssumption DEF Init, Headers
<1>2. HistoryOK
  BY LinksAreIds DEF Init, HistoryOK
<1>3. disk_pages \in [PageIds -> Pages] /\ disk_len \in 0 .. MaxPages
  BY ZeroPageIsPage, BoundAssumption DEF Init
<1> QED
  BY <1>1, <1>2, <1>3, ZeroPageIsPage DEF Init, TypeOK, HistoryOK

(* Every action keeps the type. *)
LEMMA TypeStep == TypeOK /\ [Next]_vars => TypeOK'
<1> SUFFICES ASSUME TypeOK, [Next]_vars PROVE TypeOK'
  OBVIOUS
<1> USE LinksAreIds, LoadedType, FlushedType, ZeroPageIsPage, DataFacts, BoundAssumption
<1>1. ASSUME NEW d \in Data, AllocateReuse(d) PROVE TypeOK'
  <2> DEFINE p == AsU32(header.first_free_page)
  <2>1. p \in PageIds
    <3>1. header.first_free_page \in Links /\ header.num_pages \in 0 .. MaxPages
      BY DEF TypeOK, Headers
    <3>2. p < header.num_pages
      BY <1>1 DEF AllocateReuse, LoadAndSet, CanLoad
    <3>3. header.first_free_page \notin {FREE_LIST_END, PAGE_USED}
      BY <3>1, <3>2, <1>1 DEF AsU32, FREE_LIST_END, PAGE_USED
    <3> QED BY <3>1, <3>3
  <2>2. [next_free |-> PAGE_USED, data |-> d] \in Pages
    BY DEF Pages
  <2>3. LoadAndSet(p, [next_free |-> PAGE_USED, data |-> d], TRUE)
    BY <1>1 DEF AllocateReuse
  <2>4. /\ disk_pages' \in [PageIds -> Pages] /\ loaded_page_id' \in PageIds
        /\ loaded_page_dirty' \in BOOLEAN /\ loaded_page' \in Pages
        /\ UNCHANGED <<status, disk_header, disk_len>>
    BY <2>1, <2>2, <2>3, LoadAndSetType
  <2>5. header' \in Headers
    BY <1>1, <2>1 DEF AllocateReuse, TypeOK, Headers, Pages
  <2> QED BY <1>1, <2>1, <2>4, <2>5, ReplyType DEF AllocateReuse, TypeOK, HistoryOK
<1>2. ASSUME NEW d \in Data, AllocateGrow(d) PROVE TypeOK'
  <2>1. header.num_pages \in PageIds
    BY <1>2 DEF AllocateGrow, TypeOK, Headers, PageIds
  <2>2. header' \in Headers /\ disk_len' \in 0 .. MaxPages
    <3>1. header.num_pages + 1 \in 0 .. MaxPages
      BY <2>1 DEF PageIds
    <3> QED BY <1>2, <3>1 DEF AllocateGrow, TypeOK, Headers
  <2>3. [next_free |-> PAGE_USED, data |-> d] \in Pages
    BY DEF Pages
  <2> QED BY <1>2, <2>1, <2>2, <2>3, ReplyType DEF AllocateGrow, TypeOK, HistoryOK
<1>3. ASSUME NEW p \in PageIds, ReadPage(p) PROVE TypeOK'
  <2>1. /\ disk_pages' \in [PageIds -> Pages] /\ loaded_page_id' \in PageIds
        /\ loaded_page_dirty' \in BOOLEAN /\ loaded_page' \in Pages
        /\ UNCHANGED <<status, disk_header, disk_len>>
    BY <1>3, LoadAndSetType DEF ReadPage
  <2>2. Loaded(p).data \in Data
    BY DEF Pages
  <2> QED BY <1>3, <2>1, <2>2, ReplyType DEF ReadPage, TypeOK, HistoryOK
<1>4. ASSUME NEW p \in PageIds, NEW d \in Data, WritePage(p, d) PROVE TypeOK'
  <2>1. [next_free |-> PAGE_USED, data |-> d] \in Pages
    BY DEF Pages
  <2>2. /\ disk_pages' \in [PageIds -> Pages] /\ loaded_page_id' \in PageIds
        /\ loaded_page_dirty' \in BOOLEAN /\ loaded_page' \in Pages
        /\ UNCHANGED <<status, disk_header, disk_len>>
    BY <1>4, <2>1, LoadAndSetType DEF WritePage
  <2> QED BY <1>4, <2>2, ReplyType DEF WritePage, TypeOK, HistoryOK
<1>5. ASSUME NEW p \in PageIds, DisposePage(p) PROVE TypeOK'
  <2>1. [next_free |-> header.first_free_page, data |-> ZeroData] \in Pages
    BY DEF Pages, TypeOK, Headers
  <2>2. /\ disk_pages' \in [PageIds -> Pages] /\ loaded_page_id' \in PageIds
        /\ loaded_page_dirty' \in BOOLEAN /\ loaded_page' \in Pages
        /\ UNCHANGED <<status, disk_header, disk_len>>
    BY <1>5, <2>1, LoadAndSetType DEF DisposePage
  <2>3. header' \in Headers
    BY <1>5 DEF DisposePage, TypeOK, Headers
  <2> QED BY <1>5, <2>2, <2>3, ReplyType DEF DisposePage, TypeOK, HistoryOK
<1>6. ASSUME NEW p \in PageIds, NEW call \in {"write", "dispose"}, Refused(p, call)
      PROVE  TypeOK'
  <2>1. /\ disk_pages' \in [PageIds -> Pages] /\ loaded_page_id' \in PageIds
        /\ loaded_page_dirty' \in BOOLEAN /\ loaded_page' \in Pages
        /\ UNCHANGED <<status, disk_header, disk_len>>
    BY <1>6, LoadAndSetType DEF Refused
  <2> QED BY <1>6, <2>1, ReplyType DEF Refused, TypeOK, HistoryOK
<1>7. ASSUME NEW p \in PageIds, NEW call \in {"read", "write", "dispose"}, OutOfRange(p, call)
      PROVE  TypeOK'
  BY <1>7, ReplyType DEF OutOfRange, TypeOK, HistoryOK, memory, disk
<1>8. ASSUME NEW p \in PageIds, ReadFails(p) PROVE TypeOK'
  <2>1. \A n \in 0 .. DataSize : PartCopied(loaded_page, disk_pages[p], n) \in Pages
    BY DataAssumption, PartCopiedType DEF TypeOK
  <2>2. \/ loaded_page' = loaded_page
        \/ \E n \in 0 .. DataSize : loaded_page' = PartCopied(loaded_page, disk_pages[p], n)
    BY <1>8 DEF ReadFails
  <2>3. loaded_page' \in Pages
    BY <2>1, <2>2 DEF TypeOK
  <2> QED BY <1>8, <2>3, ReplyType DEF ReadFails, Failed, TypeOK, HistoryOK
<1>9. CASE Flush
  BY <1>9, ReplyType DEF Flush, TypeOK, HistoryOK
<1>10. CASE Reopen
  BY <1>10, OpenType DEF Reopen, TypeOK
<1>11. ASSUME HalfFlushed \subseteq [PageIds -> Pages] PROVE PageWriteFails => TypeOK'
  BY <1>11, ReplyType DEF PageWriteFails, Failed, TypeOK, HistoryOK, memory
<1>12. TypeOK /\ loaded_page_id # NoPage => HalfFlushed \subseteq [PageIds -> Pages]
  BY HalfFlushedType
<1>13. HalfWrittenHeader \subseteq Headers
  BY DEF HalfWrittenHeader, TypeOK, Headers
<1>14. CASE HeaderWriteFails
  BY <1>13, <1>14, ReplyType DEF HeaderWriteFails, Failed, TypeOK, HistoryOK
<1>15. CASE DropFails
  BY <1>12, <1>13, <1>15, OpenType DEF DropFails, TypeOK
<1>16. CASE SetLenFails
  <2>1. header.num_pages \in 0 .. MaxPages /\ header.num_pages < MaxPages
    BY <1>16 DEF SetLenFails, TypeOK, Headers
  <2>2. header.num_pages + 1 \in 0 .. MaxPages
    BY <2>1
  <2>3. header' \in Headers
    BY <1>16, <2>2 DEF SetLenFails, TypeOK, Headers
  <2> QED BY <1>16, <2>3, ReplyType DEF SetLenFails, Failed, TypeOK, HistoryOK
<1>17. CASE Crash
  BY <1>12, <1>13, <1>17, OpenType DEF Crash, TypeOK
<1>18. CASE UNCHANGED vars
  BY <1>18 DEF vars, memory, disk, history, TypeOK
<1>19. PageWriteFails => TypeOK'
  BY <1>11, <1>12 DEF PageWriteFails
<1> QED
  BY <1>1, <1>2, <1>3, <1>4, <1>5, <1>6, <1>7, <1>8, <1>9, <1>10, <1>14, <1>15,
     <1>16, <1>17, <1>18, <1>19 DEF Next

(* Every state the file reaches has its type, whatever I/O errors happen:  *)
(* the buffer and the links of the header stay pages and links the format  *)
(* knows, also after a crash, a torn write or a failed read.               *)
THEOREM TypeCorrect == Spec => []TypeOK
BY TypeInit, TypeStep, PTL DEF Spec

-----------------------------------------------------------------------------
(* Loading a page, whatever becomes of the buffer, keeps a buffer that is   *)
(* not dirty equal to its page on disk: the old page was written back, and  *)
(* the write-back of one page leaves every other page alone.                *)
LEMMA LoadKeepsClean ==
  ASSUME TypeOK, CleanIsOnDisk, NEW p \in PageIds, LoadAndSet(p, Loaded(p), FALSE)
  PROVE  ~loaded_page_dirty' => loaded_page' = disk_pages'[loaded_page_id']
<1>1. CASE loaded_page_id = p
  BY <1>1 DEF LoadAndSet, Loaded, CleanIsOnDisk, TypeOK, NoPage, PageIds
<1>2. CASE loaded_page_id # p
  BY <1>2 DEF LoadAndSet, Loaded, Flushed, TypeOK
<1> QED BY <1>1, <1>2

(* Every action keeps what is clean equal to the disk, if neither a read of *)
(* a page nor set_len fails.                                                 *)
LEMMA CleanStep ==
  ASSUME "read" \notin Faults, "setlen" \notin Faults
  PROVE  TypeOK /\ CleanIsOnDisk /\ [Next]_vars => CleanIsOnDisk'
<1> SUFFICES ASSUME TypeOK, CleanIsOnDisk, [Next]_vars PROVE CleanIsOnDisk'
  OBVIOUS
<1>1. ASSUME NEW d \in Data, AllocateReuse(d) \/ AllocateGrow(d) PROVE CleanIsOnDisk'
  BY <1>1 DEF AllocateReuse, AllocateGrow, LoadAndSet, CleanIsOnDisk
<1>2. ASSUME NEW p \in PageIds, NEW call \in {"write", "dispose"},
             ReadPage(p) \/ Refused(p, call)
      PROVE  CleanIsOnDisk'
  <2>1. LoadAndSet(p, Loaded(p), FALSE) /\ UNCHANGED <<header, header_dirty>>
    BY <1>2 DEF ReadPage, Refused
  <2>2. UNCHANGED disk_header
    BY <2>1 DEF LoadAndSet
  <2> QED BY <2>1, <2>2, LoadKeepsClean DEF CleanIsOnDisk
<1>3. ASSUME NEW p \in PageIds, NEW d \in Data, WritePage(p, d) PROVE CleanIsOnDisk'
  BY <1>3 DEF WritePage, LoadAndSet, CleanIsOnDisk
<1>4. ASSUME NEW p \in PageIds, DisposePage(p) PROVE CleanIsOnDisk'
  BY <1>4 DEF DisposePage, LoadAndSet, CleanIsOnDisk
<1>5. ASSUME NEW p \in PageIds, NEW call \in {"read", "write", "dispose"}, OutOfRange(p, call)
      PROVE  CleanIsOnDisk'
  BY <1>5 DEF OutOfRange, memory, disk, CleanIsOnDisk
<1>6. ASSUME NEW p \in PageIds, ReadFails(p) PROVE CleanIsOnDisk'
  <2>1. loaded_page' = loaded_page
    BY <1>6 DEF ReadFails
  <2> QED BY <1>6, <2>1 DEF ReadFails, Flushed, CleanIsOnDisk, TypeOK
<1>7. CASE Flush
  BY <1>7 DEF Flush, Flushed, CleanIsOnDisk, TypeOK
<1>8. Open => CleanIsOnDisk'
  BY DEF Open, CleanIsOnDisk
<1>9. CASE Reopen \/ DropFails \/ Crash
  BY <1>8, <1>9 DEF Reopen, DropFails, Crash
<1>10. CASE PageWriteFails
  BY <1>10 DEF PageWriteFails, memory, CleanIsOnDisk
<1>11. CASE HeaderWriteFails
  BY <1>11 DEF HeaderWriteFails, Flushed, CleanIsOnDisk, TypeOK
<1>12. CASE UNCHANGED vars
  BY <1>12 DEF vars, memory, disk, CleanIsOnDisk
<1> QED
  BY <1>1, <1>2, <1>3, <1>4, <1>5, <1>6, <1>7, <1>9, <1>10, <1>11, <1>12
     DEF Next, SetLenFails

(* As long as no read of a page and no set_len fails, a buffer or a header  *)
(* that is not dirty is the one on disk, for every number of pages, through *)
(* failed and torn writes, failed drops and kills.                          *)
THEOREM CleanBufferOnDisk ==
  ASSUME "read" \notin Faults, "setlen" \notin Faults
  PROVE  Spec => []CleanIsOnDisk
<1>1. Init => CleanIsOnDisk
  BY DEF Init, CleanIsOnDisk
<1>2. TypeOK /\ CleanIsOnDisk /\ [Next]_vars => CleanIsOnDisk'
  BY CleanStep
<1> QED BY <1>1, <1>2, TypeInit, TypeStep, PTL DEF Spec

-----------------------------------------------------------------------------
(* The free list, for a client whose reads, drops and set_lens do not fail  *)
(* and that is not killed; its writes may fail or stop halfway.             *)

FileWhole == HeaderWithinFile(header, disk_len)
ThreadedInv == TypeOK /\ CleanIsOnDisk /\ FileWhole /\ FreeListThreaded

\* The sequence s is what a walk along next finds, from head to FREE_LIST_END.
Chained(head, next, s) ==
  /\ head = IF s = <<>> THEN FREE_LIST_END ELSE s[1]
  /\ \A i \in 1 .. Len(s) : next[s[i]] = IF i = Len(s) THEN FREE_LIST_END ELSE s[i + 1]

NoRepeat(s) == \A i, j \in 1 .. Len(s) : s[i] = s[j] => i = j

\* The links, wherever they are held.
NextFree == [p \in PageIds |-> Loaded(p).next_free]

(* The lists of free pages are the sequences of them without repetition:   *)
(* there are no longer ones than the bound on the file.                    *)
LEMMA ListFacts ==
  ASSUME NEW S \in SUBSET PageIds, NEW s
  PROVE  s \in UNION {Injection(1 .. n, S) : n \in 0 .. MaxPages}
           <=> s \in Seq(S) /\ NoRepeat(s)
<1>1. ASSUME NEW n \in 0 .. MaxPages, s \in Injection(1 .. n, S)
      PROVE  s \in Seq(S) /\ NoRepeat(s)
  <2>1. n \in Nat /\ s \in [1 .. n -> S] /\ \A i, j \in 1 .. n : s[i] = s[j] => i = j
    BY <1>1, BoundAssumption DEF Injection, IsInjective
  <2>2. s \in Seq(S) /\ Len(s) = n
    BY <2>1
  <2> QED BY <2>1, <2>2 DEF NoRepeat
<1>2. ASSUME s \in Seq(S), NoRepeat(s)
      PROVE  \E n \in 0 .. MaxPages : s \in Injection(1 .. n, S)
  <2> DEFINE n == Len(s)
  <2>1. n \in Nat /\ s \in [1 .. n -> S] /\ DOMAIN s = 1 .. n
    BY <1>2, LenProperties
  <2>2. s \in Injection(1 .. n, S)
    BY <1>2, <2>1 DEF Injection, IsInjective, NoRepeat
  <2>3. s \in Injection(1 .. n, PageIds)
    BY <2>1, <2>2 DEF Injection
  <2> HIDE DEF n
  <2>4. IsFiniteSet(PageIds) /\ Cardinality(PageIds) = MaxPages
    <3>1. 0 \in Int /\ MaxPages - 1 \in Int
      BY BoundAssumption
    <3> QED BY <3>1, FS_Interval, BoundAssumption DEF PageIds
  <2>5. Cardinality(1 .. n) = n
    <3>1. n \in Nat /\ n \in Int
      BY <2>1
    <3> QED BY <3>1, FS_Interval
  <2>6. n <= MaxPages
    BY <2>3, <2>4, <2>5, FS_Injection
  <2> QED BY <2>1, <2>2, <2>6, BoundAssumption
<1> QED BY <1>1, <1>2

(* A walk along the links finds one list only. *)
LEMMA ChainUnique ==
  ASSUME NEW head, NEW next, NEW s \in Seq(PageIds), NEW t \in Seq(PageIds),
         Chained(head, next, s), Chained(head, next, t)
  PROVE  s = t
<1> DEFINE Same(i) == /\ i <= Len(s) <=> i <= Len(t)
                      /\ i <= Len(s) => s[i] = t[i]
           Bad == {i \in Nat \ {0} : ~Same(i)}
<1>1. /\ Len(s) \in Nat /\ Len(t) \in Nat
      /\ \A i \in 1 .. Len(s) : s[i] \in PageIds
      /\ \A i \in 1 .. Len(t) : t[i] \in PageIds
      /\ s = <<>> <=> Len(s) = 0
      /\ t = <<>> <=> Len(t) = 0
  BY LenProperties, ElementOfSeq
<1>2. \A p \in PageIds : p # FREE_LIST_END
  BY DEF PageIds, FREE_LIST_END
<1>3. Bad = {}
  <2> SUFFICES ASSUME Bad # {} PROVE FALSE
    OBVIOUS
  <2>0. Bad \subseteq Nat
    OBVIOUS
  <2>1. PICK m \in Bad : \A i \in Bad : <<i, m>> \notin OpToRel(<, Nat)
    BY <2>0, NatLessThanWellFounded, WFMin
  <2>2. m \in Nat \ {0} /\ ~Same(m)
    BY <2>1
  <2>3. CASE m = 1
    BY <1>1, <1>2, <2>2, <2>3 DEF Chained
  <2>4. CASE m # 1
    <3>1. m - 1 \in Nat \ {0} /\ m - 1 < m
      BY <2>2, <2>4
    <3>2. <<m - 1, m>> \in OpToRel(<, Nat)
      BY <2>2, <3>1 DEF OpToRel
    <3>3. Same(m - 1)
      BY <2>1, <3>1, <3>2
    <3>4. CASE m - 1 <= Len(s)
      <4>1. m - 1 \in 1 .. Len(s) /\ m - 1 \in 1 .. Len(t) /\ s[m - 1] = t[m - 1]
        BY <1>1, <3>1, <3>3, <3>4
      <4>2. /\ next[s[m - 1]] = IF m - 1 = Len(s) THEN FREE_LIST_END ELSE s[m - 1 + 1]
            /\ next[t[m - 1]] = IF m - 1 = Len(t) THEN FREE_LIST_END ELSE t[m - 1 + 1]
        BY <4>1 DEF Chained
      <4>3. m - 1 + 1 = m
        BY <2>2
      <4> QED BY <1>1, <1>2, <2>2, <4>1, <4>2, <4>3
    <3>5. CASE ~(m - 1 <= Len(s))
      BY <1>1, <2>2, <3>1, <3>3, <3>5
    <3> QED BY <3>4, <3>5
  <2> QED BY <2>3, <2>4
<1>4. \A i \in Nat \ {0} : Same(i)
  BY <1>3
<1> HIDE DEF Bad
<1>5. Len(s) = Len(t)
  <2>1. CASE Len(s) < Len(t)
    BY <1>1, <1>4, <2>1
  <2>2. CASE Len(t) < Len(s)
    BY <1>1, <1>4, <2>2
  <2> QED BY <1>1, <2>1, <2>2
<1>6. \A i \in 1 .. Len(s) : s[i] = t[i]
  BY <1>1, <1>4
<1> QED BY <1>5, <1>6, SeqEqual

(* Threads(s) is a walk along the links: below 2^31 pages a link is an id. *)
LEMMA ThreadsIsChain ==
  \A s \in Seq(FreePages) : Threads(s) <=> Chained(header.first_free_page, NextFree, s)
<1> SUFFICES ASSUME NEW s \in Seq(FreePages)
             PROVE  Threads(s) <=> Chained(header.first_free_page, NextFree, s)
  OBVIOUS
<1>1. Len(s) \in Nat /\ \A i \in 1 .. Len(s) : s[i] \in PageIds
  BY LenProperties, ElementOfSeq DEF FreePages, InRange
<1>2. \A i \in 1 .. Len(s) : AsI32(s[i]) = s[i] /\ NextFree[s[i]] = Loaded(s[i]).next_free
  BY <1>1, LinksAreIds DEF NextFree
<1>3. s # <<>> => 1 \in 1 .. Len(s)
  BY <1>1
<1>4. \A i \in 1 .. Len(s) : i # Len(s) => i + 1 \in 1 .. Len(s)
  BY <1>1
<1> QED BY <1>2, <1>3, <1>4 DEF Threads, Chained

(* So FreeList is the list of the free pages, if there is one. *)
LEMMA FreeListIs ==
  \A s \in Seq(FreePages) : NoRepeat(s) /\ Threads(s) => FreeList = s
<1> SUFFICES ASSUME NEW s \in Seq(FreePages), NoRepeat(s), Threads(s) PROVE FreeList = s
  OBVIOUS
<1>1. FreePages \subseteq PageIds
  BY DEF FreePages, InRange
<1>2. s \in FreeLists
  BY <1>1, ListFacts DEF FreeLists
<1>3. FreeList \in FreeLists /\ Threads(FreeList)
  BY <1>2 DEF FreeList
<1>4. FreeList \in Seq(FreePages)
  BY <1>1, <1>3, ListFacts DEF FreeLists
<1>5. Chained(header.first_free_page, NextFree, s)
  BY ThreadsIsChain
<1>6. Chained(header.first_free_page, NextFree, FreeList)
  BY <1>3, <1>4, ThreadsIsChain
<1>7. s \in Seq(PageIds) /\ FreeList \in Seq(PageIds)
  BY <1>1, <1>4, SeqMonotonic
<1> QED BY <1>5, <1>6, <1>7, ChainUnique

LEMMA FreeListIsNext ==
  \A s \in Seq(FreePages') : NoRepeat(s) /\ Threads(s)' => FreeList' = s
<1>1. (\A s \in Seq(FreePages) : NoRepeat(s) /\ Threads(s) => FreeList = s)'
  BY FreeListIs, PTL
<1> QED BY <1>1

\* s lists the free pages.
Listed(s) ==
  /\ s \in Seq(FreePages)
  /\ NoRepeat(s)
  /\ Range(s) = FreePages
  /\ Threads(s)

(* FreeListThreaded says that FreeList lists them. *)
LEMMA ThreadedIsListed == FreeListThreaded <=> Listed(FreeList)
<1>1. FreePages \subseteq PageIds
  BY DEF FreePages, InRange
<1>2. ASSUME FreeListThreaded PROVE Listed(FreeList)
  <2>1. PICK s \in FreeLists : Threads(s) /\ Range(s) = FreePages
    BY <1>2 DEF FreeListThreaded
  <2>2. s \in Seq(FreePages) /\ NoRepeat(s)
    BY <1>1, <2>1, ListFacts DEF FreeLists
  <2> QED BY <2>1, <2>2, FreeListIs DEF Listed
<1>3. ASSUME Listed(FreeList) PROVE FreeListThreaded
  <2>1. FreeList \in FreeLists
    BY <1>1, <1>3, ListFacts DEF FreeLists, Listed
  <2> QED BY <1>3, <2>1 DEF FreeListThreaded, Listed
<1> QED BY <1>2, <1>3

(* A list of the free pages of the next state is its free list. *)
LEMMA NextList ==
  ASSUME NEW s, Listed(s)'
  PROVE  FreeListThreaded' /\ FreeList' = s
<1>1. FreeList' = s
  BY FreeListIsNext DEF Listed
<1>2. (FreeListThreaded <=> Listed(FreeList))'
  BY ThreadedIsListed, PTL
<1>3. Listed(FreeList)'
  BY <1>1 DEF Listed, Threads
<1> QED BY <1>1, <1>2, <1>3

(* With a clean buffer equal to its page, what is on disk after a write-back *)
(* is what the file held, wherever it was held.                              *)
LEMMA FlushedIsLoaded ==
  ASSUME TypeOK, CleanIsOnDisk
  PROVE  \A q \in PageIds : Flushed[q] = Loaded(q)
<1> SUFFICES ASSUME NEW q \in PageIds PROVE Flushed[q] = Loaded(q)
  OBVIOUS
<1>1. q # NoPage /\ disk_pages \in [PageIds -> Pages]
  BY DEF PageIds, NoPage, TypeOK
<1>2. CASE loaded_page_id = q
  BY <1>1, <1>2 DEF CleanIsOnDisk, Flushed, Loaded
<1>3. CASE loaded_page_id # q
  BY <1>1, <1>3 DEF Flushed, Loaded
<1> QED BY <1>2, <1>3

(* A load changes the page that is put into the buffer and no other. *)
LEMMA LoadedAfter ==
  ASSUME TypeOK, CleanIsOnDisk,
         NEW p \in PageIds, NEW page, NEW touch, LoadAndSet(p, page, touch)
  PROVE  \A q \in PageIds : Loaded(q)' = IF q = p THEN page ELSE Loaded(q)
<1> SUFFICES ASSUME NEW q \in PageIds
             PROVE  Loaded(q)' = IF q = p THEN page ELSE Loaded(q)
  OBVIOUS
<1>1. loaded_page_id' = p /\ loaded_page' = page
  BY DEF LoadAndSet
<1>2. CASE q = p
  BY <1>1, <1>2 DEF Loaded
<1>3. CASE q # p
  <2>1. Loaded(q)' = disk_pages'[q]
    BY <1>1, <1>3 DEF Loaded
  <2>2. CASE loaded_page_id = p
    BY <1>3, <2>1, <2>2 DEF LoadAndSet, Loaded
  <2>3. CASE loaded_page_id # p
    BY <1>3, <2>1, <2>3, FlushedIsLoaded DEF LoadAndSet
  <2> QED BY <2>2, <2>3
<1> QED BY <1>2, <1>3

(* A step that leaves the header and every page of the file as it was,      *)
(* wherever they are held, leaves the free list and the contents as they    *)
(* were.                                                                    *)
LEMMA HeldAsBefore ==
  ASSUME FreeListThreaded, UNCHANGED header,
         \A q \in PageIds : Loaded(q)' = Loaded(q)
  PROVE  /\ FreeListThreaded'
         /\ UNCHANGED <<content, FreeList, header.num_pages>>
<1> DEFINE s == FreeList
<1>1. Listed(s)
  BY ThreadedIsListed
<1>2. InRange' = InRange /\ InRange \subseteq PageIds
  BY DEF InRange
<1>3. UsedPages' = UsedPages
  BY <1>2 DEF UsedPages, IsUsed
<1>4. FreePages' = FreePages
  BY <1>2, <1>3 DEF FreePages
<1>5. content' = content
  BY <1>2, <1>3 DEF content, UsedPages
<1>6. NextFree' = NextFree
  BY DEF NextFree
<1>7. ASSUME NEW t, Listed(t) PROVE Listed(t)'
  <2>1. t \in Seq(FreePages) /\ Threads(t)
    BY <1>7 DEF Listed
  <2>2. Len(t) \in Nat /\ \A i \in 1 .. Len(t) : t[i] \in PageIds
    BY <1>2, <2>1, LenProperties, ElementOfSeq DEF FreePages
  <2>3. Threads(t)'
    BY <2>1, <2>2 DEF Threads
  <2> QED BY <1>4, <1>7, <2>3 DEF Listed
<1>8. PICK t : t = FreeList
  OBVIOUS
<1>9. FreeListThreaded' /\ FreeList' = t
  BY <1>1, <1>7, <1>8, NextList
<1> QED BY <1>5, <1>8, <1>9

-----------------------------------------------------------------------------
(* The steps of the page file are steps of the store.                       *)

StoreStep == FileWhole' /\ FreeListThreaded' /\ [PS!Next]_(PS!storeVars)

(* A step that keeps header and pages is a step of the store that answers   *)
(* a read, refuses a call or keeps house.                                   *)
LEMMA QuietStep ==
  ASSUME FreeListThreaded, UNCHANGED header, FileWhole',
         \A q \in PageIds : Loaded(q)' = Loaded(q),
         NEW call, NEW p \in PageIds, NEW d, out' = <<call, p, d>>,
         \/ call = "read" /\ d = content[p]
         \/ call \in {"write", "dispose"} /\ d = NoData /\ content[p] = NoData
         \/ call \in {"flush", "open", "error"} /\ p = 0 /\ d = NoData
  PROVE  StoreStep
<1>1. FreeListThreaded' /\ UNCHANGED <<content, FreeList, header.num_pages>>
  BY HeldAsBefore
<1>2. p \in PS!StoreIds
  BY DEF PS!StoreIds, PageIds
<1>3. CASE call = "read" /\ d = content[p]
  <2>1. PS!Read(p)
    BY <1>1, <1>3 DEF PS!Read
  <2> QED BY <1>1, <1>2, <2>1 DEF StoreStep, PS!Next
<1>4. CASE call \in {"write", "dispose"} /\ d = NoData /\ content[p] = NoData
  <2>1. PS!Refuse(p)
    BY <1>1, <1>4 DEF PS!Refuse
  <2> QED BY <1>1, <1>2, <2>1 DEF StoreStep, PS!Next
<1>5. CASE call \in {"flush", "open", "error"} /\ p = 0 /\ d = NoData
  <2>1. PS!Housekeeping
    BY <1>1, <1>5 DEF PS!Housekeeping
  <2> QED BY <1>1, <2>1 DEF StoreStep, PS!Next
<1> QED BY <1>3, <1>4, <1>5

(* What the store holds at a page. *)
LEMMA ContentIs ==
  ASSUME TypeOK, NEW p \in PageIds
  PROVE  /\ content[p] = IF p < header.num_pages /\ IsUsed(p)
                           THEN Loaded(p).data ELSE NoData
         /\ content[p] # NoData <=> p < header.num_pages /\ IsUsed(p)
BY LoadedType, DataFacts DEF content, UsedPages, InRange, Pages

(* Within a whole file every page below num_pages can be loaded. *)
LEMMA NoReadFails ==
  ASSUME TypeOK, FileWhole, "read" \notin Faults, NEW p \in PageIds
  PROVE  ~ReadFails(p)
BY DEF ReadFails, FileWhole, HeaderWithinFile, TypeOK, Headers, PageIds

(* read_page, and every call that is refused. *)
LEMMA LookStep ==
  ASSUME ThreadedInv, NEW p \in PageIds,
         NEW call \in {"read", "write", "dispose"},
         \/ call = "read" /\ ReadPage(p)
         \/ call # "read" /\ Refused(p, call)
         \/ OutOfRange(p, call)
  PROVE  StoreStep
<1> USE DEF ThreadedInv
<1>1. CASE OutOfRange(p, call)
  <2>1. out' = <<call, p, NoData>> /\ UNCHANGED <<header, disk_len, loaded_page_id, loaded_page, disk_pages>>
    BY <1>1 DEF OutOfRange, Reply, memory, disk
  <2>2. ~(p < header.num_pages)
    BY <1>1 DEF OutOfRange, TypeOK, Headers, PageIds
  <2>3. content[p] = NoData
    BY <2>2, ContentIs
  <2>4. \A q \in PageIds : Loaded(q)' = Loaded(q)
    BY <2>1 DEF Loaded
  <2>5. FileWhole'
    BY <2>1 DEF FileWhole, HeaderWithinFile
  <2> QED BY <2>1, <2>3, <2>4, <2>5, QuietStep
<1>2. ASSUME LoadAndSet(p, Loaded(p), FALSE), UNCHANGED header
      PROVE  /\ \A q \in PageIds : Loaded(q)' = Loaded(q)
             /\ FileWhole'
  <2>1. \A q \in PageIds : Loaded(q)' = IF q = p THEN Loaded(p) ELSE Loaded(q)
    BY <1>2, LoadedAfter
  <2>2. FileWhole'
    BY <1>2 DEF LoadAndSet, FileWhole, HeaderWithinFile
  <2> QED BY <2>1, <2>2
<1>3. CASE call = "read" /\ ReadPage(p)
  <2>1. /\ LoadAndSet(p, Loaded(p), FALSE)
        /\ UNCHANGED header
        /\ out' = <<"read", p, IF IsUsed(p) THEN Loaded(p).data ELSE NoData>>
    BY <1>3 DEF ReadPage, Reply
  <2>2. p < header.num_pages
    BY <2>1 DEF LoadAndSet, CanLoad
  <2>3. out' = <<call, p, content[p]>>
    BY <1>3, <2>1, <2>2, ContentIs
  <2> QED BY <1>2, <1>3, <2>1, <2>3, QuietStep
<1>4. CASE call # "read" /\ Refused(p, call)
  <2>1. /\ LoadAndSet(p, Loaded(p), FALSE)
        /\ UNCHANGED header
        /\ out' = <<call, p, NoData>>
        /\ ~IsUsed(p)
    BY <1>4 DEF Refused, Reply
  <2>2. content[p] = NoData
    BY <2>1, ContentIs
  <2> QED BY <1>2, <1>4, <2>1, <2>2, QuietStep
<1> QED BY <1>1, <1>3, <1>4

(* flush, drop and open, and the writes of a call that fail. *)
LEMMA HouseStep ==
  ASSUME ThreadedInv,
         Flush \/ Reopen \/ PageWriteFails \/ HeaderWriteFails
  PROVE  StoreStep
<1> USE DEF ThreadedInv
<1>1. 0 \in PageIds
  BY LinksAreIds
<1>2. PICK call \in {"flush", "open", "error"} : out' = <<call, 0, NoData>>
  BY DEF Flush, Reopen, PageWriteFails, HeaderWriteFails, Failed, Open, Reply
<1>3. UNCHANGED <<header, disk_len>>
  BY DEF Flush, Reopen, PageWriteFails, HeaderWriteFails, Open, CleanIsOnDisk, memory
<1>4. FileWhole'
  BY <1>3 DEF FileWhole, HeaderWithinFile
<1>5. ASSUME NEW q \in PageIds PROVE Loaded(q)' = Loaded(q)
  <2>1. CASE Flush \/ HeaderWriteFails
    BY <2>1, <1>5, FlushedIsLoaded DEF Flush, HeaderWriteFails, Loaded
  <2>2. CASE Reopen
    BY <2>2, <1>5, FlushedIsLoaded DEF Reopen, Open, Loaded, PageIds, NoPage
  <2>3. CASE PageWriteFails
    BY <2>3, <1>5 DEF PageWriteFails, HalfFlushed, Loaded, memory, TypeOK
  <2> QED BY <2>1, <2>2, <2>3
<1> QED BY <1>1, <1>2, <1>3, <1>4, <1>5, QuietStep

-----------------------------------------------------------------------------
(* A page in front of the list: the list stays a walk along the links, of   *)
(* one page more.                                                           *)
LEMMA PushedOnList ==
  ASSUME NEW S \in SUBSET PageIds, NEW p \in PageIds \ S,
         NEW s \in Seq(S), NoRepeat(s), Range(s) = S,
         NEW head, NEW next, Chained(head, next, s),
         NEW after, after[p] = head, \A q \in S : after[q] = next[q]
  PROVE  /\ <<p>> \o s \in Seq(S \cup {p})
         /\ NoRepeat(<<p>> \o s)
         /\ Range(<<p>> \o s) = S \cup {p}
         /\ Chained(p, after, <<p>> \o s)
<1> DEFINE T == S \cup {p}
           t == <<p>> \o s
           n == Len(s)
<1>1. /\ n \in Nat /\ DOMAIN s = 1 .. n
      /\ \A i \in 1 .. n : s[i] \in S
      /\ s = <<>> <=> n = 0
  BY LenProperties, ElementOfSeq
<1>2. s \in Seq(T) /\ <<p>> \in Seq(T) /\ Len(<<p>>) = 1 /\ <<p>>[1] = p
  BY SeqMonotonic
<1>3. /\ t \in Seq(T)
      /\ Len(t) = 1 + n
      /\ \A i \in 1 .. 1 + n : t[i] = IF i <= 1 THEN <<p>>[i] ELSE s[i - 1]
  BY <1>2, ConcatProperties
<1>4. DOMAIN t = 1 .. n + 1
  BY <1>1, <1>3, LenProperties
<1> HIDE DEF t, n
<1>5. /\ Len(t) = n + 1
      /\ t[1] = p
      /\ \A i \in 1 .. n : i + 1 \in 1 .. n + 1 /\ t[i + 1] = s[i]
      /\ \A i \in 1 .. n + 1 : i = 1 \/ (i - 1 \in 1 .. n /\ t[i] = s[i - 1])
  BY <1>1, <1>2, <1>3
<1>6. NoRepeat(t)
  <2>1. \A i, j \in 1 .. n : s[i] = s[j] => i = j
    BY DEF NoRepeat, n
  <2>2. ASSUME NEW i \in 1 .. n + 1, NEW j \in 1 .. n + 1, t[i] = t[j] PROVE i = j
    <3>1. i = 1 <=> t[i] = p
      BY <1>1, <1>5
    <3>2. j = 1 <=> t[j] = p
      BY <1>1, <1>5
    <3>3. CASE i # 1 /\ j # 1
      <4>1. i - 1 = j - 1
        BY <1>5, <2>1, <2>2, <3>3
      <4> QED BY <4>1
    <3> QED BY <2>2, <3>1, <3>2, <3>3
  <2> QED BY <1>5, <2>2 DEF NoRepeat
<1>7. Range(t) = T
  <2>1. S = {s[i] : i \in 1 .. n}
    BY <1>1 DEF Range
  <2>2. 1 \in 1 .. n + 1
    BY <1>1
  <2>3. \A x \in T : \E i \in 1 .. n + 1 : t[i] = x
    BY <1>5, <2>1, <2>2
  <2>4. \A i \in 1 .. n + 1 : t[i] \in T
    BY <1>1, <1>5
  <2> QED BY <1>4, <2>3, <2>4 DEF Range
<1>8. Chained(p, after, t)
  <2>1. /\ head = IF n = 0 THEN FREE_LIST_END ELSE s[1]
        /\ \A i \in 1 .. n : next[s[i]] = IF i = n THEN FREE_LIST_END ELSE s[i + 1]
    BY <1>1 DEF Chained, n
  <2>2. ASSUME NEW i \in 1 .. n + 1
        PROVE  after[t[i]] = IF i = n + 1 THEN FREE_LIST_END ELSE t[i + 1]
    <3>1. CASE i = 1
      <4>1. n # 0 => 1 \in 1 .. n /\ t[2] = s[1]
        <5>1. n # 0 => 1 \in 1 .. n
          BY <1>1
        <5>2. 1 + 1 = 2
          OBVIOUS
        <5> QED BY <1>5, <5>1, <5>2
      <4> QED BY <1>1, <1>5, <2>1, <3>1, <4>1
    <3>2. CASE i # 1
      <4>1. i - 1 \in 1 .. n /\ t[i] = s[i - 1] /\ i - 1 + 1 = i
        BY <1>1, <1>5, <3>2
      <4>2. after[t[i]] = IF i - 1 = n THEN FREE_LIST_END ELSE s[i]
        BY <1>1, <2>1, <4>1
      <4>3. i # n + 1 => i \in 1 .. n /\ t[i + 1] = s[i]
        BY <1>1, <1>5
      <4> QED BY <1>1, <4>1, <4>2, <4>3
    <3> QED BY <3>1, <3>2
  <2>3. t # <<>>
    BY <1>1, <1>5
  <2> QED BY <1>5, <2>2, <2>3 DEF Chained
<1> QED BY <1>3, <1>6, <1>7, <1>8 DEF t

\* s is the walk over the pages of S, each once, that starts at head.
Walk(S, s, head, next) ==
  /\ s \in Seq(S) /\ NoRepeat(s) /\ Range(s) = S
  /\ Chained(head, next, s)

\* Behind the front of the list no link changes.
SameBehind(S, s, next, after) == \A q \in S \ {s[1]} : after[q] = next[q]

(* Without its first page the list is a walk from where that page points.   *)
LEMMA PoppedOffList ==
  ASSUME NEW S \in SUBSET PageIds, NEW s, s # <<>>,
         NEW head, NEW next, NEW after,
         Walk(S, s, head, next), SameBehind(S, s, next, after)
  PROVE  /\ Walk(S \ {s[1]}, Tail(s), next[s[1]], after)
         /\ head = s[1] /\ head \in S /\ Head(s) = s[1]
<1> USE DEF Walk, SameBehind
<1> DEFINE t == Tail(s)
           n == Len(s)
           T == S \ {s[1]}
<1>1. /\ n \in Nat \ {0} /\ DOMAIN s = 1 .. n
      /\ \A i \in 1 .. n : s[i] \in S
  BY LenProperties, ElementOfSeq, EmptySeq
<1>2. /\ t \in Seq(S) /\ Len(t) = n - 1
      /\ \A i \in 1 .. Len(t) : t[i] = s[i + 1]
  BY HeadTailProperties
<1>3. DOMAIN t = 1 .. n - 1
  BY <1>2, LenProperties
<1>4. Head(s) = s[1]
  OBVIOUS
<1> HIDE DEF t, n
<1>5. /\ n - 1 \in Nat
      /\ \A i \in 1 .. n - 1 : i + 1 \in 1 .. n /\ i + 1 # 1 /\ t[i] = s[i + 1]
      /\ 1 \in 1 .. n
  BY <1>1, <1>2
<1>6. \A i, j \in 1 .. n : s[i] = s[j] => i = j
  BY DEF NoRepeat, n
<1>7. \A i \in 1 .. n - 1 : t[i] \in T
  BY <1>1, <1>5, <1>6
<1>8. t \in Seq(T)
  <2>1. t \in [1 .. n - 1 -> S]
    BY <1>2, LenProperties
  <2>2. t \in [1 .. n - 1 -> T]
    BY <1>7, <2>1
  <2> QED BY <1>5, <2>2
<1>9. NoRepeat(t)
  <2>1. ASSUME NEW i \in 1 .. n - 1, NEW j \in 1 .. n - 1, t[i] = t[j] PROVE i = j
    <3>1. i + 1 = j + 1
      BY <1>5, <1>6, <2>1
    <3> QED BY <3>1
  <2> QED BY <1>2, <2>1 DEF NoRepeat
<1>10. Range(t) = T
  <2>1. S = {s[i] : i \in 1 .. n}
    BY <1>1 DEF Range
  <2>2. ASSUME NEW x \in T PROVE \E i \in 1 .. n - 1 : t[i] = x
    <3>1. PICK i \in 1 .. n : x = s[i]
      BY <2>1
    <3>2. i # 1
      BY <3>1
    <3>3. i - 1 \in 1 .. n - 1 /\ i - 1 + 1 = i
      BY <1>1, <3>2
    <3> QED BY <1>5, <3>1, <3>3
  <2> QED BY <1>3, <1>7, <2>2 DEF Range
<1>11. /\ head = s[1]
       /\ \A i \in 1 .. n : next[s[i]] = IF i = n THEN FREE_LIST_END ELSE s[i + 1]
  BY DEF Chained, n
<1>12. Chained(next[s[1]], after, t)
  <2>1. t = <<>> <=> n = 1
    <3>1. t = <<>> <=> Len(t) = 0
      BY <1>2, EmptySeq
    <3> QED BY <1>1, <1>2, <3>1
  <2>2. next[s[1]] = IF t = <<>> THEN FREE_LIST_END ELSE t[1]
    <3>1. n # 1 => 1 \in 1 .. n - 1 /\ t[1] = s[1 + 1]
      BY <1>1, <1>5
    <3> QED BY <1>5, <1>11, <2>1, <3>1
  <2>3. ASSUME NEW i \in 1 .. n - 1
        PROVE  after[t[i]] = IF i = n - 1 THEN FREE_LIST_END ELSE t[i + 1]
    <3>1. i + 1 \in 1 .. n /\ t[i] = s[i + 1]
      BY <1>5
    <3>2. after[t[i]] = IF i + 1 = n THEN FREE_LIST_END ELSE s[i + 1 + 1]
      BY <1>7, <1>11, <3>1
    <3>3. i # n - 1 => i + 1 \in 1 .. n - 1
      BY <1>1
    <3>4. i # n - 1 => t[i + 1] = s[i + 1 + 1]
      BY <1>5, <3>3
    <3>5. i = n - 1 <=> i + 1 = n
      BY <1>1
    <3> QED BY <3>2, <3>4, <3>5
  <2> QED BY <1>2, <2>2, <2>3 DEF Chained
<1>13. head \in S
  BY <1>1, <1>5, <1>11
<1> QED BY <1>4, <1>8, <1>9, <1>10, <1>11, <1>12, <1>13 DEF t

LEMMA ThreadsIsChainNext ==
  \A s \in Seq(FreePages') :
    Threads(s)' <=> Chained(header'.first_free_page, NextFree', s)
<1>1. (\A s \in Seq(FreePages) :
         Threads(s) <=> Chained(header.first_free_page, NextFree, s))'
  BY ThreadsIsChain, PTL
<1> QED BY <1>1

(* A walk along the links of the next state over its free pages is its free *)
(* list.                                                                    *)
LEMMA NextChain ==
  ASSUME NEW s, s \in Seq(FreePages'), NoRepeat(s), Range(s) = FreePages',
         Chained(header'.first_free_page, NextFree', s)
  PROVE  FreeListThreaded' /\ FreeList' = s
<1>1. Listed(s)'
  BY ThreadsIsChainNext DEF Listed
<1> QED BY <1>1, NextList

(* The free list now, as a walk along the links. *)
LEMMA ListNow ==
  ASSUME FreeListThreaded
  PROVE  /\ FreePages \in SUBSET PageIds
         /\ FreeList \in Seq(FreePages) /\ NoRepeat(FreeList) /\ Range(FreeList) = FreePages
         /\ Chained(header.first_free_page, NextFree, FreeList)
<1>1. Listed(FreeList)
  BY ThreadedIsListed
<1>2. FreePages \in SUBSET PageIds
  BY DEF FreePages, InRange
<1> QED BY <1>1, <1>2, ThreadsIsChain DEF Listed

(* write_page, and the caller's write. *)
LEMMA WriteStep ==
  ASSUME ThreadedInv, NEW p \in PageIds, NEW d \in Data, WritePage(p, d)
  PROVE  StoreStep
<1> USE DEF ThreadedInv
<1> DEFINE page == [next_free |-> PAGE_USED, data |-> d]
<1>1. PICK s : s = FreeList
  OBVIOUS
<1>2. /\ FreePages \in SUBSET PageIds
      /\ s \in Seq(FreePages) /\ NoRepeat(s) /\ Range(s) = FreePages
      /\ Chained(header.first_free_page, NextFree, s)
  BY <1>1, ListNow
<1>3. /\ LoadAndSet(p, page, TRUE) /\ UNCHANGED <<header, disk_len>> /\ IsUsed(p)
      /\ out' = <<"write", p, d>> /\ p < header.num_pages
  BY DEF WritePage, Reply, LoadAndSet, CanLoad
<1>4. \A q \in PageIds : Loaded(q)' = IF q = p THEN page ELSE Loaded(q)
  BY <1>3, LoadedAfter
<1>5. InRange' = InRange /\ p \in InRange
  BY <1>3 DEF InRange
<1>6. UsedPages' = UsedPages /\ p \in UsedPages
  BY <1>3, <1>4, <1>5 DEF UsedPages, IsUsed, InRange
<1>7. FreePages' = FreePages /\ p \notin FreePages
  BY <1>5, <1>6 DEF FreePages
<1>8. Chained(header'.first_free_page, NextFree', s)
  <2>1. \A i \in 1 .. Len(s) : s[i] \in FreePages
    BY <1>2, ElementOfSeq
  <2>2. \A q \in FreePages : NextFree'[q] = NextFree[q]
    BY <1>2, <1>4, <1>7 DEF NextFree
  <2> QED BY <1>2, <1>3, <2>1, <2>2 DEF Chained
<1>9. FreeListThreaded' /\ FreeList' = s
  BY <1>2, <1>7, <1>8, NextChain
<1>10. content' = [content EXCEPT ![p] = d]
  <2>1. Loaded(p)'.data = d
    BY <1>4
  <2>2. \A q \in PageIds : q # p => Loaded(q)' = Loaded(q)
    BY <1>4
  <2> QED BY <1>6, <2>1, <2>2 DEF content
<1>11. content[p] # NoData
  BY <1>3, ContentIs
<1>12. PS!Write(p, d)
  BY <1>1, <1>3, <1>9, <1>10, <1>11 DEF PS!Write
<1>13. FileWhole'
  BY <1>3 DEF FileWhole, HeaderWithinFile
<1> QED BY <1>9, <1>12, <1>13 DEF StoreStep, PS!Next, PS!StoreIds, PageIds

(* dispose_page puts the page in front of the free list. *)
LEMMA DisposeStep ==
  ASSUME ThreadedInv, NEW p \in PageIds, DisposePage(p)
  PROVE  StoreStep
<1> USE DEF ThreadedInv
<1>1. PICK s : s = FreeList
  OBVIOUS
<1>2. /\ FreePages \in SUBSET PageIds
      /\ s \in Seq(FreePages) /\ NoRepeat(s) /\ Range(s) = FreePages
      /\ Chained(header.first_free_page, NextFree, s)
  BY <1>1, ListNow
<1>3. PICK page : page = [next_free |-> header.first_free_page, data |-> ZeroData]
  OBVIOUS
<1>4. /\ LoadAndSet(p, page, TRUE) /\ UNCHANGED disk_len /\ IsUsed(p)
      /\ out' = <<"dispose", p, ZeroData>> /\ p < header.num_pages
      /\ header' = [header EXCEPT !.first_free_page = p]
  BY <1>3, LinksAreIds DEF DisposePage, Reply, LoadAndSet, CanLoad
<1>5. \A q \in PageIds : Loaded(q)' = IF q = p THEN page ELSE Loaded(q)
  BY <1>4, LoadedAfter
<1>6. header'.num_pages = header.num_pages /\ header'.first_free_page = p
  BY <1>4 DEF TypeOK, Headers
<1>7. InRange' = InRange /\ p \in InRange
  BY <1>4, <1>6 DEF InRange
<1>8. page.next_free = header.first_free_page /\ header.first_free_page # PAGE_USED
  <2>1. header.first_free_page = IF s = <<>> THEN FREE_LIST_END ELSE s[1]
    BY <1>2 DEF Chained
  <2>2. s # <<>> => s[1] \in PageIds
    BY <1>2, EmptySeq, ElementOfSeq
  <2> QED BY <1>3, <2>1, <2>2 DEF PAGE_USED, FREE_LIST_END, PageIds
<1>9. UsedPages' = UsedPages \ {p} /\ p \in UsedPages
  BY <1>4, <1>5, <1>7, <1>8 DEF UsedPages, IsUsed, InRange
<1>10. FreePages' = FreePages \cup {p} /\ p \notin FreePages
  BY <1>7, <1>9 DEF FreePages
<1>11. PICK next : next = NextFree
  OBVIOUS
<1>12. PICK after : after = NextFree'
  OBVIOUS
<1>13. after[p] = header.first_free_page /\ \A q \in FreePages : after[q] = next[q]
  BY <1>2, <1>5, <1>8, <1>10, <1>11, <1>12 DEF NextFree
<1>14. /\ <<p>> \o s \in Seq(FreePages \cup {p})
       /\ NoRepeat(<<p>> \o s)
       /\ Range(<<p>> \o s) = FreePages \cup {p}
       /\ Chained(p, after, <<p>> \o s)
  <2>1. p \in PageIds \ FreePages /\ Chained(header.first_free_page, next, s)
    BY <1>2, <1>10, <1>11
  <2> QED BY <1>2, <1>13, <2>1, PushedOnList
<1>15. FreeListThreaded' /\ FreeList' = <<p>> \o s
  BY <1>6, <1>10, <1>12, <1>14, NextChain
<1>16. content' = [content EXCEPT ![p] = NoData]
  BY <1>5, <1>9 DEF content, UsedPages, InRange
<1>17. content[p] # NoData
  BY <1>4, ContentIs
<1>18. PS!Dispose(p)
  BY <1>1, <1>4, <1>6, <1>15, <1>16, <1>17 DEF PS!Dispose
<1>19. FileWhole'
  BY <1>4, <1>6 DEF FileWhole, HeaderWithinFile
<1> QED BY <1>15, <1>18, <1>19 DEF StoreStep, PS!Next, PS!StoreIds, PageIds

(* allocate_page takes the page in front of the free list. *)
LEMMA ReuseStep ==
  ASSUME ThreadedInv, NEW d \in Data, AllocateReuse(d)
  PROVE  StoreStep
<1> USE DEF ThreadedInv
<1>1. PICK s : s = FreeList
  OBVIOUS
<1>2. /\ FreePages \in SUBSET PageIds
      /\ s \in Seq(FreePages) /\ NoRepeat(s) /\ Range(s) = FreePages
      /\ Chained(header.first_free_page, NextFree, s)
  BY <1>1, ListNow
<1>3. PICK p : p = AsU32(header.first_free_page)
  OBVIOUS
<1>4. PICK page : page = [next_free |-> PAGE_USED, data |-> d]
  OBVIOUS
<1>5. /\ LoadAndSet(p, page, TRUE) /\ UNCHANGED disk_len
      /\ out' = <<"allocate", p, d>> /\ p < header.num_pages
      /\ header' = [header EXCEPT !.first_free_page = Loaded(p).next_free]
      /\ header.first_free_page # FREE_LIST_END
  BY <1>3, <1>4 DEF AllocateReuse, Reply, LoadAndSet, CanLoad
<1>6. s # <<>>
  BY <1>2, <1>5 DEF Chained
<1>7. PICK next : next = NextFree
  OBVIOUS
<1>8. PICK after : after = NextFree'
  OBVIOUS
<1>9. p = s[1] /\ p \in FreePages /\ p \in PageIds
  <2>1. header.first_free_page = s[1]
    BY <1>2, <1>6 DEF Chained
  <2>2. s[1] \in FreePages
    BY <1>2, <1>6, EmptySeq, ElementOfSeq
  <2> QED BY <1>2, <1>3, <2>1, <2>2, LinksAreIds
<1>10. \A q \in PageIds : Loaded(q)' = IF q = p THEN page ELSE Loaded(q)
  <2>1. LoadAndSet(p, page, TRUE) /\ p \in PageIds /\ TypeOK /\ CleanIsOnDisk
    BY <1>5, <1>9
  <2> QED BY <2>1, LoadedAfter
<1>11. header'.num_pages = header.num_pages /\ header'.first_free_page = next[p]
  BY <1>5, <1>7, <1>9 DEF TypeOK, Headers, NextFree
<1>12. InRange' = InRange /\ p \in InRange
  BY <1>9, <1>11 DEF InRange, FreePages
<1>13. UsedPages' = UsedPages \cup {p} /\ p \notin UsedPages
  <2>1. p \notin UsedPages
    BY <1>9 DEF FreePages
  <2>2. page.next_free = PAGE_USED
    BY <1>4
  <2> QED BY <1>10, <1>12, <2>1, <2>2 DEF UsedPages, IsUsed, InRange
<1>14. FreePages' = FreePages \ {p}
  BY <1>12, <1>13 DEF FreePages
<1>15. /\ Tail(s) \in Seq(FreePages \ {p})
       /\ NoRepeat(Tail(s))
       /\ Range(Tail(s)) = FreePages \ {p}
       /\ Chained(next[p], after, Tail(s))
       /\ Head(s) = p
  <2>1. Chained(header.first_free_page, next, s)
    BY <1>2, <1>7
  <2>2. SameBehind(FreePages, s, next, after)
    BY <1>2, <1>7, <1>8, <1>9, <1>10 DEF NextFree, SameBehind
  <2>3. Walk(FreePages, s, header.first_free_page, next)
    BY <1>2, <2>1 DEF Walk
  <2>4. Walk(FreePages \ {s[1]}, Tail(s), next[s[1]], after) /\ Head(s) = s[1]
    BY <1>2, <1>6, <2>2, <2>3, PoppedOffList
  <2> QED BY <1>9, <2>4 DEF Walk
<1>16. FreeListThreaded' /\ FreeList' = Tail(s)
  BY <1>8, <1>11, <1>14, <1>15, NextChain
<1>17. content' = [content EXCEPT ![p] = d]
  <2>1. Loaded(p)'.data = d
    BY <1>4, <1>9, <1>10
  <2>2. \A q \in PageIds : q # p => Loaded(q)' = Loaded(q)
    BY <1>10
  <2> QED BY <1>9, <1>13, <2>1, <2>2 DEF content
<1>18. PS!Allocate(d)
  <2>1. p \in PS!StoreIds
    BY <1>9 DEF PS!StoreIds, PageIds
  <2>2. FreeList # <<>> /\ p = Head(FreeList) /\ FreeList' = Tail(FreeList)
    BY <1>1, <1>6, <1>15, <1>16
  <2> QED BY <1>5, <1>11, <1>17, <2>1, <2>2 DEF PS!Allocate
<1>19. FileWhole'
  BY <1>5, <1>11 DEF FileWhole, HeaderWithinFile
<1> QED BY <1>16, <1>18, <1>19 DEF StoreStep, PS!Next

(* allocate_page grows the file when no page is free. *)
LEMMA GrowStep ==
  ASSUME ThreadedInv, NEW d \in Data, AllocateGrow(d)
  PROVE  StoreStep
<1> USE DEF ThreadedInv
<1>1. PICK s : s = FreeList
  OBVIOUS
<1>2. /\ FreePages \in SUBSET PageIds
      /\ s \in Seq(FreePages) /\ NoRepeat(s) /\ Range(s) = FreePages
      /\ Chained(header.first_free_page, NextFree, s)
  BY <1>1, ListNow
<1>3. PICK p : p = header.num_pages
  OBVIOUS
<1>4. PICK page : page = [next_free |-> PAGE_USED, data |-> d]
  OBVIOUS
<1>5. /\ header.first_free_page = FREE_LIST_END
      /\ header' = [header EXCEPT !.num_pages = p + 1]
      /\ disk_len' = p + 1
      /\ disk_pages' = [q \in PageIds |-> IF q < disk_len /\ q <= p THEN Flushed[q] ELSE ZeroPage]
      /\ loaded_page_id' = p /\ loaded_page' = page
      /\ out' = <<"allocate", p, d>>
  BY <1>3, <1>4 DEF AllocateGrow, Reply
<1>6. p \in PageIds /\ p \in Nat
  <2>1. p \in 0 .. MaxPages /\ p < MaxPages
    BY <1>3 DEF AllocateGrow, TypeOK, Headers
  <2> QED BY <2>1, BoundAssumption DEF PageIds
<1>7. header'.num_pages = p + 1 /\ header'.first_free_page = FREE_LIST_END
  BY <1>5 DEF TypeOK, Headers
<1>8. s = <<>> /\ FreePages = {}
  <2>1. s # <<>> => s[1] \in PageIds
    BY <1>2, EmptySeq, ElementOfSeq
  <2>2. s = <<>>
    BY <1>2, <1>5, <2>1 DEF Chained, PageIds, FREE_LIST_END
  <2> QED BY <1>2, <2>2 DEF Range
<1>9. InRange' = InRange \cup {p} /\ p \notin InRange
  BY <1>3, <1>6, <1>7 DEF InRange, PageIds
<1>10. Loaded(p)' = page /\ \A q \in InRange : Loaded(q)' = Loaded(q)
  <2>1. Loaded(p)' = page
    BY <1>5 DEF Loaded
  <2>2. ASSUME NEW q \in InRange PROVE Loaded(q)' = Loaded(q)
    <3>1. q \in PageIds /\ q # p /\ q < disk_len /\ q <= p
      BY <1>3, <1>6, <1>9 DEF InRange, FileWhole, HeaderWithinFile, TypeOK, PageIds
    <3>2. Loaded(q)' = Flushed[q]
      BY <1>5, <3>1 DEF Loaded
    <3> QED BY <3>1, <3>2, FlushedIsLoaded
  <2> QED BY <2>1, <2>2
<1>11. UsedPages' = UsedPages \cup {p} /\ p \notin UsedPages
  <2>1. page.next_free = PAGE_USED
    BY <1>4
  <2> QED BY <1>9, <1>10, <2>1 DEF UsedPages, IsUsed
<1>12. FreePages' = {}
  BY <1>8, <1>9, <1>11 DEF FreePages
<1>13. FreeListThreaded' /\ FreeList' = s
  <2>1. Chained(header'.first_free_page, NextFree', s)
    BY <1>7, <1>8 DEF Chained
  <2> QED BY <1>2, <1>8, <1>12, <2>1, NextChain
<1>14. content' = [content EXCEPT ![p] = d]
  <2>1. Loaded(p)'.data = d
    BY <1>4, <1>10
  <2>2. \A q \in UsedPages : Loaded(q)' = Loaded(q)
    BY <1>10 DEF UsedPages
  <2> QED BY <1>6, <1>11, <2>1, <2>2 DEF content
<1>15. PS!Allocate(d)
  <2>1. p \in PS!StoreIds
    BY <1>6 DEF PS!StoreIds, PageIds
  <2>2. FreeList = <<>> /\ FreeList' = FreeList
    BY <1>1, <1>8, <1>13
  <2>3. p = header.num_pages /\ header'.num_pages = header.num_pages + 1
    BY <1>3, <1>7
  <2> QED BY <1>5, <1>14, <2>1, <2>2, <2>3 DEF PS!Allocate
<1>16. FileWhole'
  BY <1>5, <1>6, <1>7 DEF FileWhole, HeaderWithinFile
<1> QED BY <1>13, <1>15, <1>16 DEF StoreStep, PS!Next

-----------------------------------------------------------------------------
(* A new page file has an empty free list and is whole. *)
LEMMA ThreadedInit == Init => ThreadedInv /\ PS!Init
<1> SUFFICES ASSUME Init PROVE ThreadedInv /\ PS!Init
  OBVIOUS
<1>1. header.num_pages = 0 /\ header.first_free_page = FREE_LIST_END
  BY DEF Init
<1>2. InRange = {} /\ UsedPages = {} /\ FreePages = {}
  BY <1>1 DEF InRange, UsedPages, FreePages, PageIds
<1>3. Listed(<<>>)
  BY <1>1, <1>2 DEF Listed, NoRepeat, Range, Threads
<1>4. FreeList = <<>>
  BY <1>3, FreeListIs DEF Listed
<1>5. FreeListThreaded
  BY <1>3, <1>4, ThreadedIsListed
<1>6. FileWhole /\ CleanIsOnDisk
  BY <1>1 DEF Init, FileWhole, HeaderWithinFile, CleanIsOnDisk
<1>7. PS!Init
  BY <1>1, <1>2, <1>4 DEF Init, PS!Init, content, PS!StoreIds, PageIds
<1> QED BY <1>5, <1>6, <1>7, TypeInit DEF ThreadedInv

(* Every step keeps the free list and is a step of the store. *)
LEMMA ThreadedStep ==
  ASSUME Faults \subseteq {"write"}
  PROVE  ThreadedInv /\ [Next]_vars => ThreadedInv' /\ [PS!Next]_(PS!storeVars)
<1> SUFFICES ASSUME ThreadedInv, [Next]_vars
             PROVE  ThreadedInv' /\ [PS!Next]_(PS!storeVars)
  OBVIOUS
<1>1. TypeOK' /\ CleanIsOnDisk'
  BY TypeStep, CleanStep DEF ThreadedInv
<1>2. StoreStep
  <2>1. ASSUME NEW d \in Data, AllocateReuse(d) \/ AllocateGrow(d) PROVE StoreStep
    BY <2>1, ReuseStep, GrowStep
  <2>2. ASSUME NEW p \in PageIds, ReadPage(p) PROVE StoreStep
    BY <2>2, LookStep
  <2>3. ASSUME NEW p \in PageIds, NEW d \in Data, WritePage(p, d) PROVE StoreStep
    BY <2>3, WriteStep
  <2>4. ASSUME NEW p \in PageIds, DisposePage(p) PROVE StoreStep
    BY <2>4, DisposeStep
  <2>5. ASSUME NEW p \in PageIds, NEW call \in {"write", "dispose"}, Refused(p, call)
        PROVE  StoreStep
    BY <2>5, LookStep
  <2>6. ASSUME NEW p \in PageIds, NEW call \in {"read", "write", "dispose"}, OutOfRange(p, call)
        PROVE  StoreStep
    BY <2>6, LookStep
  <2>7. \A p \in PageIds : ~ReadFails(p)
    BY NoReadFails DEF ThreadedInv
  <2>8. ~DropFails /\ ~SetLenFails /\ ~Crash
    BY DEF DropFails, SetLenFails, Crash
  <2>9. CASE Flush \/ Reopen \/ PageWriteFails \/ HeaderWriteFails
    BY <2>9, HouseStep
  <2>10. CASE UNCHANGED vars
    <3>1. UNCHANGED <<header, disk_len, loaded_page_id, loaded_page, disk_pages, out>>
      BY <2>10 DEF vars, memory, disk, history
    <3>2. \A q \in PageIds : Loaded(q)' = Loaded(q)
      BY <3>1 DEF Loaded
    <3>3. FreeListThreaded' /\ UNCHANGED <<content, FreeList, header.num_pages>>
      BY <3>1, <3>2, HeldAsBefore DEF ThreadedInv
    <3>4. FileWhole'
      BY <3>1 DEF ThreadedInv, FileWhole, HeaderWithinFile
    <3> QED BY <3>1, <3>3, <3>4 DEF StoreStep, PS!storeVars
  <2> QED
    BY <2>1, <2>2, <2>3, <2>4, <2>5, <2>6, <2>7, <2>8, <2>9, <2>10 DEF Next
<1> QED BY <1>1, <1>2 DEF StoreStep, ThreadedInv

(* As long as no read, no set_len and no drop fails and the process is not  *)
(* killed, whatever writes fail or stop halfway: the free list threads      *)
(* exactly the pages that are not in use, for every number of pages.        *)
THEOREM FreeListComplete ==
  ASSUME Faults \subseteq {"write"}
  PROVE  Spec => []FreeListThreaded
<1>1. Init => ThreadedInv
  BY ThreadedInit
<1>2. ThreadedInv /\ [Next]_vars => ThreadedInv'
  BY ThreadedStep
<1>3. ThreadedInv => FreeListThreaded
  BY DEF ThreadedInv
<1> QED BY <1>1, <1>2, <1>3, PTL DEF Spec

(* Under the same failures the page file implements the page store: reads   *)
(* return what was last written, and the last page disposed is reused first. *)
THEOREM FileIsPageStore ==
  ASSUME Faults \subseteq {"write"}
  PROVE  Spec => ImplementsPageStore
<1>1. Init => ThreadedInv /\ PS!Init
  BY ThreadedInit
<1>2. ThreadedInv /\ [Next]_vars => ThreadedInv' /\ [PS!Next]_(PS!storeVars)
  BY ThreadedStep
<1> QED BY <1>1, <1>2, PTL DEF Spec, ImplementsPageStore, PS!Spec

-----------------------------------------------------------------------------
(* What a flush has written stays: for every number of pages, every set of *)
(* contents and all I/O errors and kills of the model, as long as the      *)
(* client disposes no page.                                                *)

(* The inductive invariant.  What a client has written to a page is in the *)
(* buffer while that is dirty, and else on disk; the header in memory      *)
(* counts the page, the header on disk as well unless it is yet to be      *)
(* written; the free list is empty, so that no page is handed out again.   *)
UsedPage(d) == [next_free |-> PAGE_USED, data |-> d]

Kept(q) ==
  IF loaded_page_id = q /\ loaded_page_dirty THEN loaded_page = UsedPage(written[q])
                                             ELSE disk_pages[q] = UsedPage(written[q])

WrittenKept ==
  \A q \in PageIds : written[q] # NoData =>
    /\ q < header.num_pages /\ q < disk_len
    /\ ~header_dirty => q < disk_header.num_pages
    /\ Kept(q)

FlushedWritten ==
  \A q \in PageIds : flushed[q] # {} =>
    written[q] # NoData /\ MixOf(flushed[q], written[q])

NoFreePages ==
  header.first_free_page = FREE_LIST_END /\ disk_header.first_free_page = FREE_LIST_END

HeaderAhead == disk_header.num_pages <= header.num_pages

OpenInv == WrittenKept /\ FlushedWritten /\ HeaderAhead

DurabilityInv == FlushedPagesSurvive /\ NoFreePages /\ (status = "open" => OpenInv)

-----------------------------------------------------------------------------
(* What the write-back of the buffer leaves on disk: every page that was    *)
(* written has its data there, and no flushed page is worse off.            *)
LEMMA FlushedKeepsWritten ==
  ASSUME TypeOK, WrittenKept, NEW q \in PageIds, written[q] # NoData
  PROVE  Flushed[q] = UsedPage(written[q])
<1>1. Kept(q) /\ q # NoPage /\ disk_pages \in [PageIds -> Pages]
  BY DEF WrittenKept, TypeOK, NoPage, PageIds
<1>2. CASE loaded_page_id = q /\ loaded_page_dirty
  <2>1. loaded_page = UsedPage(written[q])
    BY <1>1, <1>2 DEF Kept
  <2> QED BY <1>1, <1>2, <2>1 DEF Flushed
<1>3. CASE ~(loaded_page_id = q /\ loaded_page_dirty)
  <2>1. disk_pages[q] = UsedPage(written[q])
    BY <1>1, <1>3 DEF Kept
  <2> QED BY <1>1, <1>3, <2>1 DEF Flushed
<1> QED BY <1>2, <1>3

\* What a page may be on disk once q was flushed.
Good(page, q) == page.next_free = PAGE_USED /\ MixOf(flushed[q], page.data)

(* A content mixes itself; mixing more contents allows more; and a content  *)
(* that a write which stopped early has left mixes what the old one and the *)
(* new one mix.                                                             *)
LEMMA MemberIsMix ==
  ASSUME NEW S, NEW d \in S PROVE MixOf(S, d)
BY DEF MixOf

LEMMA MixOfMore ==
  ASSUME NEW S, NEW T, S \subseteq T, NEW d, MixOf(S, d) PROVE MixOf(T, d)
BY DEF MixOf

LEMMA PartCopiedMixes ==
  ASSUME NEW S, NEW old, NEW new, NEW n \in Nat, MixOf(S, old.data), MixOf(S, new.data)
  PROVE  MixOf(S, PartCopied(old, new, n).data)
<1> SUFFICES ASSUME NEW i \in 1 .. DataSize
             PROVE  \E e \in S : PartCopied(old, new, n).data[i] = e[i]
  BY DEF MixOf
<1>1. PartCopied(old, new, n).data[i] = IF i <= n THEN new.data[i] ELSE old.data[i]
  BY DEF PartCopied
<1>2. (\E e \in S : new.data[i] = e[i]) /\ (\E e \in S : old.data[i] = e[i])
  BY DEF MixOf
<1> QED BY <1>1, <1>2

LEMMA FlushedIsGood ==
  ASSUME TypeOK, WrittenKept, FlushedWritten, NEW q \in PageIds, flushed[q] # {}
  PROVE  Good(Flushed[q], q)
<1>1. written[q] # NoData /\ MixOf(flushed[q], written[q])
  BY DEF FlushedWritten
<1>2. Flushed[q] = UsedPage(written[q])
  BY <1>1, FlushedKeepsWritten
<1> QED BY <1>1, <1>2 DEF Good, UsedPage

(* The answers of calls other than flush let the history of a page grow,    *)
(* and start none; for a page that is not the one written to, nothing of it *)
(* changes but by what is in it already.                                    *)
LEMMA ReplyKeepsHistory ==
  ASSUME TypeOK, FlushedWritten, ~ClientDisposes,
         NEW call \in {"allocate", "read", "write", "dispose", "error"},
         NEW p \in PageIds, NEW d \in Data \cup {NoData},
         call = "dispose" => d = NoData,
         call = "allocate" => d # NoData,
         Reply(call, p, d)
  PROVE  /\ FlushedWritten'
         /\ \A q \in PageIds : flushed[q] \subseteq flushed'[q]
         /\ \A q \in PageIds : flushed'[q] # {} => flushed[q] # {}
         /\ \A q \in PageIds : written'[q] # NoData =>
              \/ q = p /\ call \in {"allocate", "write"} /\ d # NoData /\ written'[q] = d
                   /\ (call = "write" => written[q] # NoData)
              \/ written'[q] = written[q]
         /\ (call \in {"read", "dispose", "error"} \/ d = NoData) => written' = written
<1>1. written' = IF call = "allocate" \/ (call = "write" /\ d # NoData /\ written[p] # NoData)
                   THEN [written EXCEPT ![p] = d] ELSE written
  BY DEF Reply
<1>2. \A q \in PageIds : flushed'[q] = IF flushed[q] = {} THEN {}
                                      ELSE flushed[q] \cup ({written'[q]} \ {NoData})
  BY DEF Reply
<1>3. written \in [PageIds -> Data \cup {NoData}]
  BY DEF TypeOK
<1>4. \A q \in PageIds : written[q] # NoData => written'[q] # NoData
  BY <1>1, <1>3
<1>5. FlushedWritten'
  <2> SUFFICES ASSUME NEW q \in PageIds, flushed'[q] # {}
               PROVE  written'[q] # NoData /\ MixOf(flushed'[q], written'[q])
    BY DEF FlushedWritten
  <2>1. written[q] # NoData /\ written'[q] # NoData
    BY <1>2, <1>4 DEF FlushedWritten
  <2>2. written'[q] \in flushed'[q]
    BY <1>2, <2>1
  <2> QED BY <2>1, <2>2, MemberIsMix
<1>6. \A q \in PageIds : written'[q] # NoData =>
        \/ q = p /\ call \in {"allocate", "write"} /\ d # NoData /\ written'[q] = d
             /\ (call = "write" => written[q] # NoData)
        \/ written'[q] = written[q]
  BY <1>1, <1>3
<1>7. (call \in {"read", "dispose", "error"} \/ d = NoData) => written' = written
  BY <1>1
<1> QED BY <1>2, <1>5, <1>6, <1>7

(* A step after which every flushed page is on disk what it was, or what    *)
(* the buffer was, or as good, keeps flushed pages.                         *)
LEMMA StepKeepsFlushed ==
  ASSUME TypeOK, TypeOK', WrittenKept, FlushedWritten, FlushedPagesSurvive,
         \A q \in PageIds : flushed[q] \subseteq flushed'[q],
         \A q \in PageIds : flushed'[q] # {} => flushed[q] # {},
         disk_header.num_pages <= disk_header'.num_pages,
         \A q \in PageIds : flushed[q] # {} => q < disk_len',
         \A q \in PageIds : flushed[q] # {} =>
           disk_pages'[q] \in {disk_pages[q], Flushed[q]} \/ Good(disk_pages'[q], q)
  PROVE  FlushedPagesSurvive'
<1> SUFFICES ASSUME NEW q \in PageIds, flushed'[q] # {}
             PROVE  /\ q < disk_header'.num_pages
                    /\ q < disk_len'
                    /\ disk_pages'[q].next_free = PAGE_USED
                    /\ MixOf(flushed'[q], disk_pages'[q].data)
  BY DEF FlushedPagesSurvive
<1>1. q < disk_header.num_pages /\ q < disk_len /\ Good(disk_pages[q], q)
  BY DEF FlushedPagesSurvive, Good
<1>2. Good(Flushed[q], q)
  BY FlushedIsGood
<1>3. Good(disk_pages'[q], q)
  BY <1>1, <1>2
<1>4. q < disk_header'.num_pages
  BY <1>1, BoundAssumption DEF TypeOK, Headers, PageIds
<1>5. MixOf(flushed'[q], disk_pages'[q].data)
  BY <1>3, MixOfMore DEF Good
<1> QED BY <1>1, <1>3, <1>4, <1>5 DEF Good

(* A file that was opened knows what it has on disk.                        *)
LEMMA OpenKnowsDisk ==
  ASSUME TypeOK, TypeOK', Open, FlushedPagesSurvive'
  PROVE  status' = "open" => OpenInv'
<1>1. \A q \in PageIds : written'[q] # NoData =>
        q < disk_header'.num_pages /\ disk_pages'[q] = UsedPage(written'[q])
  <2> SUFFICES ASSUME NEW q \in PageIds, written'[q] # NoData
               PROVE  q < disk_header'.num_pages /\ disk_pages'[q] = UsedPage(written'[q])
    OBVIOUS
  <2>1. /\ q < disk_header'.num_pages /\ disk_pages'[q].next_free = PAGE_USED
        /\ written'[q] = disk_pages'[q].data
    BY DEF Open
  <2>2. disk_pages'[q] \in Pages
    BY DEF TypeOK
  <2> QED BY <2>1, <2>2 DEF Pages, UsedPage
<1>2. status' = "open" => \A q \in PageIds : q < disk_header'.num_pages => q < disk_len'
  BY BoundAssumption DEF Open, HeaderWithinFile, TypeOK, Headers, PageIds
<1>3. status' = "open" => WrittenKept'
  BY <1>1, <1>2 DEF Open, WrittenKept, Kept
<1>4. FlushedWritten'
  <2> SUFFICES ASSUME NEW q \in PageIds, flushed'[q] # {}
               PROVE  written'[q] # NoData /\ MixOf(flushed'[q], written'[q])
    BY DEF FlushedWritten
  <2>1. q < disk_header'.num_pages /\ disk_pages'[q].next_free = PAGE_USED
          /\ MixOf(flushed'[q], disk_pages'[q].data)
    BY DEF FlushedPagesSurvive
  <2>2. written'[q] = disk_pages'[q].data
    BY <2>1 DEF Open
  <2>3. disk_pages'[q] \in Pages
    BY DEF TypeOK
  <2>4. written'[q] \in Data
    BY <2>2, <2>3 DEF Pages
  <2> QED BY <2>1, <2>2, <2>4, DataFacts
<1>5. HeaderAhead'
  BY DEF Open, HeaderAhead, TypeOK, Headers
<1> QED BY <1>3, <1>4, <1>5 DEF OpenInv

(* A torn write of a flushed page leaves the used marker in front of bytes  *)
(* that the page had or was given, and touches no other page.               *)
LEMMA HalfIsGood ==
  ASSUME TypeOK, WrittenKept, FlushedWritten, FlushedPagesSurvive,
         loaded_page_id # NoPage, loaded_page_dirty, disk_pages' \in HalfFlushed
  PROVE  /\ \A q \in PageIds : flushed[q] # {} => Good(disk_pages'[q], q)
         /\ \A q \in PageIds : q # loaded_page_id => disk_pages'[q] = disk_pages[q]
<1> DEFINE p == loaded_page_id
<1>1. \A q \in PageIds : flushed[q] # {} => Good(disk_pages[q], q)
  BY DEF FlushedPagesSurvive, Good
<1>2. p \in PageIds /\ disk_pages \in [PageIds -> Pages]
  BY DEF TypeOK
<1>3. CASE disk_pages' = disk_pages
  BY <1>1, <1>3
<1>4. ASSUME NEW n \in 0 .. DataSize - 1,
             disk_pages' = [disk_pages EXCEPT ![p] = PartCopied(@, loaded_page, n)]
      PROVE  /\ \A q \in PageIds : flushed[q] # {} => Good(disk_pages'[q], q)
             /\ \A q \in PageIds : q # p => disk_pages'[q] = disk_pages[q]
  <2>1. disk_pages'[p] = PartCopied(disk_pages[p], loaded_page, n)
        /\ \A q \in PageIds : q # p => disk_pages'[q] = disk_pages[q]
    BY <1>2, <1>4
  <2>2. flushed[p] # {} => Good(loaded_page, p)
    BY <1>2 DEF FlushedWritten, WrittenKept, Kept, UsedPage, Good
  <2>3. ASSUME flushed[p] # {} PROVE Good(disk_pages'[p], p)
    <3>1. MixOf(flushed[p], disk_pages[p].data) /\ Good(loaded_page, p)
      BY <1>1, <1>2, <2>2, <2>3 DEF Good
    <3>2. MixOf(flushed[p], loaded_page.data) /\ loaded_page.next_free = PAGE_USED
      BY <3>1 DEF Good
    <3>3. n \in Nat
      BY DataAssumption
    <3>4. MixOf(flushed[p], PartCopied(disk_pages[p], loaded_page, n).data)
      BY <3>1, <3>2, <3>3, PartCopiedMixes
    <3>5. PartCopied(disk_pages[p], loaded_page, n).next_free = PAGE_USED
      BY <3>2 DEF PartCopied
    <3> QED BY <2>1, <3>4, <3>5 DEF Good
  <2> QED BY <1>1, <2>1, <2>3
<1> QED BY <1>3, <1>4 DEF HalfFlushed

(* load_page keeps what was written, whether the call writes to the page    *)
(* it loads or leaves it as it was.                                         *)
LEMMA LoadKeepsWritten ==
  ASSUME TypeOK, WrittenKept, UNCHANGED <<header, header_dirty>>,
         NEW p \in PageIds, NEW page \in Pages, NEW touch \in BOOLEAN,
         LoadAndSet(p, page, touch),
         \A q \in PageIds : written'[q] # NoData =>
           \/ /\ q = p /\ touch /\ written[q] # NoData
              /\ page = UsedPage(written'[q])
           \/ written'[q] = written[q] /\ (q = p => page = Loaded(p) /\ ~touch)
  PROVE  WrittenKept'
<1> SUFFICES ASSUME NEW q \in PageIds, written'[q] # NoData
             PROVE  /\ q < header'.num_pages /\ q < disk_len'
                    /\ ~header_dirty' => q < disk_header'.num_pages
                    /\ Kept(q)'
  BY DEF WrittenKept
<1>1. written[q] # NoData
  OBVIOUS
<1>2. /\ q < header.num_pages /\ q < disk_len
      /\ ~header_dirty => q < disk_header.num_pages
      /\ Kept(q)
  BY <1>1 DEF WrittenKept
<1>3. Flushed[q] = UsedPage(written[q])
  BY <1>1, FlushedKeepsWritten
<1>4. /\ disk_pages' = IF loaded_page_id = p THEN disk_pages ELSE Flushed
      /\ loaded_page_id' = p
      /\ loaded_page_dirty' = (touch \/ (loaded_page_id = p /\ loaded_page_dirty))
      /\ loaded_page' = page
      /\ UNCHANGED <<disk_header, disk_len>>
  BY DEF LoadAndSet
<1>5. CASE q = p /\ touch
  BY <1>2, <1>4, <1>5 DEF Kept
<1>6. CASE q = p /\ ~touch
  <2>1. written'[q] = written[q] /\ page = Loaded(p)
    BY <1>6
  <2> QED BY <1>2, <1>3, <1>4, <1>6, <2>1 DEF Kept, Loaded
<1>7. CASE q # p
  BY <1>2, <1>3, <1>4, <1>7 DEF Kept
<1> QED BY <1>2, <1>4, <1>5, <1>6, <1>7

-----------------------------------------------------------------------------
(* Calls that load a page and leave the header alone.                       *)
LEMMA LoadKeepsDurability ==
  ASSUME TypeOK, TypeOK', DurabilityInv, IsOpen, ~ClientDisposes,
         UNCHANGED <<header, header_dirty>>,
         NEW call \in {"read", "write", "dispose"}, NEW p \in PageIds,
         NEW d \in Data \cup {NoData}, NEW page \in Pages, NEW touch \in BOOLEAN,
         LoadAndSet(p, page, touch), Reply(call, p, d),
         \/ ~touch /\ page = Loaded(p) /\ (call \in {"read"} \/ d = NoData)
         \/ touch /\ page = UsedPage(d) /\ call = "write" /\ d # NoData
  PROVE  DurabilityInv'
<1>1. WrittenKept /\ FlushedWritten /\ HeaderAhead /\ FlushedPagesSurvive /\ NoFreePages
  BY DEF DurabilityInv, OpenInv, IsOpen
<1>2. call = "dispose" => d = NoData
  OBVIOUS
<1>3. /\ FlushedWritten'
      /\ \A q \in PageIds : flushed[q] \subseteq flushed'[q]
      /\ \A q \in PageIds : flushed'[q] # {} => flushed[q] # {}
      /\ (call \in {"read", "dispose", "error"} \/ d = NoData) => written' = written
  BY <1>1, <1>2, ReplyKeepsHistory
<1>4. UNCHANGED <<status, disk_header, disk_len>>
      /\ disk_pages' \in {disk_pages, Flushed}
  BY DEF LoadAndSet
<1>5. FlushedPagesSurvive'
  <2>1. disk_header.num_pages <= disk_header'.num_pages
    BY <1>4 DEF TypeOK, Headers
  <2>2. \A q \in PageIds : flushed[q] # {} => q < disk_len'
    BY <1>1, <1>4 DEF FlushedPagesSurvive
  <2>3. \A q \in PageIds : disk_pages'[q] \in {disk_pages[q], Flushed[q]}
    BY <1>4
  <2> QED BY <1>1, <1>3, <2>1, <2>2, <2>3, StepKeepsFlushed
<1>6. WrittenKept'
  <2>1. CASE ~touch /\ page = Loaded(p) /\ (call \in {"read"} \/ d = NoData)
    <3>1. written' = written
      BY <1>3, <2>1
    <3> QED BY <1>1, <2>1, <3>1, LoadKeepsWritten
  <2>2. CASE touch /\ page = UsedPage(d) /\ call = "write" /\ d # NoData
    <3>1. written' = IF written[p] # NoData THEN [written EXCEPT ![p] = d] ELSE written
      BY <2>2 DEF Reply
    <3>2. \A q \in PageIds : written'[q] # NoData =>
            \/ /\ q = p /\ touch /\ written[q] # NoData
               /\ page = UsedPage(written'[q])
            \/ written'[q] = written[q] /\ (q = p => page = Loaded(p) /\ ~touch)
      BY <2>2, <3>1 DEF TypeOK
    <3> QED BY <1>1, <3>2, LoadKeepsWritten
  <2> QED BY <2>1, <2>2
<1>7. HeaderAhead' /\ NoFreePages'
  BY <1>1, <1>4 DEF HeaderAhead, NoFreePages
<1> QED BY <1>3, <1>5, <1>6, <1>7 DEF DurabilityInv, OpenInv

(* A new page is in the range that the header in memory counts, and in no   *)
(* range that any flush has written; set_len cuts off no page in that range. *)
LEMMA GrowKeepsDurability ==
  ASSUME TypeOK, TypeOK', DurabilityInv, ~ClientDisposes,
         NEW d \in Data, AllocateGrow(d)
  PROVE  DurabilityInv'
<1> DEFINE p == header.num_pages
<1>1. WrittenKept /\ FlushedWritten /\ HeaderAhead /\ FlushedPagesSurvive /\ NoFreePages
  BY DEF DurabilityInv, OpenInv, AllocateGrow, IsOpen
<1>2. p \in PageIds /\ d # NoData
  BY BoundAssumption, DataFacts DEF AllocateGrow, TypeOK, Headers, PageIds
<1>3. /\ FlushedWritten'
      /\ \A q \in PageIds : flushed[q] \subseteq flushed'[q]
      /\ \A q \in PageIds : flushed'[q] # {} => flushed[q] # {}
  BY <1>1, <1>2, ReplyKeepsHistory DEF AllocateGrow
<1>4. written' = [written EXCEPT ![p] = d]
  BY DEF AllocateGrow, Reply
<1>5. \A q \in PageIds : q < p /\ q < disk_len => q < disk_len' /\ disk_pages'[q] = Flushed[q]
  BY <1>2 DEF AllocateGrow, PageIds
<1>6. FlushedPagesSurvive'
  <2>1. disk_header.num_pages <= disk_header'.num_pages
    BY DEF AllocateGrow, TypeOK, Headers
  <2>2. \A q \in PageIds : flushed[q] # {} => q < p /\ q < disk_len
    BY <1>1, <1>2 DEF FlushedPagesSurvive, HeaderAhead, TypeOK, Headers, PageIds
  <2> QED BY <1>1, <1>3, <1>5, <2>1, <2>2, StepKeepsFlushed
<1>7. WrittenKept'
  <2> SUFFICES ASSUME NEW q \in PageIds, written'[q] # NoData
               PROVE  q < header'.num_pages /\ q < disk_len' /\ Kept(q)'
    BY DEF WrittenKept, AllocateGrow
  <2>1. CASE q = p
    BY <1>2, <1>4, <2>1 DEF AllocateGrow, TypeOK, Headers, Kept, UsedPage, PageIds
  <2>2. CASE q # p
    <3>1. written'[q] = written[q]
      BY <1>2, <1>4, <2>2 DEF TypeOK
    <3>2. q < p /\ q < disk_len /\ Flushed[q] = UsedPage(written[q])
      BY <1>1, <3>1, FlushedKeepsWritten DEF WrittenKept
    <3>3. disk_pages'[q] = UsedPage(written'[q]) /\ q < disk_len'
      BY <1>5, <3>1, <3>2
    <3> QED BY <1>2, <2>2, <3>2, <3>3 DEF AllocateGrow, TypeOK, Headers, Kept, PageIds
  <2> QED BY <2>1, <2>2
<1>8. HeaderAhead' /\ NoFreePages'
  BY <1>1, <1>2 DEF AllocateGrow, HeaderAhead, NoFreePages, TypeOK, Headers, PageIds
<1> QED BY <1>3, <1>6, <1>7, <1>8 DEF DurabilityInv, OpenInv

(* flush writes everything that was written to disk, and the header that    *)
(* counts it.                                                               *)
LEMMA FlushKeepsDurability ==
  ASSUME TypeOK, TypeOK', DurabilityInv, ~ClientDisposes, Flush
  PROVE  DurabilityInv'
<1>1. WrittenKept /\ HeaderAhead /\ NoFreePages
  BY DEF DurabilityInv, OpenInv, Flush, IsOpen
<1>2. /\ written' = written
      /\ \A q \in PageIds : flushed'[q] = {written[q]} \ {NoData}
  BY DEF Flush, Reply
<1>3. /\ disk_pages' = Flushed
      /\ disk_header' = IF header_dirty THEN header ELSE disk_header
      /\ UNCHANGED <<status, header, disk_len>>
      /\ ~loaded_page_dirty' /\ ~header_dirty'
  BY DEF Flush
<1>4. \A q \in PageIds : written[q] # NoData =>
        /\ q < header.num_pages /\ q < disk_len /\ q < disk_header'.num_pages
        /\ disk_pages'[q] = UsedPage(written[q])
  BY <1>1, <1>3, FlushedKeepsWritten DEF WrittenKept
<1>5. FlushedPagesSurvive'
  <2> SUFFICES ASSUME NEW q \in PageIds, flushed'[q] # {}
               PROVE  /\ q < disk_header'.num_pages
                      /\ q < disk_len'
                      /\ disk_pages'[q].next_free = PAGE_USED
                      /\ MixOf(flushed'[q], disk_pages'[q].data)
    BY DEF FlushedPagesSurvive
  <2>1. written[q] # NoData /\ flushed'[q] = {written[q]}
    BY <1>2
  <2>2. disk_pages'[q].next_free = PAGE_USED /\ disk_pages'[q].data = written[q]
    <3>1. disk_pages'[q] = UsedPage(written[q])
      BY <1>4, <2>1
    <3> QED BY <3>1 DEF UsedPage
  <2>3. q < disk_header'.num_pages /\ q < disk_len'
    BY <1>3, <1>4, <2>1
  <2> QED BY <2>1, <2>2, <2>3, MemberIsMix
<1>6. WrittenKept'
  BY <1>2, <1>3, <1>4 DEF WrittenKept, Kept
<1>7. FlushedWritten'
  <2> SUFFICES ASSUME NEW q \in PageIds, flushed'[q] # {}
               PROVE  written'[q] # NoData /\ MixOf(flushed'[q], written'[q])
    BY DEF FlushedWritten
  <2> QED BY <1>2, MemberIsMix
<1>8. HeaderAhead' /\ NoFreePages'
  BY <1>1, <1>3 DEF HeaderAhead, NoFreePages, TypeOK, Headers
<1> QED BY <1>5, <1>6, <1>7, <1>8 DEF DurabilityInv, OpenInv

(* A drop, a drop whose writes fail and a kill leave flushed pages on disk, *)
(* and the file that is opened again knows what is there.                   *)
LEMMA ReopenKeepsDurability ==
  ASSUME TypeOK, TypeOK', DurabilityInv, ~ClientDisposes, Reopen \/ DropFails \/ Crash
  PROVE  DurabilityInv'
<1>1. WrittenKept /\ FlushedWritten /\ HeaderAhead /\ FlushedPagesSurvive /\ NoFreePages
  BY DEF DurabilityInv, OpenInv, Reopen, DropFails, Crash, IsOpen
<1>2. Open /\ UNCHANGED disk_len
  BY DEF Reopen, DropFails, Crash
<1>3. UNCHANGED flushed
  BY <1>2 DEF Open
<1>4. /\ disk_header.num_pages <= disk_header'.num_pages
      /\ disk_header'.first_free_page = FREE_LIST_END
  <2>1. CASE Reopen
    BY <1>1, <2>1 DEF Reopen, HeaderAhead, NoFreePages, TypeOK, Headers
  <2>2. CASE DropFails
    BY <1>1, <2>2 DEF DropFails, HalfWrittenHeader, NoFreePages, TypeOK, Headers
  <2>3. CASE Crash
    BY <1>1, <2>3 DEF Crash, HalfWrittenHeader, NoFreePages, TypeOK, Headers
  <2> QED BY <2>1, <2>2, <2>3
<1>5. \A q \in PageIds : flushed[q] # {} =>
        disk_pages'[q] \in {disk_pages[q], Flushed[q]} \/ Good(disk_pages'[q], q)
  <2>1. \/ disk_pages' \in {disk_pages, Flushed}
        \/ loaded_page_id # NoPage /\ loaded_page_dirty /\ disk_pages' \in HalfFlushed
    BY DEF Reopen, DropFails, Crash
  <2> QED BY <1>1, <2>1, HalfIsGood
<1>6. FlushedPagesSurvive'
  <2>1. \A q \in PageIds : flushed[q] # {} => q < disk_len'
    BY <1>1, <1>2 DEF FlushedPagesSurvive
  <2> QED BY <1>1, <1>3, <1>4, <1>5, <2>1, StepKeepsFlushed
<1>7. NoFreePages'
  BY <1>2, <1>4 DEF Open, NoFreePages
<1> QED BY <1>2, <1>6, <1>7, OpenKnowsDisk DEF DurabilityInv

(* Failed writes, reads and set_lens keep what the next flush needs.        *)
LEMMA FailuresKeepDurability ==
  ASSUME TypeOK, TypeOK', DurabilityInv, ~ClientDisposes,
         \/ PageWriteFails \/ HeaderWriteFails \/ SetLenFails
         \/ \E p \in PageIds : ReadFails(p)
  PROVE  DurabilityInv'
<1>1. WrittenKept /\ FlushedWritten /\ HeaderAhead /\ FlushedPagesSurvive /\ NoFreePages
  BY DEF DurabilityInv, OpenInv, PageWriteFails, HeaderWriteFails, SetLenFails, ReadFails, IsOpen
<1>2. Failed /\ UNCHANGED <<status, header_dirty, loaded_page_id, disk_len>>
  BY DEF PageWriteFails, HeaderWriteFails, SetLenFails, ReadFails, memory
<1>3. 0 \in PageIds
  BY LinksAreIds
<1>4. /\ FlushedWritten'
      /\ \A q \in PageIds : flushed[q] \subseteq flushed'[q]
      /\ \A q \in PageIds : flushed'[q] # {} => flushed[q] # {}
      /\ written' = written
  BY <1>1, <1>2, <1>3, ReplyKeepsHistory DEF Failed
<1>5. /\ disk_header' = disk_header
      /\ header'.first_free_page = FREE_LIST_END
      /\ header'.num_pages \in 0 .. MaxPages
      /\ header.num_pages <= header'.num_pages
  <2>1. disk_header' = disk_header
    BY <1>1 DEF PageWriteFails, HeaderWriteFails, SetLenFails, ReadFails, HalfWrittenHeader,
                NoFreePages, TypeOK, Headers
  <2>2. header'.num_pages \in 0 .. MaxPages
    BY DEF TypeOK, Headers
  <2>3. header' = header \/ header' = [header EXCEPT !.num_pages = @ + 1]
    BY DEF PageWriteFails, HeaderWriteFails, SetLenFails, ReadFails, memory
  <2>4. header \in Headers
    BY DEF TypeOK
  <2>5. header'.first_free_page = FREE_LIST_END /\ header.num_pages <= header'.num_pages
    BY <1>1, <2>3, <2>4 DEF NoFreePages, Headers
  <2> QED BY <2>1, <2>2, <2>5
<1>6. \/ disk_pages' = Flushed /\ ~loaded_page_dirty'
      \/ /\ loaded_page_id # NoPage /\ loaded_page_dirty /\ disk_pages' \in HalfFlushed
         /\ UNCHANGED <<loaded_page, loaded_page_dirty>>
  BY DEF PageWriteFails, HeaderWriteFails, SetLenFails, ReadFails, memory
<1>7. FlushedPagesSurvive'
  <2>1. disk_header.num_pages <= disk_header'.num_pages
    BY <1>5 DEF TypeOK, Headers
  <2>2. \A q \in PageIds : flushed[q] # {} => q < disk_len'
    BY <1>1, <1>2 DEF FlushedPagesSurvive
  <2>3. \A q \in PageIds : flushed[q] # {} =>
          disk_pages'[q] \in {disk_pages[q], Flushed[q]} \/ Good(disk_pages'[q], q)
    BY <1>1, <1>6, HalfIsGood
  <2> QED BY <1>1, <1>4, <2>1, <2>2, <2>3, StepKeepsFlushed
<1>8. WrittenKept'
  <2> SUFFICES ASSUME NEW q \in PageIds, written'[q] # NoData
               PROVE  /\ q < header'.num_pages /\ q < disk_len'
                      /\ ~header_dirty' => q < disk_header'.num_pages
                      /\ Kept(q)'
    BY DEF WrittenKept
  <2>1. /\ written[q] # NoData /\ q < header.num_pages /\ q < disk_len
        /\ ~header_dirty => q < disk_header.num_pages
        /\ Kept(q)
    BY <1>1, <1>4 DEF WrittenKept
  <2>2. q < header'.num_pages
    BY <1>5, <2>1, BoundAssumption DEF TypeOK, Headers, PageIds
  <2>3. Flushed[q] = UsedPage(written[q])
    BY <1>1, <2>1, FlushedKeepsWritten
  <2>4. Kept(q)'
    <3>1. CASE disk_pages' = Flushed /\ ~loaded_page_dirty'
      BY <1>4, <2>3, <3>1 DEF Kept
    <3>2. CASE /\ loaded_page_id # NoPage /\ loaded_page_dirty /\ disk_pages' \in HalfFlushed
               /\ UNCHANGED <<loaded_page, loaded_page_dirty>>
      <4>1. q # loaded_page_id => disk_pages'[q] = disk_pages[q]
        BY <1>1, <3>2, HalfIsGood
      <4> QED BY <1>2, <1>4, <2>1, <3>2, <4>1 DEF Kept
    <3> QED BY <1>6, <3>1, <3>2
  <2> QED BY <1>2, <1>5, <2>1, <2>2, <2>4
<1>9. HeaderAhead' /\ NoFreePages'
  BY <1>1, <1>5 DEF HeaderAhead, NoFreePages, TypeOK, Headers
<1> QED BY <1>4, <1>7, <1>8, <1>9 DEF DurabilityInv, OpenInv

-----------------------------------------------------------------------------
(* The invariant is inductive: with an empty free list no page is handed    *)
(* out twice, and every other call has its lemma above.                     *)
LEMMA DurabilityStep ==
  ASSUME ~ClientDisposes
  PROVE  TypeOK /\ DurabilityInv /\ [Next]_vars => DurabilityInv'
<1> SUFFICES ASSUME TypeOK, DurabilityInv, [Next]_vars PROVE DurabilityInv'
  OBVIOUS
<1>0. TypeOK'
  BY TypeStep
<1>1. ASSUME NEW d \in Data PROVE ~AllocateReuse(d)
  BY DEF AllocateReuse, DurabilityInv, NoFreePages
<1>2. ASSUME NEW d \in Data, AllocateGrow(d) PROVE DurabilityInv'
  BY <1>0, <1>2, GrowKeepsDurability
<1>3. ASSUME NEW p \in PageIds, ReadPage(p) PROVE DurabilityInv'
  <2> DEFINE d == IF IsUsed(p) THEN Loaded(p).data ELSE NoData
  <2>1. Loaded(p) \in Pages /\ d \in Data \cup {NoData}
    BY LoadedType DEF Pages
  <2>2. /\ IsOpen /\ LoadAndSet(p, Loaded(p), FALSE) /\ Reply("read", p, d)
        /\ UNCHANGED <<header, header_dirty>>
    BY <1>3 DEF ReadPage
  <2> HIDE DEF d
  <2> QED BY <1>0, <2>1, <2>2, LoadKeepsDurability
<1>4. ASSUME NEW p \in PageIds, NEW d \in Data, WritePage(p, d) PROVE DurabilityInv'
  <2>1. UsedPage(d) \in Pages /\ d # NoData
    BY DataFacts, LinksAreIds DEF Pages, UsedPage
  <2>2. /\ IsOpen /\ LoadAndSet(p, UsedPage(d), TRUE) /\ Reply("write", p, d)
        /\ UNCHANGED <<header, header_dirty>>
    BY <1>4 DEF WritePage, UsedPage
  <2> QED BY <1>0, <2>1, <2>2, LoadKeepsDurability
<1>5. ASSUME NEW p \in PageIds, NEW call \in {"write", "dispose"}, Refused(p, call)
      PROVE  DurabilityInv'
  <2>1. Loaded(p) \in Pages
    BY LoadedType
  <2>2. /\ IsOpen /\ LoadAndSet(p, Loaded(p), FALSE) /\ Reply(call, p, NoData)
        /\ UNCHANGED <<header, header_dirty>>
    BY <1>5 DEF Refused
  <2> QED BY <1>0, <2>1, <2>2, LoadKeepsDurability
<1>6. ASSUME NEW p \in PageIds, NEW call \in {"read", "write", "dispose"}, OutOfRange(p, call)
      PROVE  DurabilityInv'
  <2>1. WrittenKept /\ FlushedWritten /\ HeaderAhead /\ FlushedPagesSurvive /\ NoFreePages
    BY <1>6 DEF DurabilityInv, OpenInv, OutOfRange, IsOpen
  <2>2. Reply(call, p, NoData) /\ UNCHANGED <<memory, disk>>
    BY <1>6 DEF OutOfRange
  <2>3. /\ FlushedWritten' /\ written' = written
        /\ \A q \in PageIds : flushed[q] \subseteq flushed'[q]
        /\ \A q \in PageIds : flushed'[q] # {} => flushed[q] # {}
    BY <2>1, <2>2, ReplyKeepsHistory
  <2>4. FlushedPagesSurvive'
    BY <2>1, <2>2, <2>3, MixOfMore DEF FlushedPagesSurvive, disk
  <2>5. WrittenKept' /\ HeaderAhead' /\ NoFreePages'
    BY <2>1, <2>2, <2>3 DEF WrittenKept, Kept, HeaderAhead, NoFreePages, memory, disk
  <2> QED BY <2>3, <2>4, <2>5 DEF DurabilityInv, OpenInv
<1>7. ASSUME NEW p \in PageIds, ReadFails(p) PROVE DurabilityInv'
  BY <1>0, <1>7, FailuresKeepDurability
<1>8. CASE PageWriteFails \/ HeaderWriteFails \/ SetLenFails
  BY <1>0, <1>8, FailuresKeepDurability
<1>9. CASE Flush
  BY <1>0, <1>9, FlushKeepsDurability
<1>10. CASE Reopen \/ DropFails \/ Crash
  BY <1>0, <1>10, ReopenKeepsDurability
<1>11. CASE UNCHANGED vars
  BY <1>11 DEF vars, memory, disk, history, DurabilityInv, OpenInv, FlushedPagesSurvive,
     WrittenKept, Kept, FlushedWritten, HeaderAhead, NoFreePages
<1>12. ASSUME NEW p \in PageIds PROVE ~DisposePage(p)
  BY DEF DisposePage
<1> QED
  BY <1>1, <1>2, <1>3, <1>4, <1>5, <1>6, <1>7, <1>8, <1>9, <1>10, <1>11, <1>12 DEF Next

(* What PageFile::flush has written survives every later failed or torn     *)
(* write, failed read, failed drop and kill, for a client that disposes no  *)
(* page, which is what RecordFile is: the file on disk holds every page     *)
(* that was in use when the flush returned, and no byte of it is other than *)
(* one the page had then or was given later.                                *)
THEOREM FlushedPagesStay ==
  ASSUME ~ClientDisposes
  PROVE  Spec => []FlushedPagesSurvive
<1>1. Init => DurabilityInv
  BY DEF Init, DurabilityInv, OpenInv, FlushedPagesSurvive, WrittenKept, FlushedWritten,
     NoFreePages, HeaderAhead
<1>2. TypeOK /\ DurabilityInv /\ [Next]_vars => DurabilityInv'
  BY DurabilityStep
<1>3. DurabilityInv => FlushedPagesSurvive
  BY DEF DurabilityInv
<1> QED BY <1>1, <1>2, <1>3, TypeInit, TypeStep, PTL DEF Spec
=============================================================================
