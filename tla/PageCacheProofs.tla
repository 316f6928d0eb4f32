-------------------------- MODULE PageCacheProofs --------------------------
(***************************************************************************)
(* The buffer pool implements PageCache for any number of threads, frames, *)
(* files and pages, if no thread forces what others have pinned for        *)
(* writing (ForcesPinned = FALSE): the threads cannot tell the pool from   *)
(* the page files, whatever it loads, evicts, writes back and fails at.    *)
(***************************************************************************)
EXTENDS BufferPoolProofs

-----------------------------------------------------------------------------
(* What the pool relies on to recycle a clean frame without a write-back.  *)

WritersAreDirty ==
  \A t \in Threads : guard[t].mode = "write" => dirty[guard[t].frame]

WritersHaveWriteGuards ==
  \A t \in Threads : lock[t] = "write" => guard[t].mode = "write"

\* No frame that a call has still to see is pinned for writing.
CallAvoidsWriters ==
  \A t \in Threads : guard[t].mode = "write" => guard[t].frame \notin call.todo

CacheInv ==
  /\ PoolInv
  /\ CleanIsStored
  /\ WritersAreDirty
  /\ WritersHaveWriteGuards
  /\ CallAvoidsWriters

(* The content of a page, by cases. *)
LEMMA ContentAt ==
  /\ content = [k \in Keys |-> content[k]]
  /\ \A k \in Keys : content[k] =
       IF page_table[k] # NoFrame THEN data[page_table[k]]
       ELSE IF FileOf(k) \in files THEN store[k] ELSE NoData
  /\ content' = [k \in Keys |-> content'[k]]
  /\ \A k \in Keys : content'[k] =
       IF page_table'[k] # NoFrame THEN data'[page_table'[k]]
       ELSE IF FileOf(k) \in files' THEN store'[k] ELSE NoData
<1>1. \A k \in Keys : content[k] =
       IF page_table[k] # NoFrame THEN data[page_table[k]]
       ELSE IF FileOf(k) \in files THEN store[k] ELSE NoData
  BY DEF content
<1>2. \A k \in Keys : content'[k] =
       IF page_table'[k] # NoFrame THEN data'[page_table'[k]]
       ELSE IF FileOf(k) \in files' THEN store'[k] ELSE NoData
  BY DEF content
<1>3. content = [k \in Keys |-> content[k]] /\ content' = [k \in Keys |-> content'[k]]
  BY DEF content
<1> QED BY <1>1, <1>2, <1>3

LEMMA SameContent ==
  ASSUME \A k \in Keys : content'[k] = content[k]
  PROVE  content' = content
BY ContentAt

(* What a guard pins it for. *)
LEMMA Modes ==
  ASSUME PoolInv, NEW t \in Threads
  PROVE  /\ guard[t].mode = "write" => guard[t] # NoGuard
         /\ NoGuard.mode # "write"
         /\ Idle.todo = {}
BY DEF NoGuard, Idle

(* The data of a page in a frame is what its file has after a write-back. *)
LEMMA WrittenBack ==
  ASSUME PoolInv, CleanIsStored, NEW f \in Frames
  PROVE  /\ \A k \in Keys : Flushed({f})[k] = IF key[f] = k THEN data[f] ELSE store[k]
         /\ \A k \in Keys : key[f] = k => page_table[k] = f /\ FileOf(k) \in files
<1>1. TypeOK /\ PageTableInverse
  BY DEF PoolInv
<1>2. \A k \in Keys : key[f] = k => /\ k # NoKey /\ page_table[k] = f /\ FileOf(k) \in files
  BY <1>1, GuardFacts, TableFacts
<1>3. \A k \in Keys : key[f] = k => Flushed({f})[k] = data[f]
  BY <1>1, <1>2, FlushedKeeps DEF CleanIsStored
<1> QED BY <1>1, <1>2, <1>3, FlushedKeeps

(* Writing a frame back and emptying it or not does not change the contents. *)
LEMMA RecycledContent ==
  ASSUME PoolInv, CleanIsStored, NEW f \in Frames,
         store' = Flushed({f}), UNCHANGED <<data, files>>,
         page_table' = TableWithout({f}) \/ page_table' = page_table
  PROVE  content' = content
<1>1. TypeOK /\ PageTableInverse
  BY DEF PoolInv
<1> SUFFICES ASSUME NEW k \in Keys
             PROVE  content'[k] = content[k]
  BY SameContent
<1>2. page_table[k] # NoFrame => page_table[k] \in Frames /\ key[page_table[k]] = k
  BY <1>1, TableFacts
<1>3. key[f] = k => page_table[k] = f /\ FileOf(k) \in files
  BY WrittenBack
<1>4. store'[k] = IF key[f] = k THEN data[f] ELSE store[k]
  BY WrittenBack
<1>5. NoFrame \notin Frames
  BY <1>1, GuardFacts
<1>6. CASE page_table' = page_table
  BY <1>2, <1>3, <1>4, <1>5, <1>6, ContentAt
<1>7. CASE page_table' = TableWithout({f})
  <2>1. page_table'[k] = IF page_table[k] = f THEN NoFrame ELSE page_table[k]
    BY <1>7 DEF TableWithout
  <2> QED BY <1>2, <1>3, <1>4, <1>5, <2>1, ContentAt
<1> QED BY <1>6, <1>7

-----------------------------------------------------------------------------
(* The steps of PageCache, in terms of what the pool shows of itself.      *)

shown == [t \in Threads |->
            IF guard[t] = NoGuard THEN <<>> ELSE <<guard[t].key, guard[t].mode>>]

CacheStep == [Cache!Next]_(Cache!cacheVars)

LEMMA Stutter ==
  ASSUME content' = content, shown' = shown, seen' = seen
  PROVE  CacheStep
BY DEF CacheStep, Cache!cacheVars, shown

LEMMA PinStep ==
  ASSUME NEW t \in Threads, NEW k \in Keys, NEW mode \in {"read", "write"},
         shown[t] = <<>>, content[k] # NoData,
         shown' = [shown EXCEPT ![t] = <<k, mode>>], content' = content, seen' = seen
  PROVE  CacheStep
<1>1. Cache!Pin(t, k, mode)
  BY DEF Cache!Pin, shown
<1> QED BY <1>1 DEF CacheStep, Cache!Next

LEMMA AllocateStep ==
  ASSUME NEW t \in Threads, NEW k \in Keys,
         shown[t] = <<>>, content[k] = NoData,
         shown' = [shown EXCEPT ![t] = <<k, "write">>],
         content' = [content EXCEPT ![k] = ZeroData], seen' = seen
  PROVE  CacheStep
<1>1. Cache!Allocate(t, k)
  BY DEF Cache!Allocate, shown
<1> QED BY <1>1 DEF CacheStep, Cache!Next

LEMMA UnpinStep ==
  ASSUME NEW t \in Threads, shown[t] # <<>>,
         shown' = [shown EXCEPT ![t] = <<>>], seen' = [seen EXCEPT ![t] = NoData],
         content' = content
  PROVE  CacheStep
<1>1. Cache!Unpin(t)
  BY DEF Cache!Unpin, shown
<1> QED BY <1>1 DEF CacheStep, Cache!Next

LEMMA ReadStep ==
  ASSUME NEW t \in Threads, shown[t] # <<>>,
         seen' = [seen EXCEPT ![t] = content[shown[t][1]]],
         content' = content, shown' = shown
  PROVE  CacheStep
<1>1. Cache!Read(t)
  BY DEF Cache!Read, shown
<1> QED BY <1>1 DEF CacheStep, Cache!Next

LEMMA WriteStep ==
  ASSUME NEW t \in Threads, NEW d \in Data, shown[t] # <<>>, shown[t][2] = "write",
         content' = [content EXCEPT ![shown[t][1]] = d], shown' = shown, seen' = seen
  PROVE  CacheStep
<1>1. Cache!Write(t, d)
  BY DEF Cache!Write, shown
<1> QED BY <1>1 DEF CacheStep, Cache!Next

LEMMA RegisterStep ==
  ASSUME NEW id \in FileIds, NEW ks \in SUBSET Keys,
         \A k \in ks : FileOf(k) = id /\ content[k] = NoData,
         content' = [k \in Keys |-> IF k \in ks THEN ZeroData ELSE content[k]],
         shown' = shown, seen' = seen
  PROVE  CacheStep
<1>1. Cache!Register(id, ks)
  BY DEF Cache!Register, shown
<1>2. id \in {FileOf(k) : k \in Keys}
  <2>1. <<id, 0>> \in Keys /\ FileOf(<<id, 0>>) = id
    BY PoolAssumption DEF Keys, PageIds, FileOf
  <2> QED BY <2>1
<1> QED BY <1>1, <1>2 DEF CacheStep, Cache!Next

LEMMA RemoveStep ==
  ASSUME NEW id \in FileIds,
         \A t \in Threads : shown[t] # <<>> => FileOf(shown[t][1]) # id,
         content' = [k \in Keys |-> IF FileOf(k) = id THEN NoData ELSE content[k]],
         shown' = shown, seen' = seen
  PROVE  CacheStep
<1>1. Cache!Remove(id)
  BY DEF Cache!Remove, shown
<1>2. id \in {FileOf(k) : k \in Keys}
  <2>1. <<id, 0>> \in Keys /\ FileOf(<<id, 0>>) = id
    BY PoolAssumption DEF Keys, PageIds, FileOf
  <2> QED BY <2>1
<1> QED BY <1>1, <1>2 DEF CacheStep, Cache!Next

(* What is shown of a guard. *)
LEMMA ShownAt ==
  ASSUME NEW t \in Threads
  PROVE  /\ guard[t] = NoGuard => shown[t] = <<>>
         /\ guard[t] # NoGuard => /\ shown[t] = <<guard[t].key, guard[t].mode>>
                                  /\ shown[t] # <<>>
                                  /\ shown[t][1] = guard[t].key /\ shown[t][2] = guard[t].mode
         /\ guard' = guard => shown' = shown
BY DEF shown

LEMMA GuardShown ==
  ASSUME TypeOK, NEW t \in Threads, NEW x, x # NoGuard, guard' = [guard EXCEPT ![t] = x]
  PROVE  shown' = [shown EXCEPT ![t] = <<x.key, x.mode>>]
BY DEF shown, TypeOK

LEMMA GuardNotShown ==
  ASSUME TypeOK, NEW t \in Threads, guard' = [guard EXCEPT ![t] = NoGuard]
  PROVE  shown' = [shown EXCEPT ![t] = <<>>]
BY DEF shown, TypeOK

-----------------------------------------------------------------------------
(* Every action of the pool keeps CacheInv and is a step of PageCache or   *)
(* none that its threads notice.                                           *)

LEMMA InitCache == Init => CacheInv /\ Cache!Init
<1> SUFFICES ASSUME Init PROVE CacheInv /\ Cache!Init
  OBVIOUS
<1>1. PoolInv
  BY InitPool
<1>2. /\ CleanIsStored /\ WritersAreDirty /\ WritersHaveWriteGuards /\ CallAvoidsWriters
  BY DEF Init, CleanIsStored, WritersAreDirty, WritersHaveWriteGuards, CallAvoidsWriters,
         NoGuard, Idle
<1>3. content = [k \in Keys |-> NoData]
  BY ContentAt DEF Init
<1>4. shown = [t \in Threads |-> <<>>]
  BY DEF Init, shown
<1> QED BY <1>1, <1>2, <1>3, <1>4 DEF CacheInv, Cache!Init, Init, shown

\* A call puts the page k with the content d into a frame and guards it for t;
\* and what that makes of the state.
Installs(t, k, mode, d) ==
  /\ call = Idle /\ guard[t] = NoGuard /\ page_table[k] = NoFrame
  /\ InstallFor(t, k, mode, d)
  /\ UNCHANGED <<registry, call, lock, uses, seen>>
  /\ \A j \in Keys : j # k => store'[j] = Flushed({AcquiredFrame})[j]
  /\ mode = "read" => store'[k] = d

Installed(t, k, mode, d) ==
  /\ CleanIsStored' /\ WritersAreDirty' /\ WritersHaveWriteGuards' /\ CallAvoidsWriters'
  /\ \A j \in Keys : content'[j] = IF j = k THEN d ELSE content[j]
  /\ shown[t] = <<>> /\ shown' = [shown EXCEPT ![t] = <<k, mode>>]

(* The pages that are not in the frame f stay what they are. *)
LEMMA InstallIsStep ==
  ASSUME CacheInv, NEW t \in Threads, NEW k \in Keys, NEW mode \in {"read", "write"},
         NEW d \in Data, Installs(t, k, mode, d)
  PROVE  Installed(t, k, mode, d)
<1> USE DEF Installs
<1> DEFINE f == AcquiredFrame
           x == [frame |-> f, key |-> k, mode |-> mode]
<1>1. /\ PoolInv /\ TypeOK /\ PageTableInverse /\ PinsMatchGuards
      /\ CleanIsStored /\ WritersAreDirty /\ WritersHaveWriteGuards
  BY DEF CacheInv, PoolInv
<1>2. f \in Frames /\ pin_count[f] = 0
  BY <1>1, Acquired DEF PoolInv, InstallFor
<1>3. /\ page_table' = [TableWithout({f}) EXCEPT ![k] = f]
      /\ key' = [key EXCEPT ![f] = k]
      /\ data' = [data EXCEPT ![f] = d]
      /\ dirty' = [dirty EXCEPT ![f] = (mode = "write")]
      /\ guard' = [guard EXCEPT ![t] = x]
  BY DEF InstallFor
<1>4. x \in Guards /\ x # NoGuard /\ x.frame = f /\ x.key = k /\ x.mode = mode
  BY <1>1, <1>2, GuardFacts DEF Guards
<1>5. NoFrame \notin Frames /\ NoKey \notin Keys
  BY <1>1, GuardFacts
<1> HIDE DEF f, x
<1>6. \A j \in Keys : page_table'[j] = IF j = k THEN f
                                       ELSE IF page_table[j] = f THEN NoFrame ELSE page_table[j]
  BY <1>3 DEF TableWithout
<1>7. \A g \in Frames : /\ key'[g] = IF g = f THEN k ELSE key[g]
                        /\ data'[g] = IF g = f THEN d ELSE data[g]
                        /\ dirty'[g] = IF g = f THEN mode = "write" ELSE dirty[g]
  BY <1>1, <1>3 DEF TypeOK
<1>8. \A j \in Keys : j # k => store'[j] = IF key[f] = j THEN data[f] ELSE store[j]
  BY <1>1, <1>2, WrittenBack DEF f
<1>9. \A j \in Keys : key[f] = j => page_table[j] = f /\ FileOf(j) \in files
  BY <1>1, <1>2, WrittenBack
<1>10. CleanIsStored'
  <2> SUFFICES ASSUME NEW g \in Frames, key'[g] # NoKey, ~dirty'[g]
               PROVE  data'[g] = store'[key'[g]]
    BY DEF CleanIsStored
  <2>1. CASE g = f
    BY <1>7, <2>1
  <2>2. CASE g # f
    <3>1. /\ key'[g] = key[g] /\ key[g] # NoKey /\ ~dirty[g] /\ data'[g] = data[g]
      BY <1>7, <2>2
    <3>2. key[g] \in Keys /\ page_table[key[g]] = g
      BY <1>1, <3>1, TableFacts
    <3>3. key[g] # k /\ key[g] # key[f]
      BY <1>5, <1>9, <2>2, <3>2
    <3>4. store'[key[g]] = store[key[g]]
      BY <1>8, <3>2, <3>3
    <3> QED BY <1>1, <3>1, <3>4 DEF CleanIsStored
  <2> QED BY <2>1, <2>2
<1>11. \A u \in Threads : guard'[u] = IF u = t THEN x ELSE guard[u]
  BY <1>1, <1>3 DEF TypeOK
<1>12. WritersAreDirty'
  <2> SUFFICES ASSUME NEW u \in Threads, guard'[u].mode = "write"
               PROVE  dirty'[guard'[u].frame]
    BY DEF WritersAreDirty
  <2>1. CASE u = t
    BY <1>2, <1>4, <1>7, <1>11, <2>1
  <2>2. CASE u # t
    <3>1. guard'[u] = guard[u] /\ guard[u].frame # f
      BY <1>1, <1>2, <1>11, <2>2, NoHolder
    <3>2. guard[u].frame \in Frames
      BY <1>1, <3>1, Modes, GuardedPage
    <3> QED BY <1>1, <1>7, <3>1, <3>2 DEF WritersAreDirty
  <2> QED BY <2>1, <2>2
<1>13. WritersHaveWriteGuards'
  <2>1. lock[t] # "write"
    BY <1>1, Modes DEF WritersHaveWriteGuards
  <2> QED BY <1>1, <1>11, <2>1 DEF WritersHaveWriteGuards
<1>14. CallAvoidsWriters'
  BY <1>1, Modes DEF CallAvoidsWriters
<1>15. ASSUME NEW j \in Keys
       PROVE  content'[j] = IF j = k THEN d ELSE content[j]
  <2>1. page_table[j] # NoFrame => page_table[j] \in Frames /\ key[page_table[j]] = j
    BY <1>1, TableFacts
  <2>2. files' = files
    BY DEF registry
  <2>3. CASE j = k
    BY <1>2, <1>5, <1>6, <1>7, <2>3, ContentAt
  <2>4. CASE j # k /\ page_table[j] = f
    <3>1. page_table'[j] = NoFrame /\ FileOf(j) \in files' /\ store'[j] = data[f]
      BY <1>2, <1>5, <1>6, <1>8, <1>9, <2>1, <2>2, <2>4
    <3> QED BY <1>2, <1>5, <2>4, <3>1, ContentAt
  <2>5. CASE j # k /\ page_table[j] = NoFrame
    <3>1. page_table'[j] = NoFrame /\ store'[j] = store[j]
      BY <1>2, <1>5, <1>6, <1>8, <1>9, <2>5
    <3> QED BY <2>2, <2>5, <3>1, ContentAt
  <2>6. CASE j # k /\ page_table[j] # f /\ page_table[j] # NoFrame
    <3>1. page_table'[j] = page_table[j] /\ data'[page_table[j]] = data[page_table[j]]
      BY <1>6, <1>7, <2>1, <2>6
    <3> QED BY <2>6, <3>1, ContentAt
  <2> QED BY <2>3, <2>4, <2>5, <2>6
<1>16. shown[t] = <<>> /\ shown' = [shown EXCEPT ![t] = <<k, mode>>]
  BY <1>1, <1>3, <1>4, ShownAt, GuardShown
<1> QED BY <1>10, <1>12, <1>13, <1>14, <1>15, <1>16 DEF Installed

LEMMA LoadPageIsStep ==
  ASSUME CacheInv, NEW t \in Threads, NEW k \in Keys, NEW mode \in {"read", "write"},
         LoadPage(t, k, mode)
  PROVE  CacheInv' /\ CacheStep
<1>1. /\ PoolInv /\ TypeOK /\ PageTableInverse /\ CleanIsStored /\ call = Idle
      /\ guard[t] = NoGuard /\ page_table[k] = NoFrame /\ FileOf(k) \in files
      /\ store[k] # NoData
      /\ UNCHANGED <<registry, call, lock, uses, seen>>
      /\ store' = Flushed({AcquiredFrame})
      /\ InstallFor(t, k, mode, store[k])
  BY DEF CacheInv, PoolInv, LoadPage, MutexFree
<1>2. store[k] \in Data
  BY <1>1 DEF TypeOK
<1>3. AcquiredFrame \in Frames
  BY <1>1, Acquired DEF PoolInv, InstallFor
<1>4. store'[k] = store[k]
  <2>1. key[AcquiredFrame] # k
    BY <1>1, <1>3, WrittenBack, GuardFacts
  <2> QED BY <1>1, <1>3, <2>1, WrittenBack
<1>5. /\ CleanIsStored' /\ WritersAreDirty' /\ WritersHaveWriteGuards' /\ CallAvoidsWriters'
      /\ \A j \in Keys : content'[j] = IF j = k THEN store[k] ELSE content[j]
      /\ shown[t] = <<>> /\ shown' = [shown EXCEPT ![t] = <<k, mode>>]
  <2> DEFINE d == store[k]
  <2>1. InstallFor(t, k, mode, d) /\ d \in Data /\ (mode = "read" => store'[k] = d)
    BY <1>1, <1>2, <1>4
  <2>2. \A j \in Keys : j # k => store'[j] = Flushed({AcquiredFrame})[j]
    BY <1>1
  <2> HIDE DEF d
  <2>3. /\ call = Idle /\ guard[t] = NoGuard /\ page_table[k] = NoFrame
        /\ UNCHANGED <<registry, call, lock, uses, seen>>
    BY <1>1
  <2>4. /\ CleanIsStored' /\ WritersAreDirty' /\ WritersHaveWriteGuards' /\ CallAvoidsWriters'
        /\ \A j \in Keys : content'[j] = IF j = k THEN d ELSE content[j]
        /\ shown[t] = <<>> /\ shown' = [shown EXCEPT ![t] = <<k, mode>>]
    <3>1. Installs(t, k, mode, d)
      BY <2>1, <2>2, <2>3 DEF Installs
    <3>2. Installed(t, k, mode, d)
      BY <2>1, <3>1, InstallIsStep
    <3> QED BY <3>2 DEF Installed
  <2> QED BY <2>4 DEF d
<1>6. content[k] = store[k]
  BY <1>1, ContentAt
<1>7. content' = content
  BY <1>5, <1>6, SameContent
<1>8. CacheStep
  BY <1>1, <1>5, <1>6, <1>7, PinStep
<1> QED BY <1>1, <1>5, <1>8, LoadPageKeeps DEF CacheInv

LEMMA AllocatePageIsStep ==
  ASSUME CacheInv, NEW t \in Threads, NEW id \in FileIds, AllocatePage(t, id)
  PROVE  CacheInv' /\ CacheStep
<1> DEFINE n == Cardinality({p \in PageIds : store[<<id, p>>] # NoData})
           k == <<id, n>>
           mid == Flushed({AcquiredFrame})
<1>1. /\ PoolInv /\ TypeOK /\ PageTableInverse /\ PagesContiguous /\ CleanIsStored /\ call = Idle
      /\ guard[t] = NoGuard /\ k \in Keys
      /\ UNCHANGED <<registry, call, lock, uses, seen>>
      /\ store' = [mid EXCEPT ![k] = ZeroData]
      /\ InstallFor(t, k, "write", ZeroData)
  BY DEF CacheInv, PoolInv, AllocatePage, MutexFree
<1>2. n \in PageIds
  BY <1>1 DEF Keys
<1>3. store[k] = NoData
  <2>1. \A p \in PageIds : store[<<id, p>>] # NoData <=> p < n
    BY <1>1, <1>2, PageBehindLast
  <2> HIDE DEF n
  <2> QED BY <1>2, <2>1 DEF PageIds
<1> HIDE DEF n, k
<1>4. page_table[k] = NoFrame
  BY <1>1, <1>3, GuardFacts, TableFacts
<1>5. mid \in [Keys -> Data \cup {NoData}]
  <2>1. AcquiredFrame \in Frames
    BY <1>1, Acquired DEF PoolInv, InstallFor
  <2> QED BY <1>1, <2>1, FlushedKeeps
<1>6. ZeroData \in Data
  BY PoolAssumption
<1>7. \A j \in Keys : j # k => store'[j] = mid[j]
  <2> HIDE DEF mid
  <2> QED BY <1>1, <1>5
<1>8. /\ CleanIsStored' /\ WritersAreDirty' /\ WritersHaveWriteGuards' /\ CallAvoidsWriters'
      /\ \A j \in Keys : content'[j] = IF j = k THEN ZeroData ELSE content[j]
      /\ shown[t] = <<>> /\ shown' = [shown EXCEPT ![t] = <<k, "write">>]
  <2> HIDE DEF mid
  <2>1. Installs(t, k, "write", ZeroData)
    <3>1. \A j \in Keys : j # k => store'[j] = Flushed({AcquiredFrame})[j]
      BY <1>7 DEF mid
    <3> QED BY <1>1, <1>4, <3>1 DEF Installs
  <2>2. Installed(t, k, "write", ZeroData)
    BY <1>1, <1>6, <2>1, InstallIsStep
  <2> QED BY <2>2 DEF Installed
<1>9. content[k] = NoData
  BY <1>1, <1>3, <1>4, ContentAt
<1>10. content' = [content EXCEPT ![k] = ZeroData]
  BY <1>8, ContentAt
<1>11. CacheStep
  BY <1>1, <1>8, <1>9, <1>10, AllocateStep
<1> QED BY <1>1, <1>8, <1>11, AllocatePageKeeps DEF CacheInv

LEMMA GetCachedPageIsStep ==
  ASSUME CacheInv, NEW t \in Threads, NEW k \in Keys, NEW mode \in {"read", "write"},
         GetCachedPage(t, k, mode)
  PROVE  CacheInv' /\ CacheStep
<1> DEFINE f == page_table[k]
           x == [frame |-> f, key |-> k, mode |-> mode]
<1>1. /\ PoolInv /\ TypeOK /\ PageTableInverse /\ CleanIsStored /\ WritersAreDirty
      /\ WritersHaveWriteGuards /\ call = Idle /\ guard[t] = NoGuard /\ f # NoFrame
      /\ UNCHANGED <<registry, store, page_table, key, data, free_list, call, lock, uses, seen>>
      /\ guard' = [guard EXCEPT ![t] = x]
      /\ dirty' = [dirty EXCEPT ![f] = dirty[f] \/ mode = "write"]
  BY DEF CacheInv, PoolInv, GetCachedPage, MutexFree
<1>2. f \in Frames /\ NoData \notin Data
  BY <1>1, TableFacts, PoolAssumption
<1>3. x \in Guards /\ x # NoGuard /\ x.frame = f /\ x.key = k /\ x.mode = mode
  BY <1>1, <1>2, GuardFacts DEF Guards
<1>4. content[k] # NoData
  BY <1>1, <1>2, ContentAt DEF TypeOK
<1>5. \A j \in Keys : content'[j] = content[j]
  BY <1>1, ContentAt DEF registry
<1>6. content' = content
  BY <1>5, SameContent
<1> HIDE DEF f, x
<1>7. \A g \in Frames : dirty'[g] = (dirty[g] \/ (g = f /\ mode = "write"))
  BY <1>1 DEF TypeOK
<1>8. \A u \in Threads : guard'[u] = IF u = t THEN x ELSE guard[u]
  BY <1>1 DEF TypeOK
<1>9. CleanIsStored'
  BY <1>1, <1>7 DEF CleanIsStored
<1>10. WritersAreDirty'
  <2> SUFFICES ASSUME NEW u \in Threads, guard'[u].mode = "write"
               PROVE  dirty'[guard'[u].frame]
    BY DEF WritersAreDirty
  <2>1. CASE u = t
    BY <1>2, <1>3, <1>7, <1>8, <2>1
  <2>2. CASE u # t
    <3>1. guard'[u] = guard[u] /\ guard[u].mode = "write"
      BY <1>8, <2>2
    <3>2. guard[u].frame \in Frames /\ dirty[guard[u].frame]
      BY <1>1, <3>1, Modes, GuardedPage DEF WritersAreDirty
    <3> QED BY <1>7, <3>1, <3>2
  <2> QED BY <2>1, <2>2
<1>11. WritersHaveWriteGuards'
  <2>1. lock[t] # "write"
    BY <1>1, Modes DEF WritersHaveWriteGuards
  <2> QED BY <1>1, <1>8, <2>1 DEF WritersHaveWriteGuards
<1>12. CallAvoidsWriters'
  BY <1>1, Modes DEF CallAvoidsWriters
<1>13. shown[t] = <<>> /\ shown' = [shown EXCEPT ![t] = <<k, mode>>]
  BY <1>1, <1>3, ShownAt, GuardShown
<1>14. CacheStep
  BY <1>1, <1>4, <1>6, <1>13, PinStep
<1> QED BY <1>1, <1>9, <1>10, <1>11, <1>12, <1>14, GetCachedPageKeeps DEF CacheInv

LEMMA RegisterFileIsStep ==
  ASSUME CacheInv, NEW n \in 0 .. MaxPages, RegisterFile(n)
  PROVE  CacheInv' /\ CacheStep
<1> DEFINE new == next_file_id
           ks == {k \in Keys : k[1] = new /\ k[2] < n}
<1>1. /\ PoolInv /\ TypeOK /\ PageTableInverse /\ PagesContiguous /\ CleanIsStored
      /\ new \in FileIds /\ files' = files \cup {new}
      /\ store' = [k \in Keys |-> IF k[1] = new /\ k[2] < n THEN ZeroData ELSE store[k]]
      /\ UNCHANGED <<pool, call, clients>>
  BY PoolAssumption DEF CacheInv, PoolInv, RegisterFile, TypeOK, FileIds
<1>2. UNCHANGED <<page_table, key, data, dirty, guard, lock, seen, call>>
  BY <1>1 DEF pool, clients
<1>3. new \notin files /\ \A k \in Keys : k[1] = new => store[k] = NoData
  BY <1>1 DEF PagesContiguous, FileIds
<1>4. \A k \in Keys : k[1] = new => page_table[k] = NoFrame
  BY <1>1, <1>3, TableFacts, GuardFacts
<1>5. \A k \in Keys : k[1] # new => store'[k] = store[k]
  BY <1>1
<1>6. CleanIsStored'
  <2>1. ASSUME NEW f \in Frames, key[f] # NoKey
        PROVE  key[f] \in Keys /\ store'[key[f]] = store[key[f]]
    <3>1. key[f] \in Keys /\ store[key[f]] # NoData
      BY <1>1, <2>1, TableFacts
    <3> QED BY <1>3, <1>5, <3>1
  <2> QED BY <1>1, <1>2, <2>1 DEF CleanIsStored
<1>7. WritersAreDirty' /\ WritersHaveWriteGuards' /\ CallAvoidsWriters'
  BY <1>2 DEF CacheInv, WritersAreDirty, WritersHaveWriteGuards, CallAvoidsWriters
<1>8. content' = [k \in Keys |-> IF k \in ks THEN ZeroData ELSE content[k]]
  <2>1. ASSUME NEW k \in Keys
        PROVE  content'[k] = IF k \in ks THEN ZeroData ELSE content[k]
    <3>1. CASE k[1] = new
      <4>1. page_table'[k] = NoFrame /\ page_table[k] = NoFrame /\ FileOf(k) = new
        BY <1>2, <1>4, <3>1 DEF FileOf
      <4>2. store'[k] = IF k \in ks THEN ZeroData ELSE NoData
        BY <1>1, <1>3, <3>1
      <4>3. content'[k] = store'[k]
        BY <1>1, <4>1, ContentAt
      <4>4. content[k] = NoData
        BY <1>3, <4>1, ContentAt
      <4> QED BY <4>2, <4>3, <4>4
    <3>2. CASE k[1] # new
      <4>1. page_table'[k] = page_table[k] /\ data' = data /\ store'[k] = store[k]
            /\ (FileOf(k) \in files' <=> FileOf(k) \in files) /\ k \notin ks
        BY <1>1, <1>2, <1>5, <3>2 DEF FileOf
      <4> QED BY <4>1, ContentAt
    <3> QED BY <3>1, <3>2
  <2> HIDE DEF ks
  <2> QED BY <2>1, ContentAt
<1>9. ks \in SUBSET Keys /\ \A k \in ks : FileOf(k) = new /\ content[k] = NoData
  BY <1>3, <1>4, ContentAt DEF FileOf
<1>10. shown' = shown /\ seen' = seen
  BY <1>2 DEF shown
<1> HIDE DEF ks
<1>11. CacheStep
  BY <1>1, <1>8, <1>9, <1>10, RegisterStep
<1> QED BY <1>1, <1>6, <1>7, <1>11, RegisterFileKeeps DEF CacheInv

LEMMA FailAfterAcquireIsStep ==
  ASSUME CacheInv, FailAfterAcquire
  PROVE  CacheInv' /\ CacheStep
<1> DEFINE f == AcquiredFrame
<1>1. /\ PoolInv /\ TypeOK /\ PageTableInverse /\ PinsMatchGuards /\ CleanIsStored
      /\ WritersAreDirty
      /\ store' = Flushed({f})
      /\ page_table' = TableWithout({f})
      /\ key' = [key EXCEPT ![f] = NoKey]
      /\ dirty' = [dirty EXCEPT ![f] = FALSE]
      /\ UNCHANGED <<registry, data, call, clients>>
  BY DEF CacheInv, PoolInv, FailAfterAcquire
<1>2. f \in Frames /\ pin_count[f] = 0
  BY <1>1, Acquired DEF PoolInv, FailAfterAcquire
<1>3. UNCHANGED <<files, guard, lock, seen>>
  BY <1>1 DEF registry, clients
<1> HIDE DEF f
<1>4. content' = content
  BY <1>1, <1>2, <1>3, RecycledContent
<1>5. CleanIsStored'
  <2> SUFFICES ASSUME NEW g \in Frames, key'[g] # NoKey, ~dirty'[g]
               PROVE  data'[g] = store'[key'[g]]
    BY DEF CleanIsStored
  <2>1. g # f /\ key'[g] = key[g] /\ key[g] # NoKey /\ ~dirty[g]
    BY <1>1, <1>2 DEF TypeOK
  <2>2. key[g] \in Keys /\ page_table[key[g]] = g
    BY <1>1, <2>1, TableFacts
  <2>3. key[f] # key[g]
    BY <1>1, <1>2, <2>1, <2>2, WrittenBack
  <2>4. store'[key[g]] = store[key[g]]
    BY <1>1, <1>2, <2>2, <2>3, WrittenBack
  <2> QED BY <1>1, <2>1, <2>4 DEF CleanIsStored
<1>6. WritersAreDirty'
  <2> SUFFICES ASSUME NEW u \in Threads, guard[u].mode = "write"
               PROVE  dirty'[guard[u].frame]
    BY <1>3 DEF WritersAreDirty
  <2>1. guard[u].frame \in Frames /\ guard[u].frame # f
    BY <1>1, <1>2, Modes, GuardedPage, NoHolder
  <2> QED BY <1>1, <2>1 DEF WritersAreDirty, TypeOK
<1>7. WritersHaveWriteGuards' /\ CallAvoidsWriters'
  BY <1>1, <1>3 DEF CacheInv, WritersHaveWriteGuards, CallAvoidsWriters
<1>8. CacheStep
  <2>1. shown' = shown
    BY <1>3 DEF shown
  <2> QED BY <1>3, <1>4, <2>1, Stutter
<1> QED BY <1>1, <1>5, <1>6, <1>7, <1>8, FailAfterAcquireKeeps DEF CacheInv

(* A write-back of f that the pool takes no note of. *)
LEMMA UnnotedWriteBack ==
  ASSUME CacheInv, PoolInv', NEW f \in Frames, store' \in {store, Flushed({f})},
         call' = Idle, UNCHANGED <<registry, pool, clients>>
  PROVE  CacheInv' /\ CacheStep
<1>1. /\ PoolInv /\ TypeOK /\ CleanIsStored
      /\ UNCHANGED <<page_table, key, data, dirty, files, guard, lock, seen>>
  BY DEF CacheInv, PoolInv, registry, pool, clients
<1>2. content' = content
  <2>1. CASE store' = store
    <3>1. \A k \in Keys : content'[k] = content[k]
      BY <1>1, <2>1, ContentAt
    <3> QED BY <3>1, SameContent
  <2>2. CASE store' = Flushed({f})
    BY <1>1, <2>2, RecycledContent
  <2> QED BY <2>1, <2>2
<1>3. CleanIsStored'
  <2> SUFFICES ASSUME NEW g \in Frames, key[g] # NoKey, ~dirty[g]
               PROVE  data[g] = store'[key[g]]
    BY <1>1 DEF CleanIsStored
  <2>1. data[g] = store[key[g]] /\ key[g] \in Keys
    BY <1>1, TableFacts DEF CleanIsStored, PoolInv
  <2>2. key[f] = key[g] => f = g
    BY <1>1, TableFacts DEF PoolInv
  <2>3. store'[key[g]] = store[key[g]] \/ (key[f] = key[g] /\ store'[key[g]] = data[f])
    BY <1>1, <2>1, WrittenBack
  <2> QED BY <2>1, <2>2, <2>3
<1>4. WritersAreDirty' /\ WritersHaveWriteGuards'
  BY <1>1 DEF CacheInv, WritersAreDirty, WritersHaveWriteGuards
<1>5. CallAvoidsWriters'
  BY <1>1, Modes DEF CallAvoidsWriters
<1>6. CacheStep
  <2>1. shown' = shown
    BY <1>1 DEF shown
  <2> QED BY <1>1, <1>2, <2>1, Stutter
<1> QED BY <1>3, <1>4, <1>5, <1>6 DEF CacheInv

LEMMA FailInAcquireIsStep ==
  ASSUME CacheInv, FailInAcquire
  PROVE  CacheInv' /\ CacheStep
<1>1. /\ PoolInv /\ store' = Flushed({Victim}) /\ call' = Idle
      /\ UNCHANGED <<registry, pool, clients>>
  BY DEF CacheInv, FailInAcquire, MutexFree
<1>2. Victim \in Frames
  BY <1>1, Acquired DEF PoolInv, FailInAcquire, AcquiredFrame
<1> QED BY <1>1, <1>2, UnnotedWriteBack, FailInAcquireKeeps

LEMMA CallFailsIsStep ==
  ASSUME CacheInv, CallFails
  PROVE  CacheInv' /\ CacheStep
<1>1. PoolInv /\ call' = Idle /\ UNCHANGED <<registry, pool, clients>>
  BY DEF CacheInv, CallFails
<1>2. CASE store' = store
  <2>1. 0 \in Frames
    BY CapacityAssumption DEF Frames
  <2> QED BY <1>1, <1>2, <2>1, UnnotedWriteBack, CallFailsKeeps
<1>3. CASE store' # store
  <2>1. call.todo # {} /\ store' = Flushed({Min(call.todo)})
    BY <1>3 DEF CallFails
  <2>2. Min(call.todo) \in Frames
    BY <1>1, <2>1, NextFrame
  <2> QED BY <1>1, <2>1, <2>2, UnnotedWriteBack, CallFailsKeeps
<1> QED BY <1>2, <1>3

LEMMA DropGuardIsStep ==
  ASSUME CacheInv, NEW t \in Threads, DropGuard(t)
  PROVE  CacheInv' /\ CacheStep
<1>1. /\ PoolInv /\ TypeOK /\ CleanIsStored /\ call' = Idle /\ guard[t] # NoGuard
      /\ UNCHANGED <<registry, store, page_table, key, data, dirty, lock>>
      /\ guard' = [guard EXCEPT ![t] = NoGuard]
      /\ seen' = [seen EXCEPT ![t] = NoData]
      /\ lock[t] = "none"
  BY DEF CacheInv, PoolInv, DropGuard, MutexFree
<1>2. \A u \in Threads : guard'[u] = IF u = t THEN NoGuard ELSE guard[u]
  BY <1>1 DEF TypeOK
<1>3. NoGuard.mode # "write" /\ Idle.todo = {}
  BY <1>1, Modes
<1>4. CleanIsStored'
  BY <1>1 DEF CleanIsStored
<1>5. WritersAreDirty' /\ WritersHaveWriteGuards' /\ CallAvoidsWriters'
  BY <1>1, <1>2, <1>3 DEF CacheInv, WritersAreDirty, WritersHaveWriteGuards, CallAvoidsWriters
<1>6. \A k \in Keys : content'[k] = content[k]
  BY <1>1, ContentAt DEF registry
<1>7. content' = content
  BY <1>6, SameContent
<1>8. CacheStep
  BY <1>1, <1>7, ShownAt, GuardNotShown, UnpinStep
<1> QED BY <1>1, <1>4, <1>5, <1>8, DropGuardKeeps DEF CacheInv

(* Steps under the RwLock of a frame that do not change its data. *)
LEMMA LockIsStep ==
  ASSUME CacheInv, PoolInv', WritersHaveWriteGuards',
         UNCHANGED <<registry, store, pool, call, guard>>
  PROVE  CacheInv' /\ content' = content /\ shown' = shown
<1>1. UNCHANGED <<page_table, key, data, dirty, files>>
  BY DEF registry, pool
<1>2. CleanIsStored' /\ WritersAreDirty' /\ CallAvoidsWriters'
  BY <1>1 DEF CacheInv, CleanIsStored, WritersAreDirty, CallAvoidsWriters
<1>3. \A k \in Keys : content'[k] = content[k]
  BY <1>1, ContentAt
<1>4. shown' = shown
  BY DEF shown
<1> QED BY <1>2, <1>3, <1>4, SameContent DEF CacheInv

LEMMA BeginReadIsStep ==
  ASSUME CacheInv, NEW t \in Threads, BeginRead(t)
  PROVE  CacheInv' /\ CacheStep
<1>1. PoolInv /\ TypeOK /\ guard[t] # NoGuard /\ lock' = [lock EXCEPT ![t] = "read"]
      /\ seen' = [seen EXCEPT ![t] = data[guard[t].frame]]
      /\ UNCHANGED <<registry, store, pool, call, guard>>
  BY DEF CacheInv, PoolInv, BeginRead
<1>2. WritersHaveWriteGuards'
  BY <1>1 DEF CacheInv, WritersHaveWriteGuards, TypeOK
<1>3. CacheInv' /\ content' = content /\ shown' = shown
  BY <1>1, <1>2, BeginReadKeeps, LockIsStep
<1>4. content[guard[t].key] = data[guard[t].frame]
  BY <1>1, GuardedPage, GuardFacts, ContentAt
<1>5. CacheStep
  BY <1>1, <1>3, <1>4, ShownAt, ReadStep
<1> QED BY <1>3, <1>5

LEMMA BeginWriteIsStep ==
  ASSUME CacheInv, NEW t \in Threads, BeginWrite(t)
  PROVE  CacheInv' /\ CacheStep
<1>1. PoolInv /\ TypeOK /\ guard[t].mode = "write" /\ lock' = [lock EXCEPT ![t] = "write"]
      /\ seen' = seen /\ UNCHANGED <<registry, store, pool, call, guard>>
  BY DEF CacheInv, PoolInv, BeginWrite
<1>2. WritersHaveWriteGuards'
  BY <1>1 DEF CacheInv, WritersHaveWriteGuards, TypeOK
<1>3. CacheInv' /\ content' = content /\ shown' = shown
  BY <1>1, <1>2, BeginWriteKeeps, LockIsStep
<1> QED BY <1>1, <1>3, Stutter

LEMMA EndReadIsStep ==
  ASSUME CacheInv, NEW t \in Threads, EndRead(t)
  PROVE  CacheInv' /\ CacheStep
<1>1. PoolInv /\ TypeOK /\ lock' = [lock EXCEPT ![t] = "none"]
      /\ seen' = seen /\ UNCHANGED <<registry, store, pool, call, guard>>
  BY DEF CacheInv, PoolInv, EndRead
<1>2. WritersHaveWriteGuards'
  BY <1>1 DEF CacheInv, WritersHaveWriteGuards, TypeOK
<1>3. CacheInv' /\ content' = content /\ shown' = shown
  BY <1>1, <1>2, EndReadKeeps, LockIsStep
<1> QED BY <1>1, <1>3, Stutter

LEMMA EndWriteIsStep ==
  ASSUME CacheInv, NEW t \in Threads, NEW d \in Data, EndWrite(t, d)
  PROVE  CacheInv' /\ CacheStep
<1> DEFINE f == guard[t].frame
           k == guard[t].key
<1>1. /\ PoolInv /\ TypeOK /\ CleanIsStored
      /\ data' = [data EXCEPT ![f] = d]
      /\ lock' = [lock EXCEPT ![t] = "none"]
      /\ UNCHANGED <<registry, store, page_table, key, dirty, call, guard, seen>>
  BY DEF CacheInv, PoolInv, EndWrite
<1>2. guard[t].mode = "write"
  BY DEF CacheInv, WritersHaveWriteGuards, EndWrite
<1>3. /\ guard[t] # NoGuard /\ f \in Frames /\ k \in Keys /\ dirty[f]
      /\ page_table[k] = f /\ key[f] = k
  BY <1>1, <1>2, Modes, GuardedPage DEF CacheInv, WritersAreDirty
<1>4. NoFrame \notin Frames
  BY <1>1, GuardFacts
<1> HIDE DEF f
<1>5. \A g \in Frames : data'[g] = IF g = f THEN d ELSE data[g]
  BY <1>1 DEF TypeOK
<1>6. CleanIsStored'
  BY <1>1, <1>3, <1>5 DEF CleanIsStored
<1>7. WritersAreDirty' /\ WritersHaveWriteGuards' /\ CallAvoidsWriters'
  BY <1>1 DEF CacheInv, WritersAreDirty, WritersHaveWriteGuards, CallAvoidsWriters, TypeOK
<1>8. content' = [content EXCEPT ![k] = d]
  <2> HIDE DEF k
  <2>1. ASSUME NEW j \in Keys
        PROVE  content'[j] = IF j = k THEN d ELSE content[j]
    <3>1. page_table[j] # NoFrame => page_table[j] \in Frames /\ key[page_table[j]] = j
      BY <1>1, TableFacts DEF PoolInv
    <3>2. CASE j = k
      BY <1>1, <1>3, <1>4, <1>5, <3>2, ContentAt
    <3>3. CASE j # k /\ page_table[j] = NoFrame
      BY <1>1, <3>3, ContentAt DEF registry
    <3>4. CASE j # k /\ page_table[j] # NoFrame
      <4>1. page_table[j] # f /\ data'[page_table[j]] = data[page_table[j]]
        BY <1>3, <1>5, <3>1, <3>4
      <4> QED BY <1>1, <3>4, <4>1, ContentAt
    <3> QED BY <3>2, <3>3, <3>4
  <2> QED BY <1>3, <2>1, ContentAt
<1>9. shown' = shown
  BY <1>1 DEF shown
<1>10. CacheStep
  BY <1>1, <1>2, <1>3, <1>8, <1>9, ShownAt, WriteStep
<1> QED BY <1>1, <1>6, <1>7, <1>10, EndWriteKeeps DEF CacheInv

LEMMA BeginCallIsStep ==
  ASSUME CacheInv, PoolInv', NEW t \in Threads, NEW id \in FileIds, NEW op, NEW ks,
         \A u \in Threads : guard[u].mode = "write" => guard[u].frame \notin FramesOf(ks),
         BeginCall(t, op, id, ks)
  PROVE  CacheInv' /\ CacheStep
<1>1. /\ call' = [by |-> t, op |-> op, file |-> id, todo |-> FramesOf(ks)]
      /\ UNCHANGED <<registry, store, pool, clients>>
  BY DEF BeginCall
<1>2. UNCHANGED <<page_table, key, data, dirty, files, guard, lock, seen>>
  BY <1>1 DEF registry, pool, clients
<1>3. CleanIsStored' /\ WritersAreDirty' /\ WritersHaveWriteGuards'
  BY <1>1, <1>2 DEF CacheInv, CleanIsStored, WritersAreDirty, WritersHaveWriteGuards
<1>4. CallAvoidsWriters'
  <2>1. call'.todo = FramesOf(ks)
    BY <1>1
  <2> QED BY <1>2, <2>1 DEF CallAvoidsWriters
<1>5. \A k \in Keys : content'[k] = content[k]
  BY <1>1, <1>2, ContentAt
<1>6. content' = content /\ shown' = shown
  BY <1>2, <1>5, SameContent DEF shown
<1> QED BY <1>2, <1>3, <1>4, <1>6, Stutter DEF CacheInv

(* Only here it matters that nobody forces what others are writing. *)
LEMMA ForceFileIsStep ==
  ASSUME ~ForcesPinned, CacheInv, NEW t \in Threads, NEW id \in FileIds, NEW ks \in SUBSET Keys,
         ForceFile(t, id, ks)
  PROVE  CacheInv' /\ CacheStep
<1>1. PoolInv /\ ks \subseteq PagesOf(id) /\ BeginCall(t, "force", id, ks)
  BY DEF CacheInv, ForceFile
<1>2. PoolInv'
  BY <1>1, BeginCallKeeps
<1>3. ASSUME NEW u \in Threads, guard[u].mode = "write"
      PROVE  guard[u].frame \notin FramesOf(ks)
  <2>1. key[guard[u].frame] = guard[u].key
    BY <1>1, <1>3, Modes, GuardedPage
  <2>2. guard[u].key \notin ks
    BY <1>3 DEF ForceFile
  <2> QED BY <2>1, <2>2 DEF FramesOf
<1> QED BY <1>1, <1>2, <1>3, BeginCallIsStep

LEMMA FlushFileIsStep ==
  ASSUME CacheInv, NEW t \in Threads, NEW id \in FileIds, FlushFile(t, id) \/ RemoveFile(t, id)
  PROVE  CacheInv' /\ CacheStep
<1>1. PICK op \in {"flush", "remove"} : NonePinned(id) /\ BeginCall(t, op, id, PagesOf(id))
  BY DEF FlushFile, RemoveFile
<1>2. PoolInv /\ PoolInv'
  BY <1>1, BeginCallKeeps DEF CacheInv
<1>3. ASSUME NEW u \in Threads, guard[u].mode = "write"
      PROVE  guard[u].frame \notin FramesOf(PagesOf(id))
  <2>1. pin_count[guard[u].frame] # 0
    BY <1>2, <1>3, Modes, GuardedPage
  <2> QED BY <1>1, <2>1 DEF NonePinned, Unpinned
<1> QED BY <1>1, <1>2, <1>3, BeginCallIsStep

LEMMA SeeFrameIsStep ==
  ASSUME CacheInv, SeeFrame
  PROVE  CacheInv' /\ CacheStep
<1> DEFINE f == Min(call.todo)
<1>1. /\ PoolInv /\ TypeOK /\ CleanIsStored /\ WritersAreDirty /\ CallAvoidsWriters
      /\ PageTableInverse
      /\ store' = Flushed({f})
      /\ dirty' = [dirty EXCEPT ![f] = FALSE]
      /\ call' = [call EXCEPT !.todo = call.todo \ {f}]
      /\ \/ UNCHANGED <<page_table, key>>
         \/ page_table' = TableWithout({f}) /\ key' = [key EXCEPT ![f] = NoKey]
      /\ UNCHANGED <<registry, data, clients>>
  BY DEF CacheInv, PoolInv, SeeFrame, EvictFrame
<1>2. /\ f \in Frames /\ f \in call.todo
      /\ call \in [by : Threads, op : {"force", "flush", "remove"}, file : FileIds,
                   todo : SUBSET Frames]
  BY <1>1, NextFrame DEF SeeFrame
<1>3. UNCHANGED <<files, guard, lock, seen>>
  BY <1>1 DEF registry, clients
<1> HIDE DEF f
<1>4. content' = content
  BY <1>1, <1>2, <1>3, RecycledContent
<1>5. CleanIsStored'
  <2> SUFFICES ASSUME NEW g \in Frames, key'[g] # NoKey, ~dirty'[g]
               PROVE  data[g] = store'[key'[g]]
    BY <1>1 DEF CleanIsStored
  <2>1. key'[g] = key[g] /\ key[g] # NoKey
    BY <1>1, <1>2 DEF TypeOK
  <2>2. key[g] \in Keys /\ page_table[key[g]] = g
    BY <1>1, <2>1, TableFacts
  <2>3. CASE g = f
    BY <1>1, <1>2, <2>1, <2>2, <2>3, WrittenBack
  <2>4. CASE g # f
    <3>1. ~dirty[g]
      BY <1>1, <1>2, <2>4 DEF TypeOK
    <3>2. key[f] # key[g]
      BY <1>1, <1>2, <2>2, <2>4, WrittenBack
    <3>3. store'[key[g]] = store[key[g]]
      BY <1>1, <1>2, <2>2, <3>2, WrittenBack
    <3> QED BY <1>1, <2>1, <3>1, <3>3 DEF CleanIsStored
  <2> QED BY <2>3, <2>4
<1>6. WritersAreDirty'
  <2> SUFFICES ASSUME NEW u \in Threads, guard[u].mode = "write"
               PROVE  dirty'[guard[u].frame]
    BY <1>3 DEF WritersAreDirty
  <2>1. guard[u].frame \in Frames /\ guard[u].frame # f
    BY <1>1, <1>2, Modes, GuardedPage DEF CallAvoidsWriters
  <2> QED BY <1>1, <2>1 DEF WritersAreDirty, TypeOK
<1>7. WritersHaveWriteGuards' /\ CallAvoidsWriters'
  <2>1. call'.todo \subseteq call.todo
    BY <1>1, <1>2
  <2> QED BY <1>1, <1>3, <2>1 DEF CacheInv, WritersHaveWriteGuards, CallAvoidsWriters
<1>8. CacheStep
  <2>1. shown' = shown
    BY <1>3 DEF shown
  <2> QED BY <1>3, <1>4, <2>1, Stutter
<1> QED BY <1>5, <1>6, <1>7, <1>8, SeeFrameKeeps DEF CacheInv

LEMMA EndCallIsStep ==
  ASSUME CacheInv, EndCall
  PROVE  CacheInv' /\ CacheStep
<1>1. /\ PoolInv /\ TypeOK /\ PageTableInverse /\ CallKnowsFrames
      /\ call # Idle /\ call.todo = {} /\ call' = Idle
      /\ files' = IF call.op = "remove" THEN files \ {call.file} ELSE files
      /\ UNCHANGED <<next_file_id, store, pool, clients>>
  BY DEF CacheInv, PoolInv, EndCall
<1>2. UNCHANGED <<page_table, key, data, dirty, guard, lock, seen>>
  BY <1>1 DEF pool, clients
<1>3. CleanIsStored' /\ WritersAreDirty' /\ WritersHaveWriteGuards'
  BY <1>1, <1>2 DEF CacheInv, CleanIsStored, WritersAreDirty, WritersHaveWriteGuards
<1>4. CallAvoidsWriters'
  BY <1>1, Modes DEF CallAvoidsWriters
<1>5. CacheInv'
  BY <1>3, <1>4, EndCallKeeps DEF CacheInv
<1>6. shown' = shown
  BY <1>2 DEF shown
<1>7. CASE call.op # "remove"
  <2>1. \A k \in Keys : content'[k] = content[k]
    BY <1>1, <1>2, <1>7, ContentAt
  <2> QED BY <1>2, <1>5, <1>6, <2>1, SameContent, Stutter
<1>8. CASE call.op = "remove"
  <2> DEFINE id == call.file
  <2>1. id \in FileIds /\ files' = files \ {id}
    BY <1>1, <1>8 DEF TypeOK
  <2>2. FramesOf(PagesOf(id)) = {}
    BY <1>1, <1>8 DEF CallKnowsFrames
  <2> HIDE DEF id
  <2>3. \A k \in Keys : FileOf(k) = id => k \in PagesOf(id)
    BY DEF Keys, FileOf, PagesOf
  <2>4. \A k \in Keys : FileOf(k) = id => page_table[k] = NoFrame
    BY <1>1, <2>2, <2>3, TableFacts DEF FramesOf
  <2>5. ASSUME NEW t \in Threads, shown[t] # <<>>
        PROVE  FileOf(shown[t][1]) # id
    <3>1. guard[t] # NoGuard /\ shown[t][1] = guard[t].key
      BY <2>5, ShownAt
    <3>2. guard[t].key \in Keys /\ page_table[guard[t].key] \in Frames
      BY <1>1, <3>1, GuardedPage
    <3> QED BY <1>1, <2>4, <3>1, <3>2, GuardFacts
  <2>6. \A k \in Keys : content'[k] = IF FileOf(k) = id THEN NoData ELSE content[k]
    BY <1>1, <1>2, <2>1, <2>4, ContentAt
  <2>7. content' = [k \in Keys |-> IF FileOf(k) = id THEN NoData ELSE content[k]]
    BY <2>6, ContentAt
  <2> QED BY <1>2, <1>5, <1>6, <2>1, <2>5, <2>7, RemoveStep
<1> QED BY <1>7, <1>8

LEMMA StepIsCacheStep ==
  ASSUME ~ForcesPinned, CacheInv, [Next]_vars
  PROVE  CacheInv' /\ CacheStep
<1>1. CASE UNCHANGED vars
  <2>1. UNCHANGED <<registry, store, pool, call, guard>> /\ UNCHANGED <<lock, seen>>
    BY <1>1 DEF vars, clients
  <2>2. PoolInv' /\ WritersHaveWriteGuards'
    BY <1>1, <2>1, StepKeepsPool DEF CacheInv, WritersHaveWriteGuards
  <2> QED BY <2>1, <2>2, LockIsStep, Stutter
<1>2. CASE Next
  BY <1>2, RegisterFileIsStep, GetCachedPageIsStep, LoadPageIsStep, AllocatePageIsStep,
     DropGuardIsStep, BeginReadIsStep, EndReadIsStep, BeginWriteIsStep, EndWriteIsStep,
     ForceFileIsStep, FlushFileIsStep, FailAfterAcquireIsStep, FailInAcquireIsStep,
     SeeFrameIsStep, EndCallIsStep, CallFailsIsStep
     DEF Next
<1> QED BY <1>1, <1>2

-----------------------------------------------------------------------------
(* The results.                                                            *)

(* A frame that is not dirty has the data of its file, so that recycling it   *)
(* without a write-back loses nothing.                                        *)
THEOREM CleanFramesAreStored ==
  ASSUME ~ForcesPinned
  PROVE  Spec => []CleanIsStored
<1>1. Init => CacheInv
  BY InitCache
<1>2. CacheInv /\ [Next]_vars => CacheInv'
  BY StepIsCacheStep
<1>3. CacheInv => CleanIsStored
  BY DEF CacheInv
<1> QED BY <1>1, <1>2, <1>3, PTL DEF Spec

(* The pool implements PageCache. *)
THEOREM PoolIsPageCache ==
  ASSUME ~ForcesPinned
  PROVE  Spec => ImplementsPageCache
<1>1. Init => CacheInv /\ Cache!Init
  BY InitCache
<1>2. CacheInv /\ [Next]_vars => CacheInv' /\ [Cache!Next]_(Cache!cacheVars)
  BY StepIsCacheStep DEF CacheStep
<1> QED BY <1>1, <1>2, PTL DEF Spec, ImplementsPageCache, Cache!Spec
=============================================================================
