----------------------------- MODULE BufferPool -----------------------------
(***************************************************************************)
(* The buffer pool of src/storage/buffer/mod.rs and the threads that share *)
(* it.  Every pool call runs under the mutex of the pool and is one action, *)
(* but the calls that go through all frames of a file (force_file,          *)
(* flush_file, remove_file): they wait for the RwLock of a frame while they *)
(* hold the mutex, and are one action per frame.  A thread works on the     *)
(* data of a frame through its guard, under the RwLock, without the mutex.  *)
(* A page file is modelled by what PageFile shows of it: the data of its    *)
(* pages.                                                                   *)
(***************************************************************************)
EXTENDS LruList, FiniteSets, SequencesExt

CONSTANTS
  Threads,
  MaxFiles,       \* bound on the files ever registered: ids 0 .. MaxFiles - 1
  MaxPages,       \* bound on the pages of a file
  Data,           \* the contents of a page
  ZeroData,       \* the content of a new page
  NoData,         \* the page does not exist; nothing was read
  MaxUses,        \* bound on the times a guard locks its frame
  ForcesPinned    \* whether a thread forces pages that others have pinned
                  \* for writing

ASSUME PoolAssumption ==
  /\ IsFiniteSet(Threads)
  /\ MaxFiles \in Nat \ {0}
  /\ MaxPages \in Nat \ {0}
  /\ ZeroData \in Data
  /\ NoData \notin Data
  /\ MaxUses \in Nat \ {0}
  /\ ForcesPinned \in BOOLEAN

VARIABLES
  next_file_id,   \* FileId of the next register_file
  files,          \* the ids in the map of registered files
  store,          \* store[k]: the data page k has in its file
  page_table,     \* page_table[k]: the frame of page k, NoFrame if none
  key,            \* the fields of the frames
  data,
  dirty,
  pin_count,
  list,           \*   prev and next of the frames, mru_head, lru_tail
  free_list,
  call,           \* the force_file, flush_file or remove_file that holds the
                  \*   mutex and has frames `todo' to see, Idle if none
  guard,          \* guard[t]: the guard that thread t has
  lock,           \* lock[t]: its hold on the RwLock of the guard's frame
  uses,           \* uses[t]: how often it has locked it
  seen            \* seen[t]: what t last read through that guard

pool == <<page_table, key, data, dirty, pin_count, list, free_list>>
registry == <<next_file_id, files>>
clients == <<guard, lock, uses, seen>>
vars == <<registry, store, pool, call, clients>>

FileIds == 0 .. MaxFiles - 1
PageIds == 0 .. MaxPages - 1
Keys == FileIds \X PageIds
FileOf(k) == k[1]
NoKey == <<>>

Idle == [by |-> "nobody", op |-> "none", file |-> -1, todo |-> {}]
NoGuard == [frame |-> NoFrame, key |-> NoKey, mode |-> "none"]

\* Mutated form: the frames are counted from one.
InitialFreeListFromOne == [i \in 1 .. Capacity |-> Capacity - i + 1]

InitialFreeList == [i \in 1 .. Capacity |-> Capacity - i]

Init ==
  /\ next_file_id = 0
  /\ files = {}
  /\ store = [k \in Keys |-> NoData]
  /\ page_table = [k \in Keys |-> NoFrame]
  /\ key = [f \in Frames |-> NoKey]
  /\ data = [f \in Frames |-> ZeroData]
  /\ dirty = [f \in Frames |-> FALSE]
  /\ pin_count = [f \in Frames |-> 0]
  /\ list = EmptyList
  /\ free_list = InitialFreeList
  /\ call = Idle
  /\ guard = [t \in Threads |-> NoGuard]
  /\ lock = [t \in Threads |-> "none"]
  /\ uses = [t \in Threads |-> 0]
  /\ seen = [t \in Threads |-> NoData]

MutexFree == call = Idle


\* A thread that is in a pool call does nothing else.
Runs(t) == call.by # t

-----------------------------------------------------------------------------
(* acquire_frame: the frame it returns, and the pool after it.             *)

Unpinned == {f \in Frames : pin_count[f] = 0}

FrameAvailable == free_list # <<>> \/ Range(Order(list)) \cap Unpinned # {}

\* Mutated form: the frame used last but pinned is taken.
AnyVictim == Order(list)[Len(Order(list))]

\* The first unpinned frame from lru_tail towards the head.
Victim ==
  LET order == Order(list)
  IN order[Max({i \in DOMAIN order : order[i] \in Unpinned})]

AcquiredFrame == IF free_list # <<>> THEN Last(free_list) ELSE Victim

AcquiredFreeList == IF free_list # <<>> THEN Front(free_list) ELSE free_list

AcquiredList ==
  IF free_list # <<>> THEN LinkHead(list, AcquiredFrame)
                      ELSE Touch(Unlink(list, AcquiredFrame), AcquiredFrame)

\* Mutated form: the frames are recycled, their data not written.
NotFlushed(S) == store

\* The page files after flush_frame_if_dirty of every frame of S.
Flushed(S) ==
  [k \in Keys |-> IF \E f \in S : dirty[f] /\ key[f] = k
                    THEN data[page_table[k]] ELSE store[k]]

\* Mutated form: the page table keeps naming the frames.
TableNotCleared(S) == page_table

\* The page table after recycle_frame of every frame of S.
TableWithout(S) ==
  [k \in Keys |-> IF page_table[k] \in S THEN NoFrame ELSE page_table[k]]

\* acquire_frame, then install_frame puts page k with data d into the frame.
InstallFor(t, k, mode, d) ==
  LET f == AcquiredFrame IN
  /\ FrameAvailable
  /\ page_table' = [TableWithout({f}) EXCEPT ![k] = f]
  /\ key' = [key EXCEPT ![f] = k]
  /\ data' = [data EXCEPT ![f] = d]
  /\ dirty' = [dirty EXCEPT ![f] = (mode = "write")]
  /\ pin_count' = [pin_count EXCEPT ![f] = 1]
  /\ list' = Touch(AcquiredList, f)
  /\ free_list' = AcquiredFreeList
  /\ guard' = [guard EXCEPT ![t] = [frame |-> f, key |-> k, mode |-> mode]]

-----------------------------------------------------------------------------
(* The calls that run in one piece under the mutex.                        *)

\* The file is new or was opened with n pages.
RegisterFile(n) ==
  /\ MutexFree
  /\ next_file_id < MaxFiles
  /\ files' = files \cup {next_file_id}
  /\ next_file_id' = next_file_id + 1
  /\ store' = [k \in Keys |-> IF k[1] = next_file_id /\ k[2] < n THEN ZeroData ELSE store[k]]
  /\ UNCHANGED <<pool, call, clients>>

\* get_page and get_page_mut of a page that is in a frame.
GetCachedPage(t, k, mode) ==
  LET f == page_table[k] IN
  /\ MutexFree
  /\ guard[t] = NoGuard
  /\ f # NoFrame
  /\ pin_count' = [pin_count EXCEPT ![f] = @ + 1]
  /\ list' = Touch(list, f)
  /\ dirty' = [dirty EXCEPT ![f] = @ \/ mode = "write"]
  /\ guard' = [guard EXCEPT ![t] = [frame |-> f, key |-> k, mode |-> mode]]
  /\ UNCHANGED <<registry, store, page_table, key, data, free_list, call, lock, uses, seen>>

\* get_page and get_page_mut of a page that is not.
LoadPage(t, k, mode) ==
  /\ MutexFree
  /\ guard[t] = NoGuard
  /\ page_table[k] = NoFrame
  /\ FileOf(k) \in files
  /\ store[k] # NoData
  /\ InstallFor(t, k, mode, store[k])
  /\ store' = Flushed({AcquiredFrame})
  /\ UNCHANGED <<registry, call, lock, uses, seen>>

\* The page file of id grows by one zero page.
AllocatePage(t, id) ==
  LET k == <<id, Cardinality({p \in PageIds : store[<<id, p>>] # NoData})>> IN
  /\ MutexFree
  /\ guard[t] = NoGuard
  /\ id \in files
  /\ k \in Keys
  /\ InstallFor(t, k, "write", ZeroData)
  /\ store' = [Flushed({AcquiredFrame}) EXCEPT ![k] = ZeroData]
  /\ UNCHANGED <<registry, call, lock, uses, seen>>

\* Any of them fails after acquire_frame: the file or the page does not exist,
\* or its page file reports an error.  The frame stays in the list, empty.
FailAfterAcquire ==
  LET f == AcquiredFrame IN
  /\ MutexFree
  /\ \E t \in Threads : guard[t] = NoGuard
  /\ FrameAvailable
  /\ store' = Flushed({f})
  /\ page_table' = TableWithout({f})
  /\ key' = [key EXCEPT ![f] = NoKey]
  /\ dirty' = [dirty EXCEPT ![f] = FALSE]
  /\ list' = AcquiredList
  /\ free_list' = AcquiredFreeList
  /\ UNCHANGED <<registry, data, pin_count, call, clients>>

\* acquire_frame fails in the write-back of its victim, which may have reached
\* the page file or not; the victim keeps its page and stays dirty.
FailInAcquire ==
  /\ MutexFree
  /\ \E t \in Threads : guard[t] = NoGuard
  /\ free_list = <<>>
  /\ FrameAvailable
  /\ store' = Flushed({Victim})
  /\ UNCHANGED <<registry, pool, call, clients>>

\* Mutated form: the guard is dropped, the frame stays pinned.
DropGuardStaysPinned(t) ==
  /\ MutexFree
  /\ guard[t] # NoGuard
  /\ lock[t] = "none"
  /\ guard' = [guard EXCEPT ![t] = NoGuard]
  /\ uses' = [uses EXCEPT ![t] = 0]
  /\ seen' = [seen EXCEPT ![t] = NoData]
  /\ UNCHANGED <<registry, store, pool, call, lock>>

\* A guard is dropped: unpin_frame.
DropGuard(t) ==
  LET f == guard[t].frame IN
  /\ MutexFree
  /\ guard[t] # NoGuard
  /\ lock[t] = "none"
  /\ pin_count[f] > 0
  /\ pin_count' = [pin_count EXCEPT ![f] = @ - 1]
  /\ list' = IF pin_count[f] = 1 THEN Touch(list, f) ELSE list
  /\ guard' = [guard EXCEPT ![t] = NoGuard]
  /\ uses' = [uses EXCEPT ![t] = 0]
  /\ seen' = [seen EXCEPT ![t] = NoData]
  /\ UNCHANGED <<registry, store, page_table, key, data, dirty, free_list, call, lock>>

-----------------------------------------------------------------------------
(* The data of a frame, through a guard and under its RwLock.              *)

LockedFor(mode, f) == {t \in Threads : lock[t] = mode /\ guard[t].frame = f}

BeginRead(t) ==
  LET f == guard[t].frame IN
  /\ Runs(t)
  /\ guard[t] # NoGuard
  /\ lock[t] = "none"
  /\ uses[t] < MaxUses
  /\ LockedFor("write", f) = {}
  /\ lock' = [lock EXCEPT ![t] = "read"]
  /\ uses' = [uses EXCEPT ![t] = @ + 1]
  /\ seen' = [seen EXCEPT ![t] = data[f]]
  /\ UNCHANGED <<registry, store, pool, call, guard>>

BeginWrite(t) ==
  LET f == guard[t].frame IN
  /\ Runs(t)
  /\ guard[t].mode = "write"
  /\ lock[t] = "none"
  /\ uses[t] < MaxUses
  /\ LockedFor("write", f) \cup LockedFor("read", f) = {}
  /\ lock' = [lock EXCEPT ![t] = "write"]
  /\ uses' = [uses EXCEPT ![t] = @ + 1]
  /\ UNCHANGED <<registry, store, pool, call, guard, seen>>

EndRead(t) ==
  /\ lock[t] = "read"
  /\ lock' = [lock EXCEPT ![t] = "none"]
  /\ UNCHANGED <<registry, store, pool, call, guard, uses, seen>>

EndWrite(t, d) ==
  /\ lock[t] = "write"
  /\ data' = [data EXCEPT ![guard[t].frame] = d]
  /\ lock' = [lock EXCEPT ![t] = "none"]
  /\ UNCHANGED <<registry, store, page_table, key, dirty, pin_count, list, free_list,
                 call, guard, uses, seen>>

-----------------------------------------------------------------------------
(* force_file, flush_file and remove_file.                                 *)

FramesOf(ks) == {f \in Frames : key[f] \in ks}

PagesOf(id) == {id} \X PageIds

\* A thread, possibly with a guard of its own, takes the mutex and collects the
\* frames that hold one of the pages.
BeginCall(t, op, id, ks) ==
  /\ MutexFree
  /\ lock[t] = "none"
  /\ id \in files
  /\ call' = [by |-> t, op |-> op, file |-> id, todo |-> FramesOf(ks)]
  /\ UNCHANGED <<registry, store, pool, clients>>

\* All pages of the file, or one.
ForceFile(t, id, ks) ==
  /\ ks = PagesOf(id) \/ \E k \in PagesOf(id) : ks = {k}
  /\ ~ForcesPinned =>
       \A u \in Threads : guard[u].mode = "write" => guard[u].key \notin ks
  /\ BeginCall(t, "force", id, ks)

NonePinned(id) == FramesOf(PagesOf(id)) \subseteq Unpinned

FlushFile(t, id) ==
  /\ NonePinned(id)
  /\ BeginCall(t, "flush", id, PagesOf(id))

\* A flush, after which the page file goes back to the caller.
RemoveFile(t, id) ==
  /\ NonePinned(id)
  /\ BeginCall(t, "remove", id, PagesOf(id))

\* recycle_frame and push to the free list.
EvictFrame(f) ==
  /\ page_table' = TableWithout({f})
  /\ key' = [key EXCEPT ![f] = NoKey]
  /\ list' = Unlink(list, f)
  /\ free_list' = Append(free_list, f)

\* Mutated form: the frame must be unpinned, and dropping a guard needs the mutex.
SeeUnpinnedFrame ==
  LET f == Min(call.todo) IN
  /\ call.todo # {}
  /\ dirty[f] => f \in Unpinned
  /\ store' = Flushed({f})
  /\ dirty' = [dirty EXCEPT ![f] = FALSE]
  /\ IF call.op = "force" THEN UNCHANGED <<page_table, key, list, free_list>> ELSE EvictFrame(f)
  /\ call' = [call EXCEPT !.todo = @ \ {f}]
  /\ UNCHANGED <<registry, data, pin_count, clients>>

\* Mutated form: a flush evicts the frame without its write-back.
EvictUnwritten ==
  LET f == Min(call.todo) IN
  /\ call.todo # {}
  /\ dirty[f] => LockedFor("write", f) = {}
  /\ store' = IF call.op = "force" THEN Flushed({f}) ELSE store
  /\ dirty' = [dirty EXCEPT ![f] = FALSE]
  /\ IF call.op = "force" THEN UNCHANGED <<page_table, key, list, free_list>> ELSE EvictFrame(f)
  /\ call' = [call EXCEPT !.todo = @ \ {f}]
  /\ UNCHANGED <<registry, data, pin_count, clients>>

\* flush_frame_if_dirty of the next frame, once no thread is writing to it, and
\* its eviction unless the call is force_file.  evict_frame refuses a pinned
\* frame; nobody can have pinned it since NonePinned was looked at.
SeeFrame ==
  LET f == Min(call.todo) IN
  /\ call.todo # {}
  /\ dirty[f] => LockedFor("write", f) = {}
  /\ store' = Flushed({f})
  /\ dirty' = [dirty EXCEPT ![f] = FALSE]
  /\ IF call.op = "force" THEN UNCHANGED <<page_table, key, list, free_list>> ELSE EvictFrame(f)
  /\ call' = [call EXCEPT !.todo = @ \ {f}]
  /\ UNCHANGED <<registry, data, pin_count, clients>>

\* The page file is flushed, removed where that is asked, and the mutex released.
EndCall ==
  /\ call # Idle
  /\ call.todo = {}
  /\ files' = IF call.op = "remove" THEN files \ {call.file} ELSE files
  /\ call' = Idle
  /\ UNCHANGED <<next_file_id, store, pool, clients>>

\* The page file reports an error in the write-back of the next frame, which may
\* have reached it or not, or in its own flush.  Frames seen before stay evicted.
CallFails ==
  LET f == Min(call.todo) IN
  /\ call # Idle
  /\ \/ call.todo = {} /\ UNCHANGED store
     \/ /\ call.todo # {}
        /\ dirty[f]
        /\ LockedFor("write", f) = {}
        /\ store' \in {store, Flushed({f})}
  /\ call' = Idle
  /\ UNCHANGED <<registry, pool, clients>>

-----------------------------------------------------------------------------
Next ==
  \/ \E n \in 0 .. MaxPages : RegisterFile(n)
  \/ \E t \in Threads :
       \/ \E k \in Keys, mode \in {"read", "write"} :
            GetCachedPage(t, k, mode) \/ LoadPage(t, k, mode)
       \/ \E id \in FileIds : AllocatePage(t, id)
       \/ DropGuard(t)
       \/ BeginRead(t)
       \/ EndRead(t)
       \/ BeginWrite(t)
       \/ \E d \in Data : EndWrite(t, d)
       \/ \E id \in FileIds, ks \in SUBSET Keys : ForceFile(t, id, ks)
       \/ \E id \in FileIds : FlushFile(t, id) \/ RemoveFile(t, id)
  \/ FailAfterAcquire
  \/ FailInAcquire
  \/ SeeFrame
  \/ EndCall
  \/ CallFails

\* A thread that has the mutex goes on when it can, and a thread that has
\* locked a frame works on it and unlocks it.
Fairness ==
  /\ WF_vars(SeeFrame)
  /\ WF_vars(EndCall)
  /\ \A t \in Threads : WF_vars(EndRead(t)) /\ WF_vars(\E d \in Data : EndWrite(t, d))

Spec == Init /\ [][Next]_vars /\ Fairness

-----------------------------------------------------------------------------
(* Type invariant. *)
TypeOK ==
  /\ next_file_id \in 0 .. MaxFiles
  /\ files \subseteq FileIds
  /\ store \in [Keys -> Data \cup {NoData}]
  /\ page_table \in [Keys -> Frames \cup {NoFrame}]
  /\ key \in [Frames -> Keys \cup {NoKey}]
  /\ data \in [Frames -> Data]
  /\ dirty \in [Frames -> BOOLEAN]
  /\ pin_count \in [Frames -> Nat]
  /\ list \in Lists
  /\ free_list \in Seq(Frames)
  /\ call \in [by : Threads, op : {"force", "flush", "remove"}, file : FileIds,
               todo : SUBSET Frames] \cup {Idle}
  /\ guard \in [Threads -> [frame : Frames, key : Keys, mode : {"read", "write"}] \cup {NoGuard}]
  /\ lock \in [Threads -> {"none", "read", "write"}]
  /\ uses \in [Threads -> 0 .. MaxUses]
  /\ seen \in [Threads -> Data \cup {NoData}]

(* The pins of a frame are the guards that exist on it: a guard dropped by *)
(* unpin_frame, on whatever path, neither leaks a pin nor takes the pin of *)
(* another guard.                                                          *)
PinsMatchGuards ==
  \A f \in Frames : pin_count[f] = Cardinality({t \in Threads : guard[t].frame = f})

(* The frame of a guard keeps the page it was pinned for, whatever the     *)
(* other threads load, evict, flush or remove in the meantime.             *)
GuardStable ==
  \A t \in Threads : guard[t] # NoGuard =>
    /\ key[guard[t].frame] = guard[t].key
    /\ page_table[guard[t].key] = guard[t].frame

(* The page table and the keys of the frames are inverse to each other, no *)
(* two frames hold one page, and a frame holds only a page that its file   *)
(* has: a dirty frame can always be written back.                          *)
PageTableInverse ==
  /\ \A k \in Keys, f \in Frames : page_table[k] = f <=> key[f] = k
  /\ \A f \in Frames :
       IF key[f] = NoKey THEN ~dirty[f]
                         ELSE FileOf(key[f]) \in files /\ store[key[f]] # NoData

(* The linked list is well formed in both directions, and every frame is   *)
(* in it once or in the free list once: no frame is lost to the pool.      *)
FramesPartitioned ==
  \E s \in Orders :
    /\ IsOrder(list, s)
    /\ IsInjective(free_list)
    /\ Range(s) \cup Range(free_list) = Frames
    /\ Range(s) \cap Range(free_list) = {}
    /\ \A f \in Range(free_list) : key[f] = NoKey /\ pin_count[f] = 0

(* A frame that is not dirty has the data that its page has in the file:   *)
(* recycling it without a write-back loses nothing.                        *)
CleanIsStored ==
  \A f \in Frames : key[f] # NoKey /\ ~dirty[f] => data[f] = store[key[f]]

(* The calls that go through the frames of a file return, although they    *)
(* wait for the writers of these frames while they hold the mutex that     *)
(* every other call needs.                                                 *)
CallsReturn == (call # Idle) ~> (call = Idle)

-----------------------------------------------------------------------------
(* Threads that do not force what others are writing cannot tell the pool  *)
(* from the page files themselves.                                         *)
content ==
  [k \in Keys |-> CASE page_table[k] # NoFrame -> data[page_table[k]]
                    [] page_table[k] = NoFrame /\ FileOf(k) \in files -> store[k]
                    [] OTHER -> NoData]

Cache == INSTANCE PageCache WITH
  guard <- [t \in Threads |->
              IF guard[t] = NoGuard THEN <<>> ELSE <<guard[t].key, guard[t].mode>>]

ImplementsPageCache == Cache!Spec
=============================================================================
