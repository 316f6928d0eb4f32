----------------------------- MODULE PageCache -----------------------------
(***************************************************************************)
(* What a buffer pool promises the threads that share it: every page       *)
(* behaves as if its guards worked directly on the file, however often the *)
(* page is loaded into a frame, evicted or written back in between.        *)
(***************************************************************************)
CONSTANTS
  Threads,
  Keys,        \* the pages of the files that are ever registered
  FileOf(_),   \* the file of a page
  Data,
  ZeroData,    \* the content of a page that was just allocated
  NoData       \* no content: the page does not exist, or nothing was read

VARIABLES
  content,     \* content[k]: the data of page k
  guard,       \* guard[t]: <<>>, or <<k, mode>> for a guard of thread t on k
  seen         \* seen[t]: what t last read through the guard it has

cacheVars == <<content, guard, seen>>

Init ==
  /\ content = [k \in Keys |-> NoData]
  /\ guard = [t \in Threads |-> <<>>]
  /\ seen = [t \in Threads |-> NoData]

Pin(t, k, mode) ==
  /\ guard[t] = <<>>
  /\ content[k] # NoData
  /\ guard' = [guard EXCEPT ![t] = <<k, mode>>]
  /\ UNCHANGED <<content, seen>>

Allocate(t, k) ==
  /\ guard[t] = <<>>
  /\ content[k] = NoData
  /\ content' = [content EXCEPT ![k] = ZeroData]
  /\ guard' = [guard EXCEPT ![t] = <<k, "write">>]
  /\ UNCHANGED seen

Unpin(t) ==
  /\ guard[t] # <<>>
  /\ guard' = [guard EXCEPT ![t] = <<>>]
  /\ seen' = [seen EXCEPT ![t] = NoData]
  /\ UNCHANGED content

Read(t) ==
  /\ guard[t] # <<>>
  /\ seen' = [seen EXCEPT ![t] = content[guard[t][1]]]
  /\ UNCHANGED <<content, guard>>

Write(t, d) ==
  /\ guard[t] # <<>>
  /\ guard[t][2] = "write"
  /\ content' = [content EXCEPT ![guard[t][1]] = d]
  /\ UNCHANGED <<guard, seen>>

\* A file comes with the pages it already has, and goes when none is pinned.
Register(f, ks) ==
  /\ \A k \in ks : FileOf(k) = f /\ content[k] = NoData
  /\ content' = [k \in Keys |-> IF k \in ks THEN ZeroData ELSE content[k]]
  /\ UNCHANGED <<guard, seen>>

Remove(f) ==
  /\ \A t \in Threads : guard[t] # <<>> => FileOf(guard[t][1]) # f
  /\ content' = [k \in Keys |-> IF FileOf(k) = f THEN NoData ELSE content[k]]
  /\ UNCHANGED <<guard, seen>>

Next ==
  \/ \E t \in Threads :
       \/ \E k \in Keys : Allocate(t, k) \/ \E mode \in {"read", "write"} : Pin(t, k, mode)
       \/ Unpin(t)
       \/ Read(t)
       \/ \E d \in Data : Write(t, d)
  \/ \E f \in {FileOf(k) : k \in Keys} : Remove(f) \/ \E ks \in SUBSET Keys : Register(f, ks)

Spec == Init /\ [][Next]_cacheVars
=============================================================================
