----------------------------- MODULE PageStore -----------------------------
(***************************************************************************)
(* What a page file promises its client, with no header, no one-page       *)
(* buffer and no disk: a set of pages in use, each with its data, and a    *)
(* stack of freed pages that are handed out again before the file grows.   *)
(* The variable out is the interface: the call that was last answered and  *)
(* the answer, so that reads are observable.                               *)
(***************************************************************************)
EXTENDS Naturals, Sequences

CONSTANTS
  MaxPages,   \* bound on the number of pages a file ever has
  Data,       \* the contents a page can have
  ZeroData,   \* the content of a zero-filled page
  NoData      \* the answer of a call on a page that is not in use

VARIABLES
  content,    \* content[p] is the data of page p, NoData if p is not in use
  free,       \* the freed pages, the most recently freed one first
  num_pages,  \* number of pages the file has ever grown to
  out         \* <<call, page, data>> of the last answered call

storeVars == <<content, free, num_pages, out>>

StoreIds == 0 .. MaxPages - 1

Init ==
  /\ content = [p \in StoreIds |-> NoData]
  /\ free = <<>>
  /\ num_pages = 0
  /\ out = <<"open", 0, NoData>>

\* A page is taken from the top of the stack, or the file grows by one page.
\* The caller writes d through the guard it receives.
Allocate(d) ==
  \E p \in StoreIds :
    /\ IF free # <<>>
         THEN p = Head(free) /\ free' = Tail(free) /\ UNCHANGED num_pages
         ELSE p = num_pages /\ num_pages' = num_pages + 1 /\ UNCHANGED free
    /\ content' = [content EXCEPT ![p] = d]
    /\ out' = <<"allocate", p, d>>

Read(p) ==
  /\ out' = <<"read", p, content[p]>>
  /\ UNCHANGED <<content, free, num_pages>>

Write(p, d) ==
  /\ content[p] # NoData
  /\ content' = [content EXCEPT ![p] = d]
  /\ out' = <<"write", p, d>>
  /\ UNCHANGED <<free, num_pages>>

Dispose(p) ==
  /\ content[p] # NoData
  /\ content' = [content EXCEPT ![p] = NoData]
  /\ free' = <<p>> \o free
  /\ out' = <<"dispose", p, ZeroData>>
  /\ UNCHANGED num_pages

\* A write or a dispose of a page that is not in use is refused.
Refuse(p) ==
  /\ content[p] = NoData
  /\ out' \in {<<c, p, NoData>> : c \in {"write", "dispose"}}
  /\ UNCHANGED <<content, free, num_pages>>

\* Flushing, reopening and failed calls are invisible apart from the answer.
Housekeeping ==
  /\ out' \in {<<c, 0, NoData>> : c \in {"flush", "open", "error"}}
  /\ UNCHANGED <<content, free, num_pages>>

Next ==
  \/ \E d \in Data : Allocate(d)
  \/ \E p \in StoreIds :
       \/ Read(p)
       \/ \E d \in Data : Write(p, d)
       \/ Dispose(p)
       \/ Refuse(p)
  \/ Housekeeping

Spec == Init /\ [][Next]_storeVars
=============================================================================
