------------------------------ MODULE LruList ------------------------------
(***************************************************************************)
(* The doubly linked list of src/storage/buffer/mod.rs that orders the     *)
(* frames of the pool by their last use: mru_head is the frame used last,  *)
(* lru_tail the one whose last use is the longest ago.  A list is a record *)
(* of the four fields; the operators return the list after the call.       *)
(***************************************************************************)
EXTENDS Integers, Sequences, Functions

CONSTANT Capacity   \* number of frames of the pool
ASSUME CapacityAssumption == Capacity \in Nat \ {0}

Frames == 0 .. Capacity - 1
NoFrame == -1       \* None

Lists == [prev : [Frames -> Frames \cup {NoFrame}],
          next : [Frames -> Frames \cup {NoFrame}],
          mru_head : Frames \cup {NoFrame},
          lru_tail : Frames \cup {NoFrame}]

EmptyList == [prev |-> [f \in Frames |-> NoFrame],
              next |-> [f \in Frames |-> NoFrame],
              mru_head |-> NoFrame,
              lru_tail |-> NoFrame]

LinkHead(l, f) ==
  LET old_head == l.mru_head IN
  [prev |-> [g \in Frames |-> CASE g = f -> NoFrame
                                [] g # f /\ g = old_head -> f
                                [] OTHER -> l.prev[g]],
   next |-> [l.next EXCEPT ![f] = old_head],
   mru_head |-> f,
   lru_tail |-> IF old_head = NoFrame THEN f ELSE l.lru_tail]

\* Mutated form: the neighbour behind f keeps pointing to f.
UnlinkOneWay(l, f) ==
  [prev |-> [l.prev EXCEPT ![f] = NoFrame],
   next |-> [g \in Frames |-> CASE g = f -> NoFrame
                                [] g # f /\ g = l.prev[f] -> l.next[f]
                                [] OTHER -> l.next[g]],
   mru_head |-> IF l.mru_head = f THEN l.next[f] ELSE l.mru_head,
   lru_tail |-> IF l.lru_tail = f THEN l.prev[f] ELSE l.lru_tail]

\* Also called for a frame that is not in the list, which it leaves alone.
Unlink(l, f) ==
  LET prev == l.prev[f]
      next == l.next[f]
  IN [prev |-> [g \in Frames |-> CASE g = f -> NoFrame
                                   [] g # f /\ g = next -> prev
                                   [] OTHER -> l.prev[g]],
      next |-> [g \in Frames |-> CASE g = f -> NoFrame
                                   [] g # f /\ g = prev -> next
                                   [] OTHER -> l.next[g]],
      mru_head |-> IF prev = NoFrame /\ l.mru_head = f THEN next ELSE l.mru_head,
      lru_tail |-> IF next = NoFrame /\ l.lru_tail = f THEN prev ELSE l.lru_tail]

Touch(l, f) == LinkHead(Unlink(l, f), f)

-----------------------------------------------------------------------------
\* The frames of l in the order of their last use, as both directions give it.
Orders == UNION {Injection(1 .. n, Frames) : n \in 0 .. Capacity}

IsOrder(l, s) ==
  /\ l.mru_head = IF s = <<>> THEN NoFrame ELSE s[1]
  /\ l.lru_tail = IF s = <<>> THEN NoFrame ELSE s[Len(s)]
  /\ \A i \in 1 .. Len(s) :
       /\ l.next[s[i]] = IF i = Len(s) THEN NoFrame ELSE s[i + 1]
       /\ l.prev[s[i]] = IF i = 1 THEN NoFrame ELSE s[i - 1]

Order(l) == CHOOSE s \in Orders : IsOrder(l, s)
=============================================================================
