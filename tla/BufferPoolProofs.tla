-------------------------- MODULE BufferPoolProofs --------------------------
(***************************************************************************)
(* Proofs about the buffer pool, for any number of threads, frames, files  *)
(* and pages, with failing page files and calls that stop half way: pins   *)
(* are guards, the frame of a guard keeps its page, and the page table     *)
(* agrees with the frames.                                                 *)
(***************************************************************************)
EXTENDS BufferPool, FiniteSetTheorems, WellFoundedInduction, TLAPS

-----------------------------------------------------------------------------
(* The list of frames, for every capacity: what the calls of the pool do   *)
(* to the fields prev, next, mru_head and lru_tail is what they mean for   *)
(* the order of the frames.  The runs of the pool have lists of two        *)
(* frames; here is the list with an inner element.                         *)

\* l is the list of the frames of s in this order, and of no others: a frame
\* that is not in s has no neighbours.
Ordered(l, s) ==
  /\ l \in Lists
  /\ s \in Orders
  /\ IsOrder(l, s)
  /\ \A f \in Frames \ Range(s) : l.prev[f] = NoFrame /\ l.next[f] = NoFrame

\* The order with f in front, and without its element k.
Pushed(f, s) == [i \in 1 .. Len(s) + 1 |-> IF i = 1 THEN f ELSE s[i - 1]]
Without(s, k) == [i \in 1 .. Len(s) - 1 |-> IF i < k THEN s[i] ELSE s[i + 1]]

(* Orders are sequences of frames in which no frame occurs twice. *)
LEMMA OrderIsSequence ==
  ASSUME NEW s \in Orders
  PROVE  /\ s \in Seq(Frames)
         /\ Len(s) \in Nat /\ DOMAIN s = 1 .. Len(s)
         /\ \A i \in 1 .. Len(s) : s[i] \in Frames
         /\ \A i, j \in 1 .. Len(s) : s[i] = s[j] => i = j
         /\ Range(s) = {s[i] : i \in 1 .. Len(s)}
<1>1. PICK n \in 0 .. Capacity : s \in Injection(1 .. n, Frames)
  BY DEF Orders
<1>2. n \in Nat /\ s \in [1 .. n -> Frames] /\ \A i, j \in 1 .. n : s[i] = s[j] => i = j
  BY <1>1, CapacityAssumption DEF Injection, IsInjective
<1>3. s \in Seq(Frames) /\ Len(s) = n
  BY <1>2
<1> QED BY <1>2, <1>3 DEF Range

(* There are no more frames than the capacity. *)
LEMMA SequenceIsOrder ==
  ASSUME NEW n \in Nat, NEW s \in [1 .. n -> Frames],
         \A i, j \in 1 .. n : s[i] = s[j] => i = j
  PROVE  s \in Orders /\ Len(s) = n
<1>1. s \in Injection(1 .. n, Frames)
  BY DEF Injection, IsInjective
<1>2. IsFiniteSet(Frames) /\ Cardinality(Frames) = Capacity
  BY CapacityAssumption, FS_Interval DEF Frames
<1>3. Cardinality(1 .. n) = n
  BY FS_Interval
<1>4. n <= Capacity
  BY <1>1, <1>2, <1>3, FS_Injection
<1> QED BY <1>1, <1>4, CapacityAssumption DEF Orders

(* link_head of a frame that is not in the list puts it in front. *)
THEOREM LinkHeadPutsInFront ==
  ASSUME NEW l, NEW s, Ordered(l, s), NEW f \in Frames \ Range(s)
  PROVE  /\ Ordered(LinkHead(l, f), Pushed(f, s))
         /\ Range(Pushed(f, s)) = Range(s) \cup {f}
<1> DEFINE new == LinkHead(l, f)
           t == Pushed(f, s)
           n == Len(s)
<1>1. /\ n \in Nat
      /\ \A i \in 1 .. n : s[i] \in Frames
      /\ \A i, j \in 1 .. n : s[i] = s[j] => i = j
      /\ Range(s) = {s[i] : i \in 1 .. n}
  BY OrderIsSequence DEF Ordered
<1>2. l \in Lists /\ IsOrder(l, s)
  BY DEF Ordered
<1> HIDE DEF n
<1>3. t = [i \in 1 .. n + 1 |-> IF i = 1 THEN f ELSE s[i - 1]]
  BY DEF Pushed, n
<1>4. t \in Orders /\ Len(t) = n + 1
  <2>1. t \in [1 .. n + 1 -> Frames]
    BY <1>1, <1>3
  <2>2. \A i, j \in 1 .. n + 1 : t[i] = t[j] => i = j
    BY <1>1, <1>3
  <2> HIDE DEF t
  <2> QED BY <1>1, <2>1, <2>2, SequenceIsOrder
<1>5. Range(t) = Range(s) \cup {f}
  <2>1. DOMAIN t = 1 .. n + 1
    BY <1>3
  <2>2. t[1] = f /\ \A i \in 1 .. n : i + 1 \in 1 .. n + 1 /\ t[i + 1] = s[i]
    BY <1>1, <1>3
  <2>3. \A i \in 1 .. n + 1 : i = 1 \/ (i - 1 \in 1 .. n /\ t[i] = s[i - 1])
    BY <1>1, <1>3
  <2> HIDE DEF t
  <2>4. 1 \in 1 .. n + 1
    BY <1>1
  <2>5. ASSUME NEW x \in Range(t)
        PROVE  x \in Range(s) \cup {f}
    <3>1. PICK i \in 1 .. n + 1 : x = t[i]
      BY <2>1 DEF Range
    <3> QED BY <1>1, <2>2, <2>3, <3>1
  <2>6. ASSUME NEW x \in Range(s) \cup {f}
        PROVE  x \in Range(t)
    <3>1. CASE x = f
      BY <2>1, <2>2, <2>4, <3>1 DEF Range
    <3>2. CASE x \in Range(s)
      <4>1. PICK i \in 1 .. n : x = s[i]
        BY <1>1, <3>2
      <4>2. i + 1 \in DOMAIN t /\ x = t[i + 1]
        BY <2>1, <2>2, <4>1
      <4> QED BY <4>2 DEF Range
    <3> QED BY <3>1, <3>2
  <2> QED BY <2>5, <2>6
<1>6. new \in Lists
  BY <1>2 DEF LinkHead, Lists, Frames, NoFrame
<1>7. /\ l.mru_head = (IF n = 0 THEN NoFrame ELSE s[1])
      /\ l.lru_tail = (IF n = 0 THEN NoFrame ELSE s[n])
      /\ \A i \in 1 .. n : /\ l.next[s[i]] = IF i = n THEN NoFrame ELSE s[i + 1]
                           /\ l.prev[s[i]] = IF i = 1 THEN NoFrame ELSE s[i - 1]
  <2>1. s = <<>> <=> n = 0
    BY OrderIsSequence DEF Ordered, n
  <2> QED BY <1>2, <2>1 DEF IsOrder, n
<1>8. /\ new.mru_head = f
      /\ new.lru_tail = IF n = 0 THEN f ELSE s[n]
      /\ \A g \in Frames : new.next[g] = IF g = f THEN l.mru_head ELSE l.next[g]
      /\ \A g \in Frames : new.prev[g] = IF g = f THEN NoFrame
                                         ELSE IF g = l.mru_head THEN f ELSE l.prev[g]
  <2>1. \A i \in 1 .. n : s[i] # NoFrame
    BY <1>1 DEF Frames, NoFrame
  <2>2. l.mru_head = NoFrame <=> n = 0
    BY <1>1, <1>7, <2>1
  <2> QED BY <1>2, <1>7, <2>2 DEF LinkHead, Lists
<1> HIDE DEF new
<1>9. IsOrder(new, t)
  <2>1. t[1] = f /\ t # <<>> /\ t[n + 1] = IF n = 0 THEN f ELSE s[n]
    BY <1>1, <1>3
  <2>2. ASSUME NEW i \in 1 .. n + 1
        PROVE  /\ new.next[t[i]] = IF i = n + 1 THEN NoFrame ELSE t[i + 1]
               /\ new.prev[t[i]] = IF i = 1 THEN NoFrame ELSE t[i - 1]
    <3>1. CASE i = 1
      <4>1. t[i] = f /\ (i # n + 1 => t[i + 1] = s[1])
        BY <1>1, <1>3, <3>1
      <4> HIDE DEF t
      <4> QED BY <1>1, <1>7, <1>8, <3>1, <4>1
    <3>2. CASE i # 1
      <4>1. /\ i - 1 \in 1 .. n /\ t[i] = s[i - 1]
            /\ i # n + 1 => t[i + 1] = s[i]
            /\ t[i - 1] = IF i = 2 THEN f ELSE s[i - 2]
        BY <1>1, <1>3, <3>2
      <4>2. s[i - 1] \in Frames /\ s[i - 1] # f
        BY <1>1, <4>1
      <4>3. l.mru_head = s[1] /\ (s[i - 1] = s[1] <=> i = 2)
        BY <1>1, <1>7, <4>1
      <4>4. new.next[s[i - 1]] = IF i = n + 1 THEN NoFrame ELSE s[i]
        BY <1>1, <1>7, <1>8, <4>1, <4>2
      <4>5. new.prev[s[i - 1]] = IF i = 2 THEN f ELSE s[i - 2]
        BY <1>1, <1>7, <1>8, <4>1, <4>2, <4>3
      <4> HIDE DEF t
      <4> QED BY <3>2, <4>1, <4>4, <4>5
    <3> QED BY <3>1, <3>2
  <2> HIDE DEF t
  <2> QED BY <1>1, <1>4, <1>8, <2>1, <2>2 DEF IsOrder
<1>10. ASSUME NEW g \in Frames \ Range(t)
       PROVE  new.prev[g] = NoFrame /\ new.next[g] = NoFrame
  <2>1. g # f /\ g \in Frames \ Range(s)
    BY <1>5
  <2>2. g # l.mru_head
    BY <1>1, <1>7, <2>1 DEF NoFrame, Frames
  <2> QED BY <1>8, <2>1, <2>2 DEF Ordered
<1> HIDE DEF t
<1> QED BY <1>4, <1>5, <1>6, <1>9, <1>10 DEF Ordered, new, t

(* unlink takes a frame out of the list, wherever it stands: its neighbours    *)
(* become neighbours.                                                          *)
THEOREM UnlinkTakesOut ==
  ASSUME NEW l, NEW s, Ordered(l, s), NEW k \in 1 .. Len(s)
  PROVE  /\ Ordered(Unlink(l, s[k]), Without(s, k))
         /\ Range(Without(s, k)) = Range(s) \ {s[k]}
<1> DEFINE f == s[k]
           new == Unlink(l, f)
           t == Without(s, k)
           n == Len(s)
           before == IF k = 1 THEN NoFrame ELSE s[k - 1]
           after == IF k = n THEN NoFrame ELSE s[k + 1]
<1>1. /\ n \in Nat /\ k \in 1 .. n
      /\ \A i \in 1 .. n : s[i] \in Frames /\ s[i] # NoFrame
      /\ \A i, j \in 1 .. n : s[i] = s[j] => i = j
      /\ Range(s) = {s[i] : i \in 1 .. n}
  BY OrderIsSequence DEF Ordered, Frames, NoFrame
<1>2. l \in Lists /\ IsOrder(l, s)
  BY DEF Ordered
<1> HIDE DEF n
<1>3. /\ t = [i \in 1 .. n - 1 |-> IF i < k THEN s[i] ELSE s[i + 1]]
      /\ n - 1 \in Nat
  BY <1>1 DEF Without, n
<1>a. \A i \in 1 .. n - 1 : i \in 1 .. n /\ i + 1 \in 1 .. n
  BY <1>1
<1>b. /\ DOMAIN t = 1 .. n - 1
       /\ \A i \in 1 .. n - 1 : (i < k => t[i] = s[i]) /\ (~(i < k) => t[i] = s[i + 1])
  BY <1>3
<1>4. t \in Orders /\ Len(t) = n - 1
  <2>1. \A i \in 1 .. n - 1 : (IF i < k THEN s[i] ELSE s[i + 1]) \in Frames
    BY <1>1, <1>a
  <2>2. t \in [1 .. n - 1 -> Frames]
    BY <1>3, <2>1
  <2>3. \A i, j \in 1 .. n - 1 : t[i] = t[j] => i = j
    BY <1>1, <1>3
  <2> HIDE DEF t
  <2> QED BY <1>3, <2>2, <2>3, SequenceIsOrder
<1>5. Range(t) = Range(s) \ {f}
  <2>1. DOMAIN t = 1 .. n - 1
    BY <1>3
  <2>2. ASSUME NEW i \in 1 .. n - 1
        PROVE  \E j \in 1 .. n : j # k /\ t[i] = s[j]
    <3> HIDE DEF t
    <3>1. CASE i < k
      BY <1>1, <1>a, <1>b, <3>1
    <3>2. CASE ~(i < k)
      <4>1. i + 1 \in 1 .. n /\ i + 1 # k /\ t[i] = s[i + 1]
        BY <1>1, <1>a, <1>b, <3>2
      <4> QED BY <4>1
    <3> QED BY <3>1, <3>2
  <2>3. \A j \in 1 .. n : j # k => \E i \in 1 .. n - 1 : t[i] = s[j]
    <3> SUFFICES ASSUME NEW j \in 1 .. n, j # k
                 PROVE  \E i \in 1 .. n - 1 : t[i] = s[j]
      OBVIOUS
    <3>1. CASE j < k
      BY <1>1, <1>3, <3>1
    <3>2. CASE j > k
      <4>1. j - 1 \in 1 .. n - 1 /\ t[j - 1] = s[j]
        BY <1>1, <1>3, <3>2
      <4> QED BY <4>1
    <3> QED BY <1>1, <3>1, <3>2
  <2> HIDE DEF t
  <2>4. ASSUME NEW x \in Range(t)
        PROVE  x \in Range(s) \ {f}
    <3>1. PICK i \in 1 .. n - 1 : x = t[i]
      BY <2>1 DEF Range
    <3> QED BY <1>1, <2>2, <3>1
  <2>5. ASSUME NEW x \in Range(s) \ {f}
        PROVE  x \in Range(t)
    <3>1. PICK j \in 1 .. n : x = s[j] /\ j # k
      BY <1>1
    <3>2. PICK i \in 1 .. n - 1 : t[i] = s[j]
      BY <2>3, <3>1
    <3> QED BY <2>1, <3>1, <3>2 DEF Range
  <2> QED BY <2>4, <2>5
<1>6. new \in Lists
  BY <1>1, <1>2 DEF Unlink, Lists, NoFrame
<1>7. /\ l.mru_head = s[1] /\ l.lru_tail = s[n]
      /\ \A i \in 1 .. n : /\ l.next[s[i]] = IF i = n THEN NoFrame ELSE s[i + 1]
                           /\ l.prev[s[i]] = IF i = 1 THEN NoFrame ELSE s[i - 1]
  <2>1. s # <<>>
    BY <1>1, OrderIsSequence DEF Ordered, n
  <2> QED BY <1>2, <2>1 DEF IsOrder, n
<1>8. l.prev[f] = before /\ l.next[f] = after /\ f \in Frames
  BY <1>1, <1>7
<1>9. (l.mru_head = f <=> k = 1) /\ (l.lru_tail = f <=> k = n)
  BY <1>1, <1>7
<1>10. (before = NoFrame <=> k = 1) /\ (after = NoFrame <=> k = n)
  BY <1>1
<1> HIDE DEF before, after
<1>11. /\ new.mru_head = IF k = 1 THEN after ELSE s[1]
       /\ new.lru_tail = IF k = n THEN before ELSE s[n]
       /\ \A g \in Frames : new.next[g] = IF g = f THEN NoFrame
                                           ELSE IF g = before THEN after ELSE l.next[g]
       /\ \A g \in Frames : new.prev[g] = IF g = f THEN NoFrame
                                           ELSE IF g = after THEN before ELSE l.prev[g]
  BY <1>7, <1>8, <1>9, <1>10 DEF Unlink
<1> HIDE DEF new
<1>12. IsOrder(new, t)
  <2>1. new.mru_head = IF n = 1 THEN NoFrame ELSE t[1]
    BY <1>1, <1>3, <1>11 DEF after
  <2>2. new.lru_tail = IF n = 1 THEN NoFrame ELSE t[n - 1]
    BY <1>1, <1>3, <1>11 DEF before
  <2>3. ASSUME NEW i \in 1 .. n - 1
        PROVE  /\ new.next[t[i]] = IF i = n - 1 THEN NoFrame ELSE t[i + 1]
               /\ new.prev[t[i]] = IF i = 1 THEN NoFrame ELSE t[i - 1]
    <3> HIDE DEF t
    <3>0. i \in 1 .. n /\ i + 1 \in 1 .. n /\ i \in Nat /\ k \in Nat
      BY <1>1
    <3>1. CASE i < k
      <4>1. /\ t[i] = s[i] /\ s[i] \in Frames /\ s[i] # f
            /\ l.next[s[i]] = s[i + 1]
            /\ l.prev[s[i]] = IF i = 1 THEN NoFrame ELSE s[i - 1]
        BY <1>1, <1>7, <1>b, <3>0, <3>1
      <4>2. (s[i] = before <=> i + 1 = k) /\ s[i] # after
        BY <1>1, <3>0, <3>1 DEF before, after
      <4>3. new.next[s[i]] = IF i + 1 = k THEN after ELSE s[i + 1]
        BY <1>11, <4>1, <4>2
      <4>4. i # n - 1 => i + 1 \in 1 .. n - 1 /\ t[i + 1] = IF i + 1 = k THEN s[k + 1] ELSE s[i + 1]
        BY <1>1, <1>b, <3>0, <3>1
      <4>5. i + 1 = k => after = IF i = n - 1 THEN NoFrame ELSE s[k + 1]
        BY <1>1, <3>0 DEF after
      <4>6. i + 1 # k => i # n - 1
        BY <1>1, <3>0, <3>1
      <4>7. new.next[s[i]] = IF i = n - 1 THEN NoFrame ELSE t[i + 1]
        BY <4>3, <4>4, <4>5, <4>6
      <4>8. new.prev[s[i]] = IF i = 1 THEN NoFrame ELSE s[i - 1]
        BY <1>11, <4>1, <4>2
      <4>9. i # 1 => t[i - 1] = s[i - 1]
        BY <1>1, <1>b, <3>0, <3>1
      <4> QED BY <4>1, <4>7, <4>8, <4>9
    <3>2. CASE ~(i < k)
      <4>1. /\ t[i] = s[i + 1] /\ s[i + 1] \in Frames /\ s[i + 1] # f
            /\ l.next[s[i + 1]] = IF i + 1 = n THEN NoFrame ELSE s[i + 2]
            /\ l.prev[s[i + 1]] = s[i]
        BY <1>1, <1>7, <1>b, <3>0, <3>2
      <4>2. (s[i + 1] = after <=> i = k) /\ s[i + 1] # before
        BY <1>1, <3>0, <3>2 DEF before, after
      <4>3. new.next[s[i + 1]] = IF i + 1 = n THEN NoFrame ELSE s[i + 2]
        BY <1>11, <4>1, <4>2
      <4>4. i # n - 1 => i + 1 \in 1 .. n - 1 /\ t[i + 1] = s[i + 2]
        BY <1>1, <1>b, <3>0, <3>2
      <4>5. i + 1 = n <=> i = n - 1
        BY <1>1, <3>0
      <4>6. new.next[t[i]] = IF i = n - 1 THEN NoFrame ELSE t[i + 1]
        BY <4>1, <4>3, <4>4, <4>5
      <4>7. new.prev[s[i + 1]] = IF i = k THEN before ELSE s[i]
        BY <1>11, <4>1, <4>2
      <4>8. i # 1 => t[i - 1] = IF i = k THEN s[k - 1] ELSE s[i]
        BY <1>1, <1>b, <3>0, <3>2
      <4>9. i = k => before = IF i = 1 THEN NoFrame ELSE s[k - 1]
        BY DEF before
      <4>10. i # k => i # 1
        BY <1>1, <3>0, <3>2
      <4> QED BY <4>1, <4>6, <4>7, <4>8, <4>9, <4>10
    <3> QED BY <3>1, <3>2
  <2>4. t = <<>> <=> n = 1
    BY <1>1, <1>3, <1>4, OrderIsSequence
  <2> HIDE DEF t
  <2>5. Len(t) = n - 1
    BY <1>1, <1>4
  <2>6. /\ new.mru_head = IF t = <<>> THEN NoFrame ELSE t[1]
        /\ new.lru_tail = IF t = <<>> THEN NoFrame ELSE t[Len(t)]
    BY <2>1, <2>2, <2>4, <2>5
  <2>7. \A i \in 1 .. Len(t) :
          /\ new.next[t[i]] = IF i = Len(t) THEN NoFrame ELSE t[i + 1]
          /\ new.prev[t[i]] = IF i = 1 THEN NoFrame ELSE t[i - 1]
    BY <2>3, <2>5
  <2> QED BY <2>6, <2>7 DEF IsOrder
<1>13. ASSUME NEW g \in Frames \ Range(t)
       PROVE  new.prev[g] = NoFrame /\ new.next[g] = NoFrame
  <2>1. CASE g = f
    BY <1>11, <2>1
  <2>2. CASE g # f
    <3>1. g \in Frames \ Range(s)
      BY <1>5, <2>2
    <3>2. g # before /\ g # after
      BY <1>1, <3>1 DEF before, after, NoFrame, Frames
    <3> QED BY <1>11, <2>2, <3>1, <3>2 DEF Ordered
  <2> QED BY <2>1, <2>2
<1> HIDE DEF t
<1> QED BY <1>4, <1>5, <1>6, <1>12, <1>13 DEF Ordered, new, t

(* unlink of a frame that is not in the list does nothing. *)
THEOREM UnlinkOfStranger ==
  ASSUME NEW l, NEW s, Ordered(l, s), NEW f \in Frames \ Range(s)
  PROVE  Unlink(l, f) = l
<1>1. l \in Lists /\ l.prev[f] = NoFrame /\ l.next[f] = NoFrame
  BY DEF Ordered
<1>2. /\ l.mru_head \in Range(s) \cup {NoFrame}
      /\ l.lru_tail \in Range(s) \cup {NoFrame}
  <2>1. CASE s = <<>>
    BY <2>1 DEF Ordered, IsOrder
  <2>2. CASE s # <<>>
    <3>1. 1 \in 1 .. Len(s) /\ Len(s) \in 1 .. Len(s)
      BY <2>2, OrderIsSequence DEF Ordered
    <3> QED BY <2>2, <3>1, OrderIsSequence DEF Ordered, IsOrder
  <2> QED BY <2>1, <2>2
<1>3. l.mru_head # f /\ l.lru_tail # f
  BY <1>2 DEF Frames, NoFrame
<1>4. /\ Unlink(l, f).prev = l.prev /\ Unlink(l, f).next = l.next
      /\ Unlink(l, f).mru_head = l.mru_head /\ Unlink(l, f).lru_tail = l.lru_tail
  <2> DEFINE new == Unlink(l, f)
  <2>1. /\ DOMAIN l.prev = Frames /\ DOMAIN l.next = Frames
        /\ l.prev = [g \in Frames |-> l.prev[g]] /\ l.next = [g \in Frames |-> l.next[g]]
    BY <1>1 DEF Lists
  <2>2. \A g \in Frames : g # NoFrame
    BY DEF Frames, NoFrame
  <2>3. new.prev = [g \in Frames |-> IF g = f THEN NoFrame ELSE l.prev[g]]
    BY <1>1, <2>2 DEF Unlink
  <2>4. new.next = [g \in Frames |-> IF g = f THEN NoFrame ELSE l.next[g]]
    BY <1>1, <2>2 DEF Unlink
  <2>5. new.prev = l.prev
    BY <1>1, <2>1, <2>3
  <2>6. new.next = l.next
    BY <1>1, <2>1, <2>4
  <2>7. new.mru_head = l.mru_head /\ new.lru_tail = l.lru_tail
    BY <1>1, <1>3 DEF Unlink
  <2> QED BY <2>5, <2>6, <2>7
<1>5. Unlink(l, f) = [prev |-> Unlink(l, f).prev, next |-> Unlink(l, f).next,
                      mru_head |-> Unlink(l, f).mru_head, lru_tail |-> Unlink(l, f).lru_tail]
  BY DEF Unlink
<1>6. l = [prev |-> l.prev, next |-> l.next, mru_head |-> l.mru_head, lru_tail |-> l.lru_tail]
  BY <1>1 DEF Lists
<1> QED BY <1>4, <1>5, <1>6

(* touch brings a frame to the front, from any place in the list or from       *)
(* outside it.                                                                 *)
THEOREM TouchBringsToFront ==
  ASSUME NEW l, NEW s, Ordered(l, s), NEW f \in Frames
  PROVE  \E t : /\ Ordered(Touch(l, f), t)
               /\ Range(t) = Range(s) \cup {f}
               /\ t[1] = f
<1>1. ASSUME NEW m, NEW u, Ordered(m, u), f \notin Range(u), Range(u) \cup {f} = Range(s) \cup {f},
             m = Unlink(l, f)
      PROVE  \E t : Ordered(Touch(l, f), t) /\ Range(t) = Range(s) \cup {f} /\ t[1] = f
  <2>1. Ordered(LinkHead(m, f), Pushed(f, u)) /\ Range(Pushed(f, u)) = Range(u) \cup {f}
    BY <1>1, LinkHeadPutsInFront
  <2>2. Pushed(f, u)[1] = f
    BY <1>1, OrderIsSequence DEF Pushed, Ordered
  <2> QED BY <1>1, <2>1, <2>2 DEF Touch
<1>2. CASE f \in Range(s)
  <2>1. PICK k \in 1 .. Len(s) : s[k] = f
    BY <1>2, OrderIsSequence DEF Ordered
  <2>2. /\ Ordered(Unlink(l, f), Without(s, k))
        /\ Range(Without(s, k)) = Range(s) \ {f}
    BY <2>1, UnlinkTakesOut
  <2> QED BY <1>1, <2>2
<1>3. CASE f \notin Range(s)
  BY <1>1, <1>3, UnlinkOfStranger
<1> QED BY <1>2, <1>3

(* The fields determine the order: what Order chooses is what the list is. *)
THEOREM OrderIsUnique ==
  ASSUME NEW l, NEW s, Ordered(l, s)
  PROVE  Order(l) = s
<1>1. ASSUME NEW a \in Orders, IsOrder(l, a), NEW b \in Orders, IsOrder(l, b)
      PROVE  \A i \in 1 .. Len(a) : i \in 1 .. Len(b) /\ b[i] = a[i]
  <2> DEFINE bad == {i \in 1 .. Len(a) : ~(i \in 1 .. Len(b) /\ b[i] = a[i])}
  <2>1. /\ Len(a) \in Nat /\ Len(b) \in Nat
        /\ \A i \in 1 .. Len(a) : a[i] # NoFrame
        /\ \A i \in 1 .. Len(b) : b[i] # NoFrame
        /\ a = <<>> <=> Len(a) = 0
        /\ b = <<>> <=> Len(b) = 0
    BY <1>1, OrderIsSequence DEF Frames, NoFrame
  <2>2. SUFFICES ASSUME bad # {} PROVE FALSE
    OBVIOUS
  <2>3. bad \subseteq Nat
    BY <2>1
  <2>4. PICK i \in bad : \A j \in bad : <<j, i>> \notin OpToRel(<, Nat)
    BY <2>2, <2>3, NatLessThanWellFounded, WFMin
  <2>5. \A j \in bad : ~(j < i)
    BY <2>3, <2>4 DEF OpToRel
  <2>6. i \in 1 .. Len(a) /\ ~(i \in 1 .. Len(b) /\ b[i] = a[i])
    BY <2>4
  <2>7. CASE i = 1
    <3>1. l.mru_head = a[1] /\ a[1] # NoFrame
      BY <1>1, <2>1, <2>6, <2>7 DEF IsOrder
    <3>2. 1 \in 1 .. Len(b) /\ l.mru_head = b[1]
      BY <1>1, <2>1, <3>1 DEF IsOrder
    <3> QED BY <2>6, <2>7, <3>1, <3>2
  <2>8. CASE i # 1
    <3> DEFINE j == i - 1
    <3>1. j \in 1 .. Len(a) /\ j < i /\ j # Len(a) /\ j + 1 = i
      BY <2>1, <2>6, <2>8
    <3>2. j \in 1 .. Len(b) /\ b[j] = a[j]
      BY <2>5, <3>1
    <3> HIDE DEF j
    <3>3. l.next[a[j]] = a[i] /\ a[i] # NoFrame
      BY <1>1, <2>1, <2>6, <3>1 DEF IsOrder
    <3>4. l.next[b[j]] = IF j = Len(b) THEN NoFrame ELSE b[i]
      BY <1>1, <3>1, <3>2 DEF IsOrder
    <3>5. j # Len(b) /\ b[i] = a[i]
      BY <3>2, <3>3, <3>4
    <3> QED BY <2>1, <2>6, <3>1, <3>2, <3>5
  <2> QED BY <2>7, <2>8
<1>2. s \in Orders /\ IsOrder(l, s)
  BY DEF Ordered
<1>3. Order(l) \in Orders /\ IsOrder(l, Order(l))
  BY <1>2 DEF Order
<1>4. /\ \A i \in 1 .. Len(s) : i \in 1 .. Len(Order(l)) /\ Order(l)[i] = s[i]
      /\ \A i \in 1 .. Len(Order(l)) : i \in 1 .. Len(s)
  BY <1>1, <1>2, <1>3
<1>5. /\ Len(s) \in Nat /\ Len(Order(l)) \in Nat
      /\ s \in Seq(Frames) /\ Order(l) \in Seq(Frames)
  BY <1>2, <1>3, OrderIsSequence
<1>6. Len(s) = Len(Order(l))
  BY <1>4, <1>5
<1> QED BY <1>4, <1>5, <1>6

-----------------------------------------------------------------------------
(* The inductive invariant.                                                *)

\* Every frame is in the list or in the free list, and once.
Partitioned(l, free) ==
  /\ free \in Seq(Frames)
  /\ IsInjective(free)
  /\ \E s : /\ Ordered(l, s)
            /\ Range(s) \cup Range(free) = Frames
            /\ Range(s) \cap Range(free) = {}

FreeFramesEmpty ==
  \A f \in Range(free_list) : key[f] = NoKey /\ pin_count[f] = 0

\* The pages of a file are its first ones, and files not yet registered have none.
PagesContiguous ==
  /\ \A id \in files : id < next_file_id
  /\ \A k \in Keys : k[1] >= next_file_id => store[k] = NoData
  /\ \A id \in FileIds : \E n \in Nat : \A p \in PageIds : store[<<id, p>>] # NoData <=> p < n

\* The frames that a call has still to see are frames of its file, and all of
\* them if it evicts: none of these is pinned.
CallKnowsFrames ==
  call # Idle =>
    /\ call.file \in files
    /\ \A f \in call.todo : key[f] \in PagesOf(call.file)
    /\ call.op # "force" =>
         FramesOf(PagesOf(call.file)) = call.todo /\ call.todo \subseteq Unpinned

LocksHaveGuards ==
  \A t \in Threads : lock[t] # "none" => guard[t] # NoGuard

PoolInv ==
  /\ TypeOK
  /\ PinsMatchGuards
  /\ GuardStable
  /\ PageTableInverse
  /\ Partitioned(list, free_list)
  /\ FreeFramesEmpty
  /\ PagesContiguous
  /\ CallKnowsFrames
  /\ LocksHaveGuards

-----------------------------------------------------------------------------
(* The list and the free list.                                             *)

(* Touching a frame that is not free keeps the frames partitioned. *)
LEMMA TouchKeeps ==
  ASSUME NEW l, NEW free, Partitioned(l, free), NEW f \in Frames \ Range(free)
  PROVE  Partitioned(Touch(l, f), free) /\ Touch(l, f) \in Lists
<1>1. PICK s : /\ Ordered(l, s)
               /\ Range(s) \cup Range(free) = Frames
               /\ Range(s) \cap Range(free) = {}
  BY DEF Partitioned
<1>2. PICK t : Ordered(Touch(l, f), t) /\ Range(t) = Range(s) \cup {f}
  BY <1>1, TouchBringsToFront
<1>3. Range(t) = Range(s)
  BY <1>1, <1>2
<1> QED BY <1>1, <1>2, <1>3 DEF Partitioned, Ordered

(* The frames of a free list with one more. *)
LEMMA Appended ==
  ASSUME NEW free \in Seq(Frames), IsInjective(free), NEW f \in Frames \ Range(free)
  PROVE  /\ Append(free, f) \in Seq(Frames)
         /\ IsInjective(Append(free, f))
         /\ Range(Append(free, f)) = Range(free) \cup {f}
<1> DEFINE n == Len(free)
           u == Append(free, f)
<1>1. /\ n \in Nat /\ DOMAIN free = 1 .. n
      /\ u \in Seq(Frames) /\ DOMAIN u = 1 .. n + 1
      /\ u[n + 1] = f /\ \A i \in 1 .. n : u[i] = free[i]
  OBVIOUS
<1> HIDE DEF u, n
<1>2. \A i \in 1 .. n + 1 : i = n + 1 \/ i \in 1 .. n
  BY <1>1
<1>3. 1 .. n \subseteq 1 .. n + 1 /\ n + 1 \in 1 .. n + 1
  BY <1>1
<1>4. \A i \in 1 .. n : free[i] # f
  BY <1>1 DEF Range
<1>5. IsInjective(u)
  BY <1>1, <1>2, <1>4 DEF IsInjective
<1>6. Range(u) \subseteq Range(free) \cup {f}
  BY <1>1, <1>2 DEF Range
<1>7. Range(free) \cup {f} \subseteq Range(u)
  BY <1>1, <1>3 DEF Range
<1> QED BY <1>1, <1>5, <1>6, <1>7 DEF u

(* And with one less, the last. *)
LEMMA Popped ==
  ASSUME NEW free \in Seq(Frames), IsInjective(free), free # <<>>
  PROVE  /\ Front(free) \in Seq(Frames)
         /\ IsInjective(Front(free))
         /\ Last(free) \in Frames
         /\ Range(free) = Range(Front(free)) \cup {Last(free)}
         /\ Last(free) \notin Range(Front(free))
<1> DEFINE n == Len(free)
           u == Front(free)
<1>1. /\ n \in Nat \ {0} /\ DOMAIN free = 1 .. n
      /\ u \in Seq(Frames) /\ DOMAIN u = 1 .. n - 1
      /\ \A i \in 1 .. n - 1 : u[i] = free[i]
      /\ Last(free) = free[n]
      /\ free[n] \in Frames
  BY DEF Front, Last
<1> HIDE DEF u, n
<1>2. \A i \in 1 .. n : i = n \/ i \in 1 .. n - 1
  BY <1>1
<1>3. 1 .. n - 1 \subseteq 1 .. n /\ n \in 1 .. n /\ n \notin 1 .. n - 1
  BY <1>1
<1>4. IsInjective(u)
  BY <1>1, <1>3 DEF IsInjective
<1>5. Last(free) \notin Range(u)
  BY <1>1, <1>3 DEF IsInjective, Range
<1>6. Range(free) \subseteq Range(u) \cup {Last(free)}
  BY <1>1, <1>2 DEF Range
<1>7. Range(u) \cup {Last(free)} \subseteq Range(free)
  BY <1>1, <1>3 DEF Range
<1> QED BY <1>1, <1>4, <1>5, <1>6, <1>7 DEF u

(* evict_frame moves a frame from the list to the free list. *)
LEMMA ReleaseKeeps ==
  ASSUME NEW l, NEW free, Partitioned(l, free), NEW f \in Frames \ Range(free)
  PROVE  /\ Partitioned(Unlink(l, f), Append(free, f))
         /\ Unlink(l, f) \in Lists
         /\ Range(Append(free, f)) = Range(free) \cup {f}
<1>1. PICK s : /\ Ordered(l, s)
               /\ Range(s) \cup Range(free) = Frames
               /\ Range(s) \cap Range(free) = {}
  BY DEF Partitioned
<1>2. PICK k \in 1 .. Len(s) : s[k] = f
  BY <1>1, OrderIsSequence DEF Ordered
<1>3. /\ Ordered(Unlink(l, f), Without(s, k))
      /\ Range(Without(s, k)) = Range(s) \ {f}
  BY <1>1, <1>2, UnlinkTakesOut
<1>4. /\ Append(free, f) \in Seq(Frames)
      /\ IsInjective(Append(free, f))
      /\ Range(Append(free, f)) = Range(free) \cup {f}
  BY Appended DEF Partitioned
<1>5. /\ Range(Without(s, k)) \cup Range(Append(free, f)) = Frames
      /\ Range(Without(s, k)) \cap Range(Append(free, f)) = {}
  BY <1>1, <1>3, <1>4
<1> QED BY <1>3, <1>4, <1>5 DEF Partitioned, Ordered

(* A set of indices has a greatest element, and a set of frames a least one. *)
LEMMA GreatestIndex ==
  ASSUME NEW n \in Nat, NEW S, S \subseteq 1 .. n, S # {}
  PROVE  Max(S) \in S
<1> DEFINE T == {k \in Nat : \E i \in S : k = n - i}
<1>1. T \subseteq Nat /\ T # {}
  <2>1. PICK i \in S : TRUE
    OBVIOUS
  <2>2. n - i \in Nat
    BY <2>1
  <2> QED BY <2>2
<1>2. PICK k \in T : \A j \in T : <<j, k>> \notin OpToRel(<, Nat)
  BY <1>1, NatLessThanWellFounded, WFMin
<1>3. \A j \in T : ~(j < k)
  BY <1>1, <1>2 DEF OpToRel
<1>4. PICK i \in S : k = n - i
  OBVIOUS
<1>5. ASSUME NEW j \in S
      PROVE  i >= j
  <2>1. n - j \in T /\ i \in Int /\ j \in Int
    OBVIOUS
  <2>2. ~(n - j < n - i)
    BY <1>3, <1>4, <2>1
  <2> QED BY <2>1, <2>2
<1> QED BY <1>5 DEF Max

LEMMA LeastFrame ==
  ASSUME NEW S \in SUBSET Frames, S # {}
  PROVE  Min(S) \in S
<1>1. S \subseteq Nat /\ \A i \in S : i \in Int
  BY DEF Frames
<1>2. PICK k \in S : \A j \in S : <<j, k>> \notin OpToRel(<, Nat)
  BY <1>1, NatLessThanWellFounded, WFMin
<1>3. \A j \in S : ~(j < k)
  BY <1>1, <1>2 DEF OpToRel
<1>4. \A j \in S : k <= j
  BY <1>1, <1>3
<1> QED BY <1>4 DEF Min

(* acquire_frame takes an unpinned frame, which is then in the list. *)
LEMMA Acquired ==
  ASSUME TypeOK, Partitioned(list, free_list), FreeFramesEmpty, FrameAvailable
  PROVE  /\ AcquiredFrame \in Frames
         /\ pin_count[AcquiredFrame] = 0
         /\ Partitioned(AcquiredList, AcquiredFreeList)
         /\ AcquiredList \in Lists
         /\ AcquiredFrame \notin Range(AcquiredFreeList)
         /\ Range(AcquiredFreeList) \subseteq Range(free_list)
<1>1. PICK s : /\ Ordered(list, s)
               /\ Range(s) \cup Range(free_list) = Frames
               /\ Range(s) \cap Range(free_list) = {}
  BY DEF Partitioned
<1>2. CASE free_list # <<>>
  <2> DEFINE f == Last(free_list)
  <2>1. AcquiredFrame = f /\ AcquiredList = LinkHead(list, f) /\ AcquiredFreeList = Front(free_list)
    BY <1>2 DEF AcquiredFrame, AcquiredList, AcquiredFreeList
  <2>2. /\ Front(free_list) \in Seq(Frames)
        /\ IsInjective(Front(free_list))
        /\ f \in Frames
        /\ Range(free_list) = Range(Front(free_list)) \cup {f}
        /\ f \notin Range(Front(free_list))
    BY <1>2, Popped DEF Partitioned
  <2> HIDE DEF f
  <2>3. pin_count[f] = 0
    BY <2>2 DEF FreeFramesEmpty
  <2>4. f \in Frames \ Range(s)
    BY <1>1, <2>2
  <2>5. /\ Ordered(LinkHead(list, f), Pushed(f, s))
        /\ Range(Pushed(f, s)) = Range(s) \cup {f}
    BY <1>1, <2>4, LinkHeadPutsInFront
  <2>6. /\ Range(Pushed(f, s)) \cup Range(Front(free_list)) = Frames
        /\ Range(Pushed(f, s)) \cap Range(Front(free_list)) = {}
    BY <1>1, <2>2, <2>5
  <2>7. Partitioned(LinkHead(list, f), Front(free_list)) /\ LinkHead(list, f) \in Lists
    BY <2>2, <2>5, <2>6 DEF Partitioned, Ordered
  <2> QED BY <2>1, <2>2, <2>3, <2>7
<1>3. CASE free_list = <<>>
  <2> DEFINE f == Victim
             S == {i \in DOMAIN s : s[i] \in Unpinned}
  <2>1. AcquiredFrame = f /\ AcquiredFreeList = free_list
        /\ AcquiredList = Touch(Unlink(list, f), f)
    BY <1>3 DEF AcquiredFrame, AcquiredList, AcquiredFreeList
  <2>2. Order(list) = s
    BY <1>1, OrderIsUnique
  <2>3. Len(s) \in Nat /\ DOMAIN s = 1 .. Len(s) /\ \A i \in 1 .. Len(s) : s[i] \in Frames
    BY <1>1, OrderIsSequence DEF Ordered
  <2>4. S # {} /\ S \subseteq 1 .. Len(s)
    BY <1>3, <2>2, <2>3 DEF FrameAvailable, Range
  <2>5. Max(S) \in S /\ f = s[Max(S)]
    <3> HIDE DEF S
    <3>1. Max(S) \in S
      BY <2>3, <2>4, GreatestIndex
    <3> QED BY <2>2, <3>1 DEF S, Victim
  <2> HIDE DEF S
  <2>6. f \in Frames /\ pin_count[f] = 0 /\ f \in Range(s)
    BY <2>3, <2>5 DEF S, Unpinned, Range
  <2> HIDE DEF f
  <2>7. f \notin Range(free_list)
    BY <1>1, <2>6
  <2>8. PICK k \in 1 .. Len(s) : s[k] = f
    BY <2>3, <2>6 DEF Range
  <2>9. Ordered(Unlink(list, f), Without(s, k)) /\ Range(Without(s, k)) = Range(s) \ {f}
    BY <1>1, <2>8, UnlinkTakesOut
  <2>10. PICK t : Ordered(AcquiredList, t) /\ Range(t) = (Range(s) \ {f}) \cup {f}
    BY <2>1, <2>6, <2>9, TouchBringsToFront
  <2>11. Range(t) = Range(s)
    BY <2>6, <2>10
  <2>12. Partitioned(AcquiredList, free_list) /\ AcquiredList \in Lists
    BY <1>1, <2>10, <2>11 DEF Partitioned, Ordered
  <2> QED BY <2>1, <2>6, <2>7, <2>12
<1> QED BY <1>2, <1>3

-----------------------------------------------------------------------------
(* Guards, pins and pages.                                                 *)

Guards == [frame : Frames, key : Keys, mode : {"read", "write"}]

(* A guard has a frame and a page, and a frame without a page has no key of one. *)
LEMMA GuardFacts ==
  ASSUME TypeOK
  PROVE  /\ NoKey \notin Keys
         /\ NoFrame \notin Frames
         /\ NoGuard \notin Guards
         /\ \A t \in Threads : guard[t] = NoGuard \/ guard[t] \in Guards
         /\ \A t \in Threads : guard[t].frame \in Frames <=> guard[t] # NoGuard
<1>1. NoKey \notin Keys
  BY DEF Keys, NoKey
<1>2. NoFrame \notin Frames
  BY DEF NoFrame, Frames
<1>3. NoGuard \notin Guards
  BY <1>2 DEF NoGuard, Guards
<1>4. \A t \in Threads : guard[t] = NoGuard \/ guard[t] \in Guards
  BY DEF TypeOK, Guards
<1>5. ASSUME NEW t \in Threads
      PROVE  guard[t].frame \in Frames <=> guard[t] # NoGuard
  <2>1. CASE guard[t] = NoGuard
    BY <1>2, <2>1 DEF NoGuard
  <2>2. CASE guard[t] \in Guards
    BY <1>3, <2>2 DEF Guards
  <2> QED BY <1>4, <2>1, <2>2
<1> QED BY <1>1, <1>2, <1>3, <1>4, <1>5

(* The guards on a frame that is not pinned: none. *)
LEMMA NoHolder ==
  ASSUME TypeOK, PinsMatchGuards, NEW f \in Frames, pin_count[f] = 0, NEW t \in Threads
  PROVE  guard[t].frame # f
<1> DEFINE H == {u \in Threads : guard[u].frame = f}
<1>1. IsFiniteSet(H)
  BY PoolAssumption, FS_Subset
<1>2. Cardinality(H) = 0
  BY DEF PinsMatchGuards
<1>3. H = {}
  BY <1>1, <1>2, FS_EmptySet
<1> QED BY <1>3

(* A new guard is one more pin of its frame, and a dropped one a pin less. *)
LEMMA GuardTaken ==
  ASSUME TypeOK, PinsMatchGuards, NEW t \in Threads, NEW f \in Frames, NEW x,
         guard[t] = NoGuard, x.frame = f,
         guard' = [guard EXCEPT ![t] = x],
         pin_count' = [pin_count EXCEPT ![f] = pin_count[f] + 1]
  PROVE  PinsMatchGuards'
<1> SUFFICES ASSUME NEW h \in Frames
             PROVE  pin_count'[h] = Cardinality({u \in Threads : guard'[u].frame = h})
  BY DEF PinsMatchGuards
<1> DEFINE H == {u \in Threads : guard[u].frame = h}
           new == {u \in Threads : guard'[u].frame = h}
<1>1. IsFiniteSet(H) /\ pin_count[h] = Cardinality(H)
  BY PoolAssumption, FS_Subset DEF PinsMatchGuards
<1>2. guard \in [Threads -> Guards \cup {NoGuard}] /\ pin_count \in [Frames -> Nat]
  BY DEF TypeOK, Guards
<1>3. t \notin H
  BY GuardFacts
<1>4. \A u \in Threads : guard'[u] = IF u = t THEN x ELSE guard[u]
  BY <1>2
<1>5. CASE h = f
  <2>1. new = H \cup {t}
    BY <1>4, <1>5
  <2>2. Cardinality(H \cup {t}) = Cardinality(H) + 1
    BY <1>1, <1>3, FS_AddElement
  <2> QED BY <1>1, <1>2, <1>5, <2>1, <2>2
<1>6. CASE h # f
  <2>1. new = H
    BY <1>3, <1>4, <1>6
  <2> QED BY <1>1, <1>2, <1>6, <2>1
<1> QED BY <1>5, <1>6

LEMMA GuardDropped ==
  ASSUME TypeOK, PinsMatchGuards, NEW t \in Threads, NEW f \in Frames,
         guard[t].frame = f,
         guard' = [guard EXCEPT ![t] = NoGuard],
         pin_count' = [pin_count EXCEPT ![f] = pin_count[f] - 1]
  PROVE  PinsMatchGuards'
<1> SUFFICES ASSUME NEW h \in Frames
             PROVE  pin_count'[h] = Cardinality({u \in Threads : guard'[u].frame = h})
  BY DEF PinsMatchGuards
<1> DEFINE H == {u \in Threads : guard[u].frame = h}
           new == {u \in Threads : guard'[u].frame = h}
<1>1. IsFiniteSet(H) /\ pin_count[h] = Cardinality(H)
  BY PoolAssumption, FS_Subset DEF PinsMatchGuards
<1>2. guard \in [Threads -> Guards \cup {NoGuard}] /\ pin_count \in [Frames -> Nat]
  BY DEF TypeOK, Guards
<1>3. NoGuard.frame # h
  BY GuardFacts DEF NoGuard
<1>4. \A u \in Threads : guard'[u] = IF u = t THEN NoGuard ELSE guard[u]
  BY <1>2
<1>5. CASE h = f
  <2>1. new = H \ {t} /\ t \in H
    BY <1>3, <1>4, <1>5
  <2>2. Cardinality(H \ {t}) = Cardinality(H) - 1
    BY <1>1, <2>1, FS_RemoveElement
  <2> QED BY <1>1, <1>2, <1>5, <2>1, <2>2
<1>6. CASE h # f
  <2>1. new = H
    BY <1>3, <1>4, <1>6
  <2> QED BY <1>1, <1>2, <1>6, <2>1
<1> QED BY <1>5, <1>6

(* The page of a guard is in its frame, which has it alone. *)
LEMMA GuardedPage ==
  ASSUME PoolInv, NEW t \in Threads, guard[t] # NoGuard
  PROVE  /\ guard[t].frame \in Frames /\ guard[t].key \in Keys
         /\ guard[t].mode \in {"read", "write"}
         /\ key[guard[t].frame] = guard[t].key
         /\ page_table[guard[t].key] = guard[t].frame
         /\ pin_count[guard[t].frame] # 0
         /\ guard[t].frame \notin Range(free_list)
<1>1. guard[t] \in Guards
  BY GuardFacts DEF PoolInv
<1>2. /\ guard[t].frame \in Frames /\ guard[t].key \in Keys
      /\ guard[t].mode \in {"read", "write"}
  BY <1>1 DEF Guards
<1>3. key[guard[t].frame] = guard[t].key /\ page_table[guard[t].key] = guard[t].frame
  BY DEF PoolInv, GuardStable
<1>4. pin_count[guard[t].frame] # 0
  BY <1>2, NoHolder DEF PoolInv
<1>5. guard[t].frame \notin Range(free_list)
  BY <1>4 DEF PoolInv, FreeFramesEmpty
<1> QED BY <1>2, <1>3, <1>4, <1>5

(* The page table names the frame of a page, and no other. *)
LEMMA TableFacts ==
  ASSUME TypeOK, PageTableInverse
  PROVE  /\ \A k \in Keys : page_table[k] # NoFrame =>
              page_table[k] \in Frames /\ key[page_table[k]] = k
         /\ \A f \in Frames : key[f] # NoKey =>
              /\ key[f] \in Keys /\ page_table[key[f]] = f
              /\ FileOf(key[f]) \in files /\ store[key[f]] # NoData
<1>1. page_table \in [Keys -> Frames \cup {NoFrame}] /\ key \in [Frames -> Keys \cup {NoKey}]
  BY DEF TypeOK
<1> QED BY <1>1 DEF PageTableInverse

(* A write-back changes the data of a page, never which pages there are. *)
LEMMA FlushedKeeps ==
  ASSUME TypeOK, PageTableInverse, NEW f \in Frames
  PROVE  /\ Flushed({f}) \in [Keys -> Data \cup {NoData}]
         /\ \A k \in Keys : Flushed({f})[k] = NoData <=> store[k] = NoData
         /\ \A k \in Keys : k # key[f] => Flushed({f})[k] = store[k]
         /\ key[f] # NoKey => Flushed({f})[key[f]] = IF dirty[f] THEN data[f] ELSE store[key[f]]
<1>1. /\ store \in [Keys -> Data \cup {NoData}] /\ data \in [Frames -> Data]
      /\ NoData \notin Data
  BY PoolAssumption DEF TypeOK
<1>2. \A k \in Keys : Flushed({f})[k] =
        IF dirty[f] /\ key[f] = k THEN data[page_table[k]] ELSE store[k]
  BY DEF Flushed
<1>3. \A k \in Keys : key[f] = k => page_table[k] = f /\ store[k] # NoData
  BY TableFacts, GuardFacts
<1>4. \A k \in Keys : Flushed({f})[k] \in Data \cup {NoData}
  BY <1>1, <1>2, <1>3
<1>5. Flushed({f}) \in [Keys -> Data \cup {NoData}]
  BY <1>4 DEF Flushed
<1>6. \A k \in Keys : Flushed({f})[k] = NoData <=> store[k] = NoData
  BY <1>1, <1>2, <1>3
<1>7. key[f] # NoKey => key[f] \in Keys
  BY TableFacts
<1> QED BY <1>2, <1>3, <1>5, <1>6, <1>7

LEMMA SamePages ==
  ASSUME PagesContiguous, registry' = registry,
         \A k \in Keys : store'[k] = NoData <=> store[k] = NoData
  PROVE  PagesContiguous'
<1>1. files' = files /\ next_file_id' = next_file_id
  BY DEF registry
<1>2. \A id \in FileIds, p \in PageIds : <<id, p>> \in Keys
  BY DEF Keys
<1>3. (\A id \in files : id < next_file_id)'
  BY <1>1 DEF PagesContiguous
<1>4. (\A k \in Keys : k[1] >= next_file_id => store[k] = NoData)'
  BY <1>1 DEF PagesContiguous
<1>5. ASSUME NEW id \in FileIds
      PROVE  \E n \in Nat : \A p \in PageIds : store'[<<id, p>>] # NoData <=> p < n
  <2>1. PICK n \in Nat : \A p \in PageIds : store[<<id, p>>] # NoData <=> p < n
    BY DEF PagesContiguous
  <2> QED BY <1>2, <2>1
<1> QED BY <1>3, <1>4, <1>5 DEF PagesContiguous

-----------------------------------------------------------------------------
(* The invariant holds at first, and every action keeps it.                *)

LEMMA InitPool == Init => PoolInv
<1> SUFFICES ASSUME Init PROVE PoolInv
  OBVIOUS
<1>1. InitialFreeList \in Seq(Frames) /\ DOMAIN InitialFreeList = 1 .. Capacity
      /\ \A i \in 1 .. Capacity : InitialFreeList[i] = Capacity - i
  BY CapacityAssumption DEF InitialFreeList, Frames
<1>2. EmptyList \in Lists
  BY DEF EmptyList, Lists
<1>3. TypeOK
  <2>1. \A t \in Threads : NoGuard \in Guards \cup {NoGuard}
    OBVIOUS
  <2>2. 0 \in 0 .. MaxFiles /\ 0 \in 0 .. MaxUses
    BY PoolAssumption
  <2> QED BY <1>1, <1>2, <2>1, <2>2, PoolAssumption DEF Init, TypeOK, Guards
<1>4. PinsMatchGuards
  <2> SUFFICES ASSUME NEW f \in Frames
               PROVE  pin_count[f] = Cardinality({t \in Threads : guard[t].frame = f})
    BY DEF PinsMatchGuards
  <2>1. {t \in Threads : guard[t].frame = f} = {}
    BY DEF Init, NoGuard, NoFrame, Frames
  <2> QED BY <2>1, FS_EmptySet DEF Init
<1>5. GuardStable
  BY DEF Init, GuardStable
<1>6. PageTableInverse
  <2>1. NoKey \notin Keys /\ NoFrame \notin Frames
    BY <1>3, GuardFacts
  <2> QED BY <2>1 DEF Init, PageTableInverse
<1>7. Partitioned(list, free_list)
  <2>1. Range(<<>>) = {}
    BY DEF Range
  <2>2. <<>> \in Orders
    <3>1. <<>> \in [1 .. 0 -> Frames]
      OBVIOUS
    <3>2. \A i, j \in 1 .. 0 : <<>>[i] = <<>>[j] => i = j
      OBVIOUS
    <3>3. 0 \in Nat
      OBVIOUS
    <3> HIDE DEF Init
    <3> QED BY <3>1, <3>2, <3>3, SequenceIsOrder
  <2>3. Ordered(EmptyList, <<>>)
    BY <1>2, <2>2 DEF Ordered, IsOrder, EmptyList
  <2>4. IsInjective(InitialFreeList)
    BY <1>1, CapacityAssumption DEF IsInjective
  <2>5. Range(InitialFreeList) \subseteq Frames
    BY <1>1, CapacityAssumption DEF Range, Frames
  <2>6. ASSUME NEW f \in Frames
        PROVE  f \in Range(InitialFreeList)
    <3>1. Capacity - f \in 1 .. Capacity /\ f = Capacity - (Capacity - f)
      BY CapacityAssumption DEF Frames
    <3> QED BY <1>1, <3>1 DEF Range
  <2>7. Range(InitialFreeList) = Frames
    BY <2>5, <2>6
  <2> QED BY <1>1, <2>1, <2>3, <2>4, <2>7 DEF Init, Partitioned
<1>8. FreeFramesEmpty
  BY <1>1, CapacityAssumption DEF Init, FreeFramesEmpty, Range, Frames
<1>9. PagesContiguous
  <2>1. \A id \in FileIds, p \in PageIds : <<id, p>> \in Keys /\ ~(p < 0)
    BY DEF Keys, PageIds
  <2>2. \A id \in FileIds : \A p \in PageIds : store[<<id, p>>] # NoData <=> p < 0
    BY <2>1 DEF Init
  <2> QED BY <2>2 DEF Init, PagesContiguous
<1>10. CallKnowsFrames /\ LocksHaveGuards
  BY DEF Init, CallKnowsFrames, LocksHaveGuards
<1> QED BY <1>3, <1>4, <1>5, <1>6, <1>7, <1>8, <1>9, <1>10 DEF PoolInv

(* What a thread does to the data of a frame leaves the pool as it is. *)
LEMMA DataWork ==
  ASSUME PoolInv, TypeOK', LocksHaveGuards',
         UNCHANGED <<registry, store, page_table, key, dirty, pin_count, list,
                     free_list, call, guard>>
  PROVE  PoolInv'
<1>1. PinsMatchGuards' /\ GuardStable' /\ PageTableInverse'
  BY DEF PoolInv, PinsMatchGuards, GuardStable, PageTableInverse, registry
<1>2. Partitioned(list, free_list)' /\ FreeFramesEmpty'
  BY DEF PoolInv, Partitioned, FreeFramesEmpty
<1>3. PagesContiguous'
  BY DEF PoolInv, PagesContiguous, registry
<1>4. CallKnowsFrames'
  BY DEF PoolInv, CallKnowsFrames, FramesOf, Unpinned, registry
<1> QED BY <1>1, <1>2, <1>3, <1>4 DEF PoolInv

LEMMA BeginReadKeeps ==
  ASSUME PoolInv, NEW t \in Threads, BeginRead(t)
  PROVE  PoolInv'
<1>1. TypeOK /\ LocksHaveGuards /\ guard[t] # NoGuard
  BY DEF PoolInv, BeginRead
<1>2. guard[t].frame \in Frames
  BY <1>1, GuardFacts
<1>3. uses[t] + 1 \in 0 .. MaxUses
  BY <1>1, PoolAssumption DEF BeginRead, TypeOK
<1>4. TypeOK'
  BY <1>1, <1>2, <1>3 DEF BeginRead, TypeOK, registry, pool
<1>5. LocksHaveGuards'
  BY <1>1 DEF BeginRead, LocksHaveGuards, TypeOK
<1> QED BY <1>4, <1>5, DataWork DEF BeginRead, pool

LEMMA BeginWriteKeeps ==
  ASSUME PoolInv, NEW t \in Threads, BeginWrite(t)
  PROVE  PoolInv'
<1>1. TypeOK /\ LocksHaveGuards
  BY DEF PoolInv
<1>2. guard[t] # NoGuard
  BY DEF BeginWrite, NoGuard
<1>3. uses[t] + 1 \in 0 .. MaxUses
  BY <1>1, PoolAssumption DEF BeginWrite, TypeOK
<1>4. TypeOK'
  BY <1>1, <1>3 DEF BeginWrite, TypeOK, registry, pool
<1>5. LocksHaveGuards'
  BY <1>1, <1>2 DEF BeginWrite, LocksHaveGuards, TypeOK
<1> QED BY <1>4, <1>5, DataWork DEF BeginWrite, pool

LEMMA EndReadKeeps ==
  ASSUME PoolInv, NEW t \in Threads, EndRead(t)
  PROVE  PoolInv'
<1>1. TypeOK /\ LocksHaveGuards
  BY DEF PoolInv
<1>2. TypeOK'
  BY <1>1 DEF EndRead, TypeOK, registry, pool
<1>3. LocksHaveGuards'
  BY <1>1 DEF EndRead, LocksHaveGuards, TypeOK
<1> QED BY <1>2, <1>3, DataWork DEF EndRead, pool

LEMMA EndWriteKeeps ==
  ASSUME PoolInv, NEW t \in Threads, NEW d \in Data, EndWrite(t, d)
  PROVE  PoolInv'
<1>1. TypeOK /\ LocksHaveGuards
  BY DEF PoolInv
<1>2. TypeOK'
  BY <1>1 DEF EndWrite, TypeOK, registry
<1>3. LocksHaveGuards'
  BY <1>1 DEF EndWrite, LocksHaveGuards, TypeOK
<1> QED BY <1>2, <1>3, DataWork DEF EndWrite

(* A call that changes neither the frames nor the guards, only the file or the *)
(* data of pages in it.                                                        *)
LEMMA StoreWork ==
  ASSUME PoolInv, store' \in [Keys -> Data \cup {NoData}],
         \A k \in Keys : store[k] # NoData => store'[k] # NoData,
         UNCHANGED <<pool, clients>>
  PROVE  /\ PinsMatchGuards' /\ GuardStable'
         /\ Partitioned(list, free_list)' /\ FreeFramesEmpty'
         /\ LocksHaveGuards'
         /\ files \subseteq files' => PageTableInverse'
<1>1. /\ UNCHANGED <<page_table, key, data, dirty, pin_count, list, free_list>>
      /\ UNCHANGED <<guard, lock, uses, seen>>
  BY DEF pool, clients
<1>2. PinsMatchGuards' /\ GuardStable' /\ LocksHaveGuards'
  BY <1>1 DEF PoolInv, PinsMatchGuards, GuardStable, LocksHaveGuards
<1>3. Partitioned(list, free_list)' /\ FreeFramesEmpty'
  BY <1>1 DEF PoolInv, Partitioned, FreeFramesEmpty
<1>4. ASSUME files \subseteq files'
      PROVE  PageTableInverse'
  <2>1. (\A k \in Keys, f \in Frames : page_table[k] = f <=> key[f] = k)'
    BY <1>1 DEF PoolInv, PageTableInverse
  <2>2. \A f \in Frames : key[f] # NoKey =>
          key[f] \in Keys /\ FileOf(key[f]) \in files' /\ store'[key[f]] # NoData
    BY <1>4, TableFacts DEF PoolInv
  <2>3. \A f \in Frames : key[f] = NoKey => ~dirty[f]
    BY DEF PoolInv, PageTableInverse
  <2> QED BY <1>1, <2>1, <2>2, <2>3 DEF PageTableInverse
<1> QED BY <1>2, <1>3, <1>4

LEMMA RegisterFileKeeps ==
  ASSUME PoolInv, NEW n \in 0 .. MaxPages, RegisterFile(n)
  PROVE  PoolInv'
<1>1. TypeOK /\ PagesContiguous /\ call' = Idle
  BY DEF PoolInv, RegisterFile, MutexFree
<1> DEFINE new == next_file_id
<1>2. /\ new \in FileIds /\ new \in Nat /\ new + 1 \in 0 .. MaxFiles
      /\ files' = files \cup {new} /\ next_file_id' = new + 1
      /\ UNCHANGED <<pool, clients>>
  BY <1>1, PoolAssumption DEF RegisterFile, TypeOK, FileIds
<1>3. /\ store \in [Keys -> Data \cup {NoData}] /\ ZeroData \in Data /\ NoData \notin Data
  BY <1>1, PoolAssumption DEF TypeOK
<1>4. store' = [k \in Keys |-> IF k[1] = new /\ k[2] < n THEN ZeroData ELSE store[k]]
  BY DEF RegisterFile
<1>5. store' \in [Keys -> Data \cup {NoData}]
  BY <1>3, <1>4
<1>6. \A k \in Keys : store[k] # NoData => store'[k] # NoData
  BY <1>3, <1>4
<1>7. TypeOK'
  BY <1>1, <1>2, <1>5 DEF TypeOK, pool, clients
<1>8. PagesContiguous'
  <2>1. (\A id \in files : id < next_file_id)'
    BY <1>1, <1>2 DEF PagesContiguous, TypeOK, FileIds
  <2>2. ASSUME NEW k \in Keys, k[1] >= new + 1
        PROVE  store'[k] = NoData
    <3>1. k[1] \in Int /\ k[1] # new /\ k[1] >= new
      BY <1>2, <2>2 DEF Keys, FileIds
    <3> QED BY <1>1, <1>4, <3>1 DEF PagesContiguous
  <2>3. ASSUME NEW id \in FileIds
        PROVE  \E m \in Nat : \A p \in PageIds : store'[<<id, p>>] # NoData <=> p < m
    <3>1. \A p \in PageIds : <<id, p>> \in Keys /\ <<id, p>>[1] = id /\ <<id, p>>[2] = p
      BY DEF Keys
    <3>2. CASE id = new
      <4>1. \A p \in PageIds : store[<<id, p>>] = NoData
        BY <1>1, <1>2, <3>1, <3>2 DEF PagesContiguous
      <4>2. \A p \in PageIds : store'[<<id, p>>] # NoData <=> p < n
        BY <1>3, <1>4, <3>1, <3>2, <4>1
      <4>3. n \in Nat
        BY PoolAssumption
      <4> QED BY <4>2, <4>3
    <3>3. CASE id # new
      <4>1. \A p \in PageIds : store'[<<id, p>>] = store[<<id, p>>]
        BY <1>4, <3>1, <3>3
      <4> QED BY <1>1, <4>1 DEF PagesContiguous
    <3> QED BY <3>2, <3>3
  <2> QED BY <1>2, <2>1, <2>2, <2>3 DEF PagesContiguous
<1>9. CallKnowsFrames'
  BY <1>1 DEF CallKnowsFrames
<1> QED BY <1>2, <1>5, <1>6, <1>7, <1>8, <1>9, StoreWork DEF PoolInv

LEMMA FailInAcquireKeeps ==
  ASSUME PoolInv, FailInAcquire
  PROVE  PoolInv'
<1>1. /\ TypeOK /\ PageTableInverse /\ PagesContiguous
      /\ call' = Idle /\ UNCHANGED <<registry, pool, clients>>
      /\ store' = Flushed({Victim})
  BY DEF PoolInv, FailInAcquire, MutexFree
<1>2. Victim \in Frames
  BY Acquired DEF PoolInv, FailInAcquire, AcquiredFrame
<1>3. /\ store' \in [Keys -> Data \cup {NoData}]
      /\ \A k \in Keys : store'[k] = NoData <=> store[k] = NoData
  BY <1>1, <1>2, FlushedKeeps
<1>4. TypeOK'
  BY <1>1, <1>3 DEF TypeOK, registry, pool, clients
<1>5. PagesContiguous'
  BY <1>1, <1>3, SamePages
<1>6. CallKnowsFrames' /\ files \subseteq files'
  BY <1>1 DEF CallKnowsFrames, registry
<1> QED BY <1>1, <1>3, <1>4, <1>5, <1>6, StoreWork DEF PoolInv

LEMMA GetCachedPageKeeps ==
  ASSUME PoolInv, NEW t \in Threads, NEW k \in Keys, NEW mode \in {"read", "write"},
         GetCachedPage(t, k, mode)
  PROVE  PoolInv'
<1> DEFINE f == page_table[k]
           x == [frame |-> f, key |-> k, mode |-> mode]
<1>1. /\ TypeOK /\ PageTableInverse /\ PagesContiguous /\ call' = Idle
      /\ Partitioned(list, free_list)
      /\ UNCHANGED <<registry, store, page_table, key, data, free_list, lock, uses, seen>>
      /\ guard[t] = NoGuard
  BY DEF PoolInv, GetCachedPage, MutexFree
<1>2. f \in Frames /\ key[f] = k /\ k # NoKey
  BY <1>1, TableFacts, GuardFacts DEF GetCachedPage
<1>3. f \notin Range(free_list)
  BY <1>2 DEF PoolInv, FreeFramesEmpty
<1>4. Partitioned(list, free_list)' /\ list' \in Lists
  BY <1>1, <1>2, <1>3, TouchKeeps DEF GetCachedPage
<1>5. /\ guard' = [guard EXCEPT ![t] = x]
      /\ pin_count' = [pin_count EXCEPT ![f] = pin_count[f] + 1]
      /\ dirty' = [dirty EXCEPT ![f] = dirty[f] \/ mode = "write"]
      /\ x \in Guards
  BY <1>2 DEF GetCachedPage, Guards
<1> HIDE DEF f
<1>6. x.frame = f /\ x.key = k /\ x # NoGuard
  BY <1>2 DEF NoGuard
<1> HIDE DEF x
<1>7. TypeOK'
  <2>1. (dirty[f] \/ mode = "write") \in BOOLEAN /\ pin_count[f] + 1 \in Nat
    BY <1>1, <1>2 DEF TypeOK
  <2>2. dirty' \in [Frames -> BOOLEAN] /\ pin_count' \in [Frames -> Nat]
    BY <1>1, <1>2, <1>5, <2>1 DEF TypeOK
  <2>3. guard' \in [Threads -> Guards \cup {NoGuard}]
    BY <1>1, <1>5 DEF TypeOK, Guards
  <2> QED BY <1>1, <1>4, <2>2, <2>3 DEF TypeOK, Guards, registry
<1>8. PinsMatchGuards'
  BY <1>1, <1>2, <1>5, <1>6, GuardTaken DEF PoolInv
<1>9. GuardStable'
  BY <1>1, <1>2, <1>5, <1>6 DEF PoolInv, GuardStable, TypeOK, f
<1>10. PageTableInverse'
  BY <1>1, <1>2, <1>5 DEF PageTableInverse, registry, TypeOK
<1>11. FreeFramesEmpty'
  <2>1. \A g \in Range(free_list) : g # f /\ g \in Frames
    BY <1>1, <1>3 DEF Partitioned, Range
  <2> QED BY <1>1, <1>5, <2>1 DEF PoolInv, FreeFramesEmpty, TypeOK
<1>12. PagesContiguous' /\ CallKnowsFrames'
  BY <1>1 DEF PagesContiguous, CallKnowsFrames, registry
<1>13. LocksHaveGuards'
  BY <1>1, <1>5, <1>6 DEF PoolInv, LocksHaveGuards, TypeOK
<1> QED BY <1>4, <1>7, <1>8, <1>9, <1>10, <1>11, <1>12, <1>13 DEF PoolInv

(* A page comes into a frame, after what was in it has been written back. *)
LEMMA InstallKeeps ==
  ASSUME PoolInv, NEW t \in Threads, NEW k \in Keys, NEW mode \in {"read", "write"},
         NEW d \in Data,
         call = Idle, guard[t] = NoGuard, page_table[k] = NoFrame, FileOf(k) \in files,
         InstallFor(t, k, mode, d),
         UNCHANGED <<registry, call, lock, uses, seen>>,
         store' \in [Keys -> Data \cup {NoData}],
         \A j \in Keys : store[j] # NoData => store'[j] # NoData,
         store'[k] # NoData,
         PagesContiguous'
  PROVE  PoolInv'
<1> DEFINE f == AcquiredFrame
           x == [frame |-> f, key |-> k, mode |-> mode]
<1>1. /\ TypeOK /\ PageTableInverse /\ PinsMatchGuards /\ GuardStable
      /\ Partitioned(list, free_list) /\ FreeFramesEmpty /\ FrameAvailable
  BY DEF PoolInv, InstallFor
<1>2. /\ f \in Frames /\ pin_count[f] = 0
      /\ Partitioned(AcquiredList, AcquiredFreeList)
      /\ f \notin Range(AcquiredFreeList)
      /\ Range(AcquiredFreeList) \subseteq Range(free_list)
  BY <1>1, Acquired
<1>3. /\ page_table' = [TableWithout({f}) EXCEPT ![k] = f]
      /\ key' = [key EXCEPT ![f] = k]
      /\ data' = [data EXCEPT ![f] = d]
      /\ dirty' = [dirty EXCEPT ![f] = (mode = "write")]
      /\ pin_count' = [pin_count EXCEPT ![f] = 1]
      /\ list' = Touch(AcquiredList, f)
      /\ free_list' = AcquiredFreeList
      /\ guard' = [guard EXCEPT ![t] = x]
  BY DEF InstallFor
<1>4. x \in Guards
  BY <1>2 DEF Guards
<1>5. x.frame = f /\ x.key = k /\ x # NoGuard
  BY <1>4, GuardFacts, <1>1
<1> HIDE DEF f, x
<1>6. Partitioned(list, free_list)' /\ list' \in Lists
  BY <1>2, <1>3, TouchKeeps
<1>7. \A j \in Keys : page_table'[j] = IF j = k THEN f
                                       ELSE IF page_table[j] = f THEN NoFrame ELSE page_table[j]
  BY <1>3 DEF TableWithout
<1>8. \A g \in Frames : key'[g] = IF g = f THEN k ELSE key[g]
  BY <1>1, <1>3 DEF TypeOK
<1>9. TypeOK'
  <2>1. page_table' \in [Keys -> Frames \cup {NoFrame}]
    BY <1>1, <1>2, <1>3 DEF TypeOK, TableWithout
  <2>2. key' \in [Frames -> Keys \cup {NoKey}] /\ data' \in [Frames -> Data]
    BY <1>1, <1>3 DEF TypeOK
  <2>3. dirty' \in [Frames -> BOOLEAN] /\ pin_count' \in [Frames -> Nat]
    BY <1>1, <1>3 DEF TypeOK
  <2>4. free_list' \in Seq(Frames)
    BY <1>6 DEF Partitioned
  <2>5. guard' \in [Threads -> Guards \cup {NoGuard}]
    BY <1>1, <1>3, <1>4 DEF TypeOK, Guards
  <2> QED BY <1>1, <1>6, <2>1, <2>2, <2>3, <2>4, <2>5 DEF TypeOK, Guards, registry
<1>10. PinsMatchGuards'
  <2>1. pin_count' = [pin_count EXCEPT ![f] = pin_count[f] + 1]
    BY <1>2, <1>3
  <2> QED BY <1>1, <1>2, <1>3, <1>5, <2>1, GuardTaken
<1>11. GuardStable'
  <2> SUFFICES ASSUME NEW u \in Threads, guard'[u] # NoGuard
               PROVE  key'[guard'[u].frame] = guard'[u].key
                      /\ page_table'[guard'[u].key] = guard'[u].frame
    BY DEF GuardStable
  <2>1. CASE u = t
    <3>1. guard'[u] = x
      BY <1>1, <1>3, <2>1 DEF TypeOK
    <3> QED BY <1>2, <1>5, <1>7, <1>8, <3>1
  <2>2. CASE u # t
    <3>1. guard'[u] = guard[u]
      BY <1>1, <1>3, <2>2 DEF TypeOK
    <3>2. /\ guard[u].frame \in Frames /\ guard[u].key \in Keys
          /\ key[guard[u].frame] = guard[u].key
          /\ page_table[guard[u].key] = guard[u].frame
      BY <3>1, GuardedPage
    <3>3. guard[u].frame # f
      BY <1>1, <1>2, NoHolder
    <3>4. guard[u].key # k
      BY <1>1, <3>2, GuardFacts
    <3> QED BY <1>7, <1>8, <3>1, <3>2, <3>3, <3>4
  <2> QED BY <2>1, <2>2
<1>12. PageTableInverse'
  <2>1. NoFrame \notin Frames /\ NoKey \notin Keys
    BY <1>1, GuardFacts
  <2>2. \A j \in Keys, g \in Frames : page_table[j] = g <=> key[g] = j
    BY <1>1 DEF PageTableInverse
  <2>3. \A j \in Keys, g \in Frames : page_table'[j] = g <=> key'[g] = j
    BY <1>2, <1>7, <1>8, <2>1, <2>2
  <2>4. ASSUME NEW g \in Frames
        PROVE  IF key'[g] = NoKey THEN ~dirty'[g]
                                  ELSE FileOf(key'[g]) \in files' /\ store'[key'[g]] # NoData
    <3>1. CASE g = f
      BY <1>8, <2>1, <3>1 DEF registry
    <3>2. CASE g # f
      <4>1. key'[g] = key[g] /\ dirty'[g] = dirty[g]
        BY <1>1, <1>3, <1>8, <3>2 DEF TypeOK
      <4>2. key[g] # NoKey => key[g] \in Keys /\ FileOf(key[g]) \in files /\ store[key[g]] # NoData
        BY <1>1, TableFacts
      <4>3. key[g] = NoKey => ~dirty[g]
        BY <1>1 DEF PageTableInverse
      <4> QED BY <4>1, <4>2, <4>3 DEF registry
    <3> QED BY <3>1, <3>2
  <2> QED BY <2>3, <2>4 DEF PageTableInverse
<1>13. FreeFramesEmpty'
  <2>1. \A g \in Range(AcquiredFreeList) : g # f /\ g \in Range(free_list) /\ g \in Frames
    <3>1. AcquiredFreeList \in Seq(Frames)
      BY <1>2 DEF Partitioned
    <3>2. \A g \in Range(AcquiredFreeList) : g \in Frames
      BY <3>1 DEF Range
    <3> QED BY <1>2, <3>2
  <2>2. \A g \in Range(AcquiredFreeList) : key'[g] = key[g] /\ pin_count'[g] = pin_count[g]
    BY <1>1, <1>3, <2>1 DEF TypeOK
  <2> QED BY <1>1, <1>3, <2>1, <2>2 DEF FreeFramesEmpty
<1>14. CallKnowsFrames'
  BY DEF CallKnowsFrames
<1>15. LocksHaveGuards'
  BY <1>1, <1>3, <1>5 DEF PoolInv, LocksHaveGuards, TypeOK
<1> QED BY <1>6, <1>9, <1>10, <1>11, <1>12, <1>13, <1>14, <1>15 DEF PoolInv

LEMMA LoadPageKeeps ==
  ASSUME PoolInv, NEW t \in Threads, NEW k \in Keys, NEW mode \in {"read", "write"},
         LoadPage(t, k, mode)
  PROVE  PoolInv'
<1>1. /\ TypeOK /\ PageTableInverse /\ PagesContiguous /\ call = Idle
      /\ guard[t] = NoGuard /\ page_table[k] = NoFrame /\ FileOf(k) \in files
      /\ store[k] # NoData
      /\ UNCHANGED <<registry, call, lock, uses, seen>>
      /\ store' = Flushed({AcquiredFrame})
      /\ InstallFor(t, k, mode, store[k])
  BY DEF PoolInv, LoadPage, MutexFree
<1>2. AcquiredFrame \in Frames
  BY <1>1, Acquired DEF PoolInv, InstallFor
<1>3. /\ store' \in [Keys -> Data \cup {NoData}]
      /\ \A j \in Keys : store'[j] = NoData <=> store[j] = NoData
  BY <1>1, <1>2, FlushedKeeps
<1>4. PagesContiguous'
  BY <1>1, <1>3, SamePages
<1>5. store[k] \in Data
  BY <1>1 DEF TypeOK
<1> QED BY <1>1, <1>3, <1>4, <1>5, InstallKeeps

(* The page that a file grows by is the one behind its last. *)
LEMMA PageBehindLast ==
  ASSUME PagesContiguous, NEW id \in FileIds, NEW n \in PageIds,
         n = Cardinality({p \in PageIds : store[<<id, p>>] # NoData})
  PROVE  \A p \in PageIds : store[<<id, p>>] # NoData <=> p < n
<1>1. PICK m \in Nat : \A p \in PageIds : store[<<id, p>>] # NoData <=> p < m
  BY DEF PagesContiguous
<1>2. CASE m <= MaxPages
  <2>1. {p \in PageIds : store[<<id, p>>] # NoData} = 0 .. m - 1
    BY <1>1, <1>2, PoolAssumption DEF PageIds
  <2>2. Cardinality(0 .. m - 1) = m
    BY FS_Interval
  <2> QED BY <1>1, <2>1, <2>2
<1>3. CASE m > MaxPages
  <2>1. {p \in PageIds : store[<<id, p>>] # NoData} = 0 .. MaxPages - 1
    BY <1>1, <1>3, PoolAssumption DEF PageIds
  <2>2. Cardinality(0 .. MaxPages - 1) = MaxPages
    BY PoolAssumption, FS_Interval
  <2>3. n = MaxPages
    BY <2>1, <2>2
  <2> QED BY <2>3, PoolAssumption DEF PageIds
<1> QED BY <1>2, <1>3, PoolAssumption

LEMMA AllocatePageKeeps ==
  ASSUME PoolInv, NEW t \in Threads, NEW id \in FileIds, AllocatePage(t, id)
  PROVE  PoolInv'
<1> DEFINE n == Cardinality({p \in PageIds : store[<<id, p>>] # NoData})
           k == <<id, n>>
           mid == Flushed({AcquiredFrame})
<1>1. /\ TypeOK /\ PageTableInverse /\ PagesContiguous /\ call = Idle
      /\ guard[t] = NoGuard /\ id \in files /\ k \in Keys
      /\ UNCHANGED <<registry, call, lock, uses, seen>>
      /\ store' = [mid EXCEPT ![k] = ZeroData]
      /\ InstallFor(t, k, "write", ZeroData)
  BY DEF PoolInv, AllocatePage, MutexFree
<1>2. n \in PageIds
  BY <1>1 DEF Keys
<1>3. \A p \in PageIds : store[<<id, p>>] # NoData <=> p < n
  BY <1>1, <1>2, PageBehindLast
<1> HIDE DEF n
<1>4. n \in Nat /\ store[k] = NoData /\ FileOf(k) = id
  BY <1>2, <1>3 DEF PageIds, FileOf
<1>5. page_table[k] = NoFrame
  BY <1>1, <1>4, GuardFacts, TableFacts
<1>6. AcquiredFrame \in Frames
  BY <1>1, Acquired DEF PoolInv, InstallFor
<1>7. /\ mid \in [Keys -> Data \cup {NoData}]
      /\ \A j \in Keys : mid[j] = NoData <=> store[j] = NoData
  BY <1>1, <1>6, FlushedKeeps
<1> HIDE DEF mid, k
<1>8. ZeroData \in Data /\ ZeroData # NoData
  BY PoolAssumption
<1>9. /\ store' \in [Keys -> Data \cup {NoData}]
      /\ \A j \in Keys : store'[j] = NoData <=> j # k /\ store[j] = NoData
  BY <1>1, <1>7, <1>8
<1>10. PagesContiguous'
  <2>1. (\A i \in files : i < next_file_id)'
    BY <1>1 DEF PagesContiguous, registry
  <2>2. (\A j \in Keys : j[1] >= next_file_id => store[j] = NoData)'
    <3>1. id < next_file_id /\ k[1] = id /\ id \in Int /\ next_file_id \in Int
      BY <1>1 DEF PagesContiguous, k, TypeOK, FileIds
    <3> QED BY <1>1, <1>9, <3>1 DEF PagesContiguous, registry
  <2>3. ASSUME NEW i \in FileIds
        PROVE  \E m \in Nat : \A p \in PageIds : store'[<<i, p>>] # NoData <=> p < m
    <3>1. \A p \in PageIds : <<i, p>> \in Keys /\ (<<i, p>> = k <=> i = id /\ p = n)
      BY DEF Keys, k
    <3>2. CASE i = id
      <4>1. \A p \in PageIds : store'[<<i, p>>] # NoData <=> p = n \/ p < n
        BY <1>3, <1>9, <3>1, <3>2
      <4>2. \A p \in PageIds : store'[<<i, p>>] # NoData <=> p < n + 1
        BY <1>4, <4>1 DEF PageIds
      <4> QED BY <1>4, <4>2
    <3>3. CASE i # id
      <4>1. PICK m \in Nat : \A p \in PageIds : store[<<i, p>>] # NoData <=> p < m
        BY <1>1 DEF PagesContiguous
      <4> QED BY <1>9, <3>1, <3>3, <4>1
    <3> QED BY <3>2, <3>3
  <2> QED BY <2>1, <2>2, <2>3 DEF PagesContiguous
<1>11. k \in Keys /\ (\A j \in Keys : store[j] # NoData => store'[j] # NoData) /\ store'[k] # NoData
  BY <1>1, <1>9
<1>12. FileOf(k) \in files /\ page_table[k] = NoFrame /\ InstallFor(t, k, "write", ZeroData)
  BY <1>1, <1>4, <1>5 DEF k
<1> QED BY <1>1, <1>8, <1>9, <1>10, <1>11, <1>12, InstallKeeps

LEMMA FailAfterAcquireKeeps ==
  ASSUME PoolInv, FailAfterAcquire
  PROVE  PoolInv'
<1> DEFINE f == AcquiredFrame
<1>1. /\ TypeOK /\ PageTableInverse /\ PinsMatchGuards /\ GuardStable /\ PagesContiguous
      /\ Partitioned(list, free_list) /\ FreeFramesEmpty /\ FrameAvailable
      /\ call' = Idle
  BY DEF PoolInv, FailAfterAcquire, MutexFree
<1>2. /\ f \in Frames /\ pin_count[f] = 0
      /\ Partitioned(AcquiredList, AcquiredFreeList)
      /\ AcquiredList \in Lists
      /\ Range(AcquiredFreeList) \subseteq Range(free_list)
  BY <1>1, Acquired
<1>3. /\ store' = Flushed({f})
      /\ page_table' = TableWithout({f})
      /\ key' = [key EXCEPT ![f] = NoKey]
      /\ dirty' = [dirty EXCEPT ![f] = FALSE]
      /\ list' = AcquiredList
      /\ free_list' = AcquiredFreeList
      /\ UNCHANGED <<registry, data, pin_count, call, clients>>
  BY DEF FailAfterAcquire
<1>4. UNCHANGED <<guard, lock, uses, seen, files, next_file_id>>
  BY <1>3 DEF clients, registry
<1> HIDE DEF f
<1>5. /\ store' \in [Keys -> Data \cup {NoData}]
      /\ \A k \in Keys : store'[k] = NoData <=> store[k] = NoData
  BY <1>1, <1>2, <1>3, FlushedKeeps
<1>6. \A j \in Keys : page_table'[j] = IF page_table[j] = f THEN NoFrame ELSE page_table[j]
  BY <1>3 DEF TableWithout
<1>7. \A g \in Frames : key'[g] = IF g = f THEN NoKey ELSE key[g]
  BY <1>1, <1>3 DEF TypeOK
<1>8. TypeOK'
  <2>1. page_table' \in [Keys -> Frames \cup {NoFrame}]
    BY <1>1, <1>3 DEF TypeOK, TableWithout
  <2>2. key' \in [Frames -> Keys \cup {NoKey}] /\ dirty' \in [Frames -> BOOLEAN]
    BY <1>1, <1>3 DEF TypeOK
  <2>3. free_list' \in Seq(Frames)
    BY <1>2, <1>3 DEF Partitioned
  <2> QED BY <1>1, <1>2, <1>3, <1>4, <1>5, <2>1, <2>2, <2>3 DEF TypeOK
<1>9. PinsMatchGuards' /\ LocksHaveGuards'
  BY <1>1, <1>3, <1>4 DEF PoolInv, PinsMatchGuards, LocksHaveGuards
<1>10. GuardStable'
  <2> SUFFICES ASSUME NEW u \in Threads, guard[u] # NoGuard
               PROVE  key'[guard[u].frame] = guard[u].key
                      /\ page_table'[guard[u].key] = guard[u].frame
    BY <1>4 DEF GuardStable
  <2>1. /\ guard[u].frame \in Frames /\ guard[u].key \in Keys
        /\ key[guard[u].frame] = guard[u].key
        /\ page_table[guard[u].key] = guard[u].frame
    BY GuardedPage
  <2>2. guard[u].frame # f
    BY <1>1, <1>2, NoHolder
  <2> QED BY <1>6, <1>7, <2>1, <2>2
<1>11. PageTableInverse'
  <2>1. NoFrame \notin Frames /\ NoKey \notin Keys
    BY <1>1, GuardFacts
  <2>2. \A j \in Keys, g \in Frames : page_table'[j] = g <=> key'[g] = j
    BY <1>1, <1>2, <1>6, <1>7, <2>1 DEF PageTableInverse
  <2>3. ASSUME NEW g \in Frames
        PROVE  IF key'[g] = NoKey THEN ~dirty'[g]
                                  ELSE FileOf(key'[g]) \in files' /\ store'[key'[g]] # NoData
    <3>1. CASE g = f
      BY <1>1, <1>3, <1>7, <3>1 DEF TypeOK
    <3>2. CASE g # f
      <4>1. key'[g] = key[g] /\ dirty'[g] = dirty[g]
        BY <1>1, <1>3, <1>7, <3>2 DEF TypeOK
      <4>2. key[g] # NoKey => key[g] \in Keys /\ FileOf(key[g]) \in files /\ store[key[g]] # NoData
        BY <1>1, TableFacts
      <4>3. key[g] = NoKey => ~dirty[g]
        BY <1>1 DEF PageTableInverse
      <4> QED BY <1>4, <1>5, <4>1, <4>2, <4>3
    <3> QED BY <3>1, <3>2
  <2> QED BY <2>2, <2>3 DEF PageTableInverse
<1>12. FreeFramesEmpty'
  <2>1. AcquiredFreeList \in Seq(Frames)
    BY <1>2 DEF Partitioned
  <2>2. \A g \in Range(AcquiredFreeList) : g \in Range(free_list) /\ g \in Frames
    BY <1>2, <2>1 DEF Range
  <2> QED BY <1>1, <1>3, <1>7, <2>2 DEF FreeFramesEmpty
<1>13. Partitioned(list, free_list)'
  BY <1>2, <1>3
<1>14. PagesContiguous'
  BY <1>1, <1>3, <1>5, SamePages
<1>15. CallKnowsFrames'
  BY <1>1 DEF CallKnowsFrames
<1> QED BY <1>8, <1>9, <1>10, <1>11, <1>12, <1>13, <1>14, <1>15 DEF PoolInv

LEMMA DropGuardKeeps ==
  ASSUME PoolInv, NEW t \in Threads, DropGuard(t)
  PROVE  PoolInv'
<1> DEFINE f == guard[t].frame
<1>1. /\ TypeOK /\ PageTableInverse /\ PinsMatchGuards /\ GuardStable
      /\ Partitioned(list, free_list) /\ FreeFramesEmpty
      /\ UNCHANGED <<registry, store, page_table, key, data, dirty, free_list, call, lock>>
      /\ call' = Idle
  BY DEF PoolInv, DropGuard, MutexFree
<1>2. f \in Frames /\ f \notin Range(free_list)
  BY GuardedPage DEF DropGuard
<1>3. /\ guard' = [guard EXCEPT ![t] = NoGuard]
      /\ pin_count[f] > 0
      /\ pin_count' = [pin_count EXCEPT ![f] = pin_count[f] - 1]
      /\ list' = IF pin_count[f] = 1 THEN Touch(list, f) ELSE list
      /\ uses' = [uses EXCEPT ![t] = 0]
      /\ seen' = [seen EXCEPT ![t] = NoData]
      /\ lock[t] = "none"
  BY DEF DropGuard
<1>4. PinsMatchGuards'
  BY <1>1, <1>2, <1>3, GuardDropped
<1> HIDE DEF f
<1>5. Partitioned(list, free_list)' /\ list' \in Lists
  <2>1. Partitioned(Touch(list, f), free_list) /\ Touch(list, f) \in Lists
    BY <1>1, <1>2, TouchKeeps
  <2> QED BY <1>1, <1>3, <2>1 DEF TypeOK
<1>6. TypeOK'
  <2>1. pin_count' \in [Frames -> Nat]
    BY <1>1, <1>2, <1>3 DEF TypeOK
  <2>2. guard' \in [Threads -> Guards \cup {NoGuard}]
    BY <1>1, <1>3 DEF TypeOK, Guards
  <2>3. uses' \in [Threads -> 0 .. MaxUses] /\ seen' \in [Threads -> Data \cup {NoData}]
    BY <1>1, <1>3, PoolAssumption DEF TypeOK
  <2> QED BY <1>1, <1>5, <2>1, <2>2, <2>3 DEF TypeOK, Guards, registry
<1>7. \A u \in Threads : guard'[u] = IF u = t THEN NoGuard ELSE guard[u]
  BY <1>1, <1>3 DEF TypeOK
<1>8. GuardStable' /\ LocksHaveGuards'
  BY <1>1, <1>3, <1>7 DEF PoolInv, GuardStable, LocksHaveGuards
<1>9. PageTableInverse'
  BY <1>1 DEF PageTableInverse, registry
<1>10. FreeFramesEmpty'
  <2>1. \A g \in Range(free_list) : g # f /\ g \in Frames
    BY <1>1, <1>2 DEF Partitioned, Range
  <2> QED BY <1>1, <1>3, <2>1 DEF FreeFramesEmpty, TypeOK
<1>11. PagesContiguous' /\ CallKnowsFrames'
  BY <1>1 DEF PoolInv, PagesContiguous, CallKnowsFrames, registry
<1> QED BY <1>4, <1>5, <1>6, <1>8, <1>9, <1>10, <1>11 DEF PoolInv

LEMMA BeginCallKeeps ==
  ASSUME PoolInv, NEW t \in Threads, NEW id \in FileIds,
         NEW op \in {"force", "flush", "remove"}, NEW ks, ks \subseteq PagesOf(id),
         op # "force" => ks = PagesOf(id) /\ NonePinned(id),
         BeginCall(t, op, id, ks)
  PROVE  PoolInv'
<1>1. /\ TypeOK
      /\ call' = [by |-> t, op |-> op, file |-> id, todo |-> FramesOf(ks)]
      /\ UNCHANGED <<registry, store, pool, clients>>
      /\ id \in files
  BY DEF PoolInv, BeginCall
<1>2. FramesOf(ks) \in SUBSET Frames /\ \A g \in FramesOf(ks) : key[g] \in PagesOf(id)
  BY DEF FramesOf
<1>3. call' \in [by : Threads, op : {"force", "flush", "remove"}, file : FileIds,
                 todo : SUBSET Frames]
  BY <1>1, <1>2
<1>4. /\ UNCHANGED <<page_table, key, data, dirty, pin_count, list, free_list>>
      /\ UNCHANGED <<next_file_id, files, store, guard, lock, uses, seen>>
  BY <1>1 DEF pool, clients, registry
<1>5. TypeOK'
  BY <1>1, <1>3, <1>4 DEF TypeOK
<1>6. CallKnowsFrames'
  <2>1. call'.file = id /\ call'.op = op /\ call'.todo = FramesOf(ks)
    BY <1>1
  <2>2. op # "force" => FramesOf(PagesOf(id)) = FramesOf(ks) /\ FramesOf(ks) \subseteq Unpinned
    BY DEF NonePinned
  <2> QED BY <1>1, <1>2, <1>4, <2>1, <2>2 DEF CallKnowsFrames, FramesOf, Unpinned
<1>7. PagesContiguous'
  BY <1>4 DEF PoolInv, PagesContiguous
<1>8. /\ PinsMatchGuards' /\ GuardStable' /\ PageTableInverse'
      /\ Partitioned(list, free_list)' /\ FreeFramesEmpty' /\ LocksHaveGuards'
  <2>1. store' \in [Keys -> Data \cup {NoData}]
    BY <1>1, <1>4 DEF TypeOK
  <2> QED BY <1>1, <1>4, <2>1, StoreWork
<1> QED BY <1>5, <1>6, <1>7, <1>8 DEF PoolInv

(* The frame that a call sees next: one of its file, and unpinned if the call *)
(* evicts it.                                                                 *)
LEMMA NextFrame ==
  ASSUME PoolInv, call.todo # {}
  PROVE  /\ call # Idle
         /\ call \in [by : Threads, op : {"force", "flush", "remove"}, file : FileIds,
                      todo : SUBSET Frames]
         /\ call.file \in files
         /\ Min(call.todo) \in call.todo
         /\ Min(call.todo) \in Frames
         /\ key[Min(call.todo)] \in PagesOf(call.file)
         /\ call.op # "force" => pin_count[Min(call.todo)] = 0
<1>1. call # Idle
  BY DEF Idle
<1>2. call \in [by : Threads, op : {"force", "flush", "remove"}, file : FileIds,
                todo : SUBSET Frames]
  BY <1>1 DEF PoolInv, TypeOK
<1>3. Min(call.todo) \in call.todo
  BY <1>2, LeastFrame
<1> QED BY <1>1, <1>2, <1>3 DEF PoolInv, CallKnowsFrames, Unpinned

LEMMA SeeFrameKeeps ==
  ASSUME PoolInv, SeeFrame
  PROVE  PoolInv'
<1> DEFINE f == Min(call.todo)
           evicts == call.op # "force"
<1>1. /\ TypeOK /\ PageTableInverse /\ PinsMatchGuards /\ GuardStable /\ PagesContiguous
      /\ Partitioned(list, free_list) /\ FreeFramesEmpty /\ CallKnowsFrames
  BY DEF PoolInv
<1>2. /\ call # Idle
      /\ call \in [by : Threads, op : {"force", "flush", "remove"}, file : FileIds,
                   todo : SUBSET Frames]
      /\ call.file \in files
      /\ f \in call.todo /\ f \in Frames
      /\ key[f] \in PagesOf(call.file)
      /\ evicts => pin_count[f] = 0
  BY NextFrame DEF SeeFrame
<1>3. /\ store' = Flushed({f})
      /\ dirty' = [dirty EXCEPT ![f] = FALSE]
      /\ call' = [call EXCEPT !.todo = call.todo \ {f}]
      /\ ~evicts => UNCHANGED <<page_table, key, list, free_list>>
      /\ evicts => /\ page_table' = TableWithout({f})
                   /\ key' = [key EXCEPT ![f] = NoKey]
                   /\ list' = Unlink(list, f)
                   /\ free_list' = Append(free_list, f)
      /\ UNCHANGED <<registry, data, pin_count, clients>>
  BY DEF SeeFrame, EvictFrame
<1>4. UNCHANGED <<guard, lock, uses, seen, files, next_file_id>>
  BY <1>3 DEF clients, registry
<1> HIDE DEF f
<1>5. /\ store' \in [Keys -> Data \cup {NoData}]
      /\ \A k \in Keys : store'[k] = NoData <=> store[k] = NoData
  BY <1>1, <1>2, <1>3, FlushedKeeps
<1>6. key[f] \in Keys /\ key[f] # NoKey /\ f \notin Range(free_list)
  <2>1. key[f] \in Keys
    BY <1>2 DEF PagesOf, Keys, FileIds
  <2> QED BY <1>1, <2>1, GuardFacts DEF FreeFramesEmpty
<1>7. /\ call'.by = call.by /\ call'.op = call.op /\ call'.file = call.file
      /\ call'.todo = call.todo \ {f}
      /\ call' \in [by : Threads, op : {"force", "flush", "remove"}, file : FileIds,
                    todo : SUBSET Frames]
  BY <1>2, <1>3
<1>8. PagesContiguous'
  BY <1>1, <1>3, <1>5, SamePages
<1>9. PinsMatchGuards' /\ LocksHaveGuards'
  BY <1>1, <1>3, <1>4 DEF PoolInv, PinsMatchGuards, LocksHaveGuards
<1>10. NoFrame \notin Frames /\ NoKey \notin Keys
  BY <1>1, GuardFacts
<1>11. \A g \in Frames : dirty'[g] = (g # f /\ dirty[g])
  BY <1>1, <1>3 DEF TypeOK
<1>12. CASE ~evicts
  <2>1. UNCHANGED <<page_table, key, list, free_list>>
    BY <1>3, <1>12
  <2>2. TypeOK'
    <3>1. dirty' \in [Frames -> BOOLEAN]
      BY <1>1, <1>3 DEF TypeOK
    <3> QED BY <1>1, <1>3, <1>4, <1>5, <1>7, <2>1, <3>1 DEF TypeOK
  <2>3. GuardStable'
    BY <1>1, <1>4, <2>1 DEF GuardStable
  <2>4. PageTableInverse'
    <3>1. (\A k \in Keys, g \in Frames : page_table[k] = g <=> key[g] = k)'
      BY <1>1, <2>1 DEF PageTableInverse
    <3>2. \A g \in Frames : key[g] # NoKey =>
            key[g] \in Keys /\ FileOf(key[g]) \in files /\ store[key[g]] # NoData
      BY <1>1, TableFacts
    <3>3. \A g \in Frames : key[g] = NoKey => ~dirty'[g]
      BY <1>1, <1>11 DEF PageTableInverse
    <3> QED BY <1>4, <1>5, <2>1, <3>1, <3>2, <3>3 DEF PageTableInverse
  <2>5. Partitioned(list, free_list)' /\ FreeFramesEmpty'
    BY <1>1, <1>3, <2>1 DEF Partitioned, FreeFramesEmpty
  <2>6. CallKnowsFrames'
    BY <1>1, <1>2, <1>4, <1>7, <1>12, <2>1 DEF CallKnowsFrames
  <2> QED BY <1>8, <1>9, <2>2, <2>3, <2>4, <2>5, <2>6 DEF PoolInv
<1>13. CASE evicts
  <2>1. /\ page_table' = TableWithout({f})
        /\ key' = [key EXCEPT ![f] = NoKey]
        /\ list' = Unlink(list, f)
        /\ free_list' = Append(free_list, f)
    BY <1>3, <1>13
  <2>2. \A j \in Keys : page_table'[j] = IF page_table[j] = f THEN NoFrame ELSE page_table[j]
    BY <2>1 DEF TableWithout
  <2>3. \A g \in Frames : key'[g] = IF g = f THEN NoKey ELSE key[g]
    BY <1>1, <2>1 DEF TypeOK
  <2>4. /\ Partitioned(list, free_list)' /\ list' \in Lists
        /\ Range(free_list') = Range(free_list) \cup {f}
    BY <1>1, <1>2, <1>6, <2>1, ReleaseKeeps
  <2>5. pin_count[f] = 0
    BY <1>2, <1>13
  <2>6. TypeOK'
    <3>1. page_table' \in [Keys -> Frames \cup {NoFrame}]
      BY <1>1, <2>1 DEF TypeOK, TableWithout
    <3>2. key' \in [Frames -> Keys \cup {NoKey}] /\ dirty' \in [Frames -> BOOLEAN]
      BY <1>1, <1>3, <2>1 DEF TypeOK
    <3>3. free_list' \in Seq(Frames)
      BY <2>4 DEF Partitioned
    <3> QED BY <1>1, <1>3, <1>4, <1>5, <1>7, <2>4, <3>1, <3>2, <3>3 DEF TypeOK
  <2>7. GuardStable'
    <3> SUFFICES ASSUME NEW u \in Threads, guard[u] # NoGuard
                 PROVE  key'[guard[u].frame] = guard[u].key
                        /\ page_table'[guard[u].key] = guard[u].frame
      BY <1>4 DEF GuardStable
    <3>1. /\ guard[u].frame \in Frames /\ guard[u].key \in Keys
          /\ key[guard[u].frame] = guard[u].key
          /\ page_table[guard[u].key] = guard[u].frame
          /\ pin_count[guard[u].frame] # 0
      BY GuardedPage
    <3> QED BY <2>2, <2>3, <2>5, <3>1
  <2>8. PageTableInverse'
    <3>1. \A j \in Keys, g \in Frames : page_table'[j] = g <=> key'[g] = j
      BY <1>1, <1>2, <1>10, <2>2, <2>3 DEF PageTableInverse
    <3>2. \A g \in Frames : key[g] # NoKey =>
            key[g] \in Keys /\ FileOf(key[g]) \in files /\ store[key[g]] # NoData
      BY <1>1, TableFacts
    <3>3. \A g \in Frames : key'[g] = NoKey => ~dirty'[g]
      BY <1>1, <1>11, <2>3 DEF PageTableInverse
    <3> QED BY <1>4, <1>5, <2>3, <3>1, <3>2, <3>3 DEF PageTableInverse
  <2>9. FreeFramesEmpty'
    <3>1. \A g \in Range(free_list) : g \in Frames
      BY <1>1 DEF Partitioned, Range
    <3> QED BY <1>1, <1>2, <1>3, <2>3, <2>4, <2>5, <3>1 DEF FreeFramesEmpty
  <2>10. CallKnowsFrames'
    <3>1. FramesOf(PagesOf(call.file)) = call.todo /\ call.todo \subseteq Unpinned
      BY <1>1, <1>2, <1>13 DEF CallKnowsFrames
    <3>2. \A g \in Frames : key[g] \in PagesOf(call.file) <=> g \in call.todo
      BY <3>1, <1>2 DEF FramesOf
    <3>3. NoKey \notin PagesOf(call.file)
      BY <1>2, <1>10 DEF PagesOf, Keys
    <3>4. \A g \in Frames : key'[g] \in PagesOf(call.file) <=> g \in call.todo \ {f}
      BY <2>3, <3>2, <3>3
    <3>5. FramesOf(PagesOf(call.file))' = call.todo \ {f}
      BY <1>2, <1>7, <3>4 DEF FramesOf, PagesOf
    <3>6. call.todo \ {f} \subseteq Unpinned'
      BY <1>3, <3>1 DEF Unpinned
    <3>7. \A g \in call.todo \ {f} : key'[g] \in PagesOf(call.file)
      BY <1>2, <3>4
    <3> QED BY <1>2, <1>4, <1>7, <3>5, <3>6, <3>7 DEF CallKnowsFrames, PagesOf
  <2> QED BY <1>8, <1>9, <2>4, <2>6, <2>7, <2>8, <2>9, <2>10 DEF PoolInv
<1> QED BY <1>12, <1>13

LEMMA EndCallKeeps ==
  ASSUME PoolInv, EndCall
  PROVE  PoolInv'
<1>1. /\ TypeOK /\ PageTableInverse /\ PagesContiguous /\ CallKnowsFrames
      /\ call # Idle /\ call.todo = {} /\ call' = Idle
      /\ files' = IF call.op = "remove" THEN files \ {call.file} ELSE files
      /\ UNCHANGED <<next_file_id, store, pool, clients>>
  BY DEF PoolInv, EndCall
<1>2. /\ UNCHANGED <<page_table, key, data, dirty, pin_count, list, free_list>>
      /\ UNCHANGED <<guard, lock, uses, seen>>
      /\ files' \subseteq files
  BY <1>1 DEF pool, clients
<1>3. TypeOK'
  BY <1>1, <1>2 DEF TypeOK
<1>4. /\ PinsMatchGuards' /\ GuardStable' /\ LocksHaveGuards'
      /\ Partitioned(list, free_list)' /\ FreeFramesEmpty'
  <2>1. store' \in [Keys -> Data \cup {NoData}]
    BY <1>1 DEF TypeOK
  <2> QED BY <1>1, <2>1, StoreWork
<1>5. PageTableInverse'
  <2>1. (\A k \in Keys, f \in Frames : page_table[k] = f <=> key[f] = k)'
    BY <1>1, <1>2 DEF PageTableInverse
  <2>2. ASSUME NEW f \in Frames, key[f] # NoKey
        PROVE  FileOf(key[f]) \in files' /\ store[key[f]] # NoData
    <3>1. key[f] \in Keys /\ FileOf(key[f]) \in files /\ store[key[f]] # NoData
      BY <1>1, <2>2, TableFacts
    <3>2. CASE call.op = "remove"
      <4>1. FramesOf(PagesOf(call.file)) = {}
        BY <1>1, <3>2 DEF CallKnowsFrames
      <4>2. key[f] \notin PagesOf(call.file)
        BY <4>1 DEF FramesOf
      <4>3. FileOf(key[f]) # call.file
        BY <3>1, <4>2 DEF PagesOf, Keys, FileOf
      <4> QED BY <1>1, <3>1, <3>2, <4>3
    <3>3. CASE call.op # "remove"
      BY <1>1, <3>1, <3>3
    <3> QED BY <3>2, <3>3
  <2>3. \A f \in Frames : key[f] = NoKey => ~dirty[f]
    BY <1>1 DEF PageTableInverse
  <2> QED BY <1>1, <1>2, <2>1, <2>2, <2>3 DEF PageTableInverse
<1>6. PagesContiguous'
  BY <1>1, <1>2 DEF PagesContiguous
<1>7. CallKnowsFrames'
  BY <1>1 DEF CallKnowsFrames
<1> QED BY <1>3, <1>4, <1>5, <1>6, <1>7 DEF PoolInv

LEMMA CallFailsKeeps ==
  ASSUME PoolInv, CallFails
  PROVE  PoolInv'
<1>1. /\ TypeOK /\ PageTableInverse /\ PagesContiguous
      /\ call' = Idle /\ UNCHANGED <<registry, pool, clients>>
      /\ \/ store' = store
         \/ call.todo # {} /\ store' = Flushed({Min(call.todo)})
  BY DEF PoolInv, CallFails
<1>2. /\ store' \in [Keys -> Data \cup {NoData}]
      /\ \A k \in Keys : store'[k] = NoData <=> store[k] = NoData
  <2>1. CASE store' = store
    BY <1>1, <2>1 DEF TypeOK
  <2>2. CASE call.todo # {} /\ store' = Flushed({Min(call.todo)})
    <3>1. Min(call.todo) \in Frames
      BY <2>2, NextFrame
    <3> QED BY <1>1, <2>2, <3>1, FlushedKeeps
  <2> QED BY <1>1, <2>1, <2>2
<1>3. TypeOK'
  BY <1>1, <1>2 DEF TypeOK, registry, pool, clients
<1>4. PagesContiguous'
  BY <1>1, <1>2, SamePages
<1>5. CallKnowsFrames' /\ files \subseteq files'
  BY <1>1 DEF CallKnowsFrames, registry
<1> QED BY <1>1, <1>2, <1>3, <1>4, <1>5, StoreWork DEF PoolInv

LEMMA StepKeepsPool ==
  ASSUME PoolInv, [Next]_vars
  PROVE  PoolInv'
<1>1. ASSUME NEW t \in Threads, NEW id \in FileIds, NEW ks \in SUBSET Keys, ForceFile(t, id, ks)
      PROVE  PoolInv'
  <2>1. ks \subseteq PagesOf(id)
    BY <1>1 DEF ForceFile
  <2> QED BY <1>1, <2>1, BeginCallKeeps DEF ForceFile
<1>2. ASSUME NEW t \in Threads, NEW id \in FileIds, FlushFile(t, id) \/ RemoveFile(t, id)
      PROVE  PoolInv'
  BY <1>2, BeginCallKeeps DEF FlushFile, RemoveFile
<1>3. CASE UNCHANGED vars
  <2>1. UNCHANGED <<registry, store, page_table, key, dirty, pin_count, list, free_list,
                    call, guard>> /\ UNCHANGED <<data, lock, uses, seen>>
    BY <1>3 DEF vars, pool, clients
  <2>2. TypeOK' /\ LocksHaveGuards'
    BY <2>1 DEF PoolInv, TypeOK, LocksHaveGuards, registry
  <2> QED BY <2>1, <2>2, DataWork
<1>4. CASE Next
  BY <1>1, <1>2, <1>4, RegisterFileKeeps, GetCachedPageKeeps, LoadPageKeeps, AllocatePageKeeps,
     DropGuardKeeps, BeginReadKeeps, EndReadKeeps, BeginWriteKeeps, EndWriteKeeps,
     FailAfterAcquireKeeps, FailInAcquireKeeps, SeeFrameKeeps, EndCallKeeps, CallFailsKeeps
     DEF Next
<1> QED BY <1>3, <1>4

-----------------------------------------------------------------------------
(* The results.                                                            *)

(* The invariant from which the others follow. *)
THEOREM PoolConsistent == Spec => []PoolInv
<1>1. Init => PoolInv
  BY InitPool
<1>2. PoolInv /\ [Next]_vars => PoolInv'
  BY StepKeepsPool
<1> QED BY <1>1, <1>2, PTL DEF Spec

(* The state of the pool has its type. *)
THEOREM PoolTypeCorrect == Spec => []TypeOK
<1>1. PoolInv => TypeOK
  BY DEF PoolInv
<1> QED BY <1>1, PoolConsistent, PTL

(* Pins neither leak nor get lost: a frame has as many as there are guards on it. *)
THEOREM PinsAreGuards == Spec => []PinsMatchGuards
<1>1. PoolInv => PinsMatchGuards
  BY DEF PoolInv
<1> QED BY <1>1, PoolConsistent, PTL

(* The frame of a guard keeps its page. *)
THEOREM GuardsKeepTheirPages == Spec => []GuardStable
<1>1. PoolInv => GuardStable
  BY DEF PoolInv
<1> QED BY <1>1, PoolConsistent, PTL

(* The page table and the keys of the frames agree, and dirty frames can be   *)
(* written back.                                                              *)
THEOREM TableAndKeysAgree == Spec => []PageTableInverse
<1>1. PoolInv => PageTableInverse
  BY DEF PoolInv
<1> QED BY <1>1, PoolConsistent, PTL

(* No frame is lost to the pool: each is in the list or in the free list, once. *)
THEOREM NoFrameIsLost == Spec => []FramesPartitioned
<1>1. PoolInv => FramesPartitioned
  BY DEF PoolInv, Partitioned, Ordered, FreeFramesEmpty, FramesPartitioned
<1> QED BY <1>1, PoolConsistent, PTL
=============================================================================
