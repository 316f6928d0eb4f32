----------------------------- MODULE QueryProofs ------------------------------
(***************************************************************************)
(* Proofs about the query engine, for every schema, every table and every  *)
(* request: what a request does to the bytes of a page and what it answers *)
(* is what it means for the rows.                                          *)
(***************************************************************************)
EXTENDS QueryMeaning, RecordPageProofs, Recursion, FunctionTheorems, SequenceTheorems

-----------------------------------------------------------------------------
(* Counting and order.                                                     *)

(* A list names nothing twice if it names as many things as it is long. *)
LEMMA OnceIsInjective ==
  ASSUME NEW S, NEW s \in Seq(S)
  PROVE  /\ IsInjective(s) <=> Cardinality(Range(s)) = Len(s)
         /\ IsFiniteSet(Range(s)) /\ Cardinality(Range(s)) <= Len(s)
<1>1. Len(s) \in Nat /\ s \in [1 .. Len(s) -> S]
  OBVIOUS
<1>2. s \in Surjection(1 .. Len(s), Range(s))
  BY <1>1, Fun_RangeProperties
<1>3. IsFiniteSet(1 .. Len(s)) /\ Cardinality(1 .. Len(s)) = Len(s)
  BY <1>1, FS_Interval
<1>4. /\ IsFiniteSet(Range(s)) /\ Cardinality(Range(s)) <= Len(s)
      /\ Cardinality(Range(s)) = Len(s) <=> s \in Injection(1 .. Len(s), Range(s))
  BY <1>2, <1>3, FS_Surjection
<1>5. s \in Injection(1 .. Len(s), Range(s)) <=> IsInjective(s)
  BY <1>1, <1>2 DEF Injection, Surjection
<1> QED BY <1>4, <1>5

\* before is a set of pairs that orders S.
Orders(before, S) ==
  /\ \A x \in S : <<x, x>> \notin before
  /\ \A x, y, z \in S : <<x, y>> \in before /\ <<y, z>> \in before => <<x, z>> \in before
  /\ \A x, y \in S : x = y \/ <<x, y>> \in before \/ <<y, x>> \in before

Behind(S, before, x) == {y \in S : <<y, x>> \in before}
Rank(S, before, x) == Cardinality(Behind(S, before, x))

(* What comes later has more before it. *)
LEMMA RanksAscend ==
  ASSUME NEW S, IsFiniteSet(S), NEW before, Orders(before, S), NEW x \in S, NEW y \in S
  PROVE  /\ Rank(S, before, x) \in 0 .. Cardinality(S) - 1
         /\ <<x, y>> \in before <=> Rank(S, before, x) < Rank(S, before, y)
         /\ Rank(S, before, x) = Rank(S, before, y) => x = y
<1>1. ASSUME NEW z \in S
      PROVE  /\ IsFiniteSet(Behind(S, before, z)) /\ Rank(S, before, z) \in Nat
             /\ Rank(S, before, z) <= Cardinality(S) - 1 /\ Cardinality(S) \in Nat
  <2>1. Behind(S, before, z) \in SUBSET (S \ {z})
    BY DEF Behind, Orders
  <2>2. IsFiniteSet(S \ {z}) /\ Cardinality(S \ {z}) = Cardinality(S) - 1
    BY FS_RemoveElement
  <2>3. IsFiniteSet(Behind(S, before, z)) /\ Rank(S, before, z) <= Cardinality(S \ {z})
    BY <2>1, <2>2, FS_Subset DEF Rank
  <2> QED BY <2>2, <2>3, FS_CardinalityType DEF Rank
<1>2. ASSUME NEW u \in S, NEW v \in S, <<u, v>> \in before
      PROVE  Rank(S, before, u) < Rank(S, before, v)
  <2>1. Behind(S, before, u) \subseteq Behind(S, before, v)
    BY <1>2 DEF Behind, Orders
  <2>2. u \in Behind(S, before, v) /\ u \notin Behind(S, before, u)
    BY <1>2 DEF Behind, Orders
  <2>3. /\ Rank(S, before, u) <= Rank(S, before, v)
        /\ Rank(S, before, u) # Rank(S, before, v)
    BY <1>1, <2>1, <2>2, FS_Subset DEF Rank
  <2> QED BY <1>1, <2>3
<1>3. x = y \/ <<x, y>> \in before \/ <<y, x>> \in before
  BY DEF Orders
<1>4. <<x, y>> \in before => Rank(S, before, x) < Rank(S, before, y)
  BY <1>2
<1>5. <<y, x>> \in before => Rank(S, before, y) < Rank(S, before, x)
  BY <1>2
<1>6. /\ Rank(S, before, x) \in Nat /\ Rank(S, before, x) <= Cardinality(S) - 1
      /\ Rank(S, before, y) \in Nat /\ Cardinality(S) \in Nat
  BY <1>1
<1> QED BY <1>3, <1>4, <1>5, <1>6

(* InOrder lists every member once, in the order. *)
LEMMA InOrderLists ==
  ASSUME NEW S, IsFiniteSet(S), NEW before, Orders(before, S)
  PROVE  /\ Cardinality(S) \in Nat
         /\ InOrder(S, before) \in [1 .. Cardinality(S) -> S]
         /\ \A n \in 1 .. Cardinality(S) : Rank(S, before, InOrder(S, before)[n]) = n - 1
         /\ \A x \in S : \E n \in 1 .. Cardinality(S) : InOrder(S, before)[n] = x
         /\ \A m, n \in 1 .. Cardinality(S) :
              m < n <=> <<InOrder(S, before)[m], InOrder(S, before)[n]>> \in before
<1> DEFINE k == Cardinality(S)
           place == [x \in S |-> Rank(S, before, x) + 1]
           list == InOrder(S, before)
<1>1. k \in Nat
  BY FS_CardinalityType
<1>2. place \in Injection(S, 1 .. k)
  <2>1. ASSUME NEW x \in S PROVE Rank(S, before, x) + 1 \in 1 .. k
    <3>1. Rank(S, before, x) \in 0 .. k - 1
      BY RanksAscend
    <3> QED BY <1>1, <3>1
  <2>2. ASSUME NEW x \in S, NEW y \in S, Rank(S, before, x) + 1 = Rank(S, before, y) + 1
        PROVE  x = y
    <3>1. Rank(S, before, x) \in 0 .. k - 1 /\ Rank(S, before, y) \in 0 .. k - 1
      BY RanksAscend
    <3>2. Rank(S, before, x) = Rank(S, before, y)
      BY <1>1, <2>2, <3>1
    <3> QED BY <3>2, RanksAscend
  <2> HIDE DEF k
  <2> QED BY <2>1, <2>2, Fun_IsInj
<1>3. place \in Surjection(S, 1 .. k)
  <2>1. IsFiniteSet(1 .. k) /\ Cardinality(1 .. k) = Cardinality(S)
    BY <1>1, FS_Interval
  <2> HIDE DEF k, place
  <2> QED BY <1>2, <2>1, FS_Injection
<1>4. ASSUME NEW n \in 1 .. k
      PROVE  list[n] \in S /\ Rank(S, before, list[n]) = n - 1
  <2>1. PICK x \in S : place[x] = n
    BY <1>3 DEF Surjection
  <2>2. Rank(S, before, x) = n - 1
    <3>1. Rank(S, before, x) \in 0 .. k - 1
      BY RanksAscend
    <3> QED BY <2>1, <3>1, <1>1
  <2>3. list[n] = CHOOSE y \in S : Rank(S, before, y) = n - 1
    BY DEF InOrder, Rank, Behind
  <2> QED BY <2>2, <2>3
<1>5. list \in [1 .. k -> S]
  BY <1>4 DEF InOrder
<1>6. ASSUME NEW x \in S PROVE \E n \in 1 .. k : list[n] = x
  <2>1. PICK n \in 1 .. k : n = Rank(S, before, x) + 1
    <3>1. Rank(S, before, x) \in 0 .. k - 1
      BY RanksAscend
    <3> QED BY <1>1, <3>1
  <2>2. Rank(S, before, x) = n - 1
    <3>1. Rank(S, before, x) \in 0 .. k - 1
      BY RanksAscend
    <3> QED BY <2>1, <3>1, <1>1
  <2>3. list[n] \in S /\ Rank(S, before, list[n]) = Rank(S, before, x)
    BY <1>4, <2>2
  <2>4. list[n] = x
    BY <2>3, RanksAscend
  <2> QED BY <2>4
<1>7. ASSUME NEW m \in 1 .. k, NEW n \in 1 .. k
      PROVE  m < n <=> <<list[m], list[n]>> \in before
  <2>1. /\ list[m] \in S /\ Rank(S, before, list[m]) = m - 1
        /\ list[n] \in S /\ Rank(S, before, list[n]) = n - 1
    BY <1>4
  <2>2. <<list[m], list[n]>> \in before <=> m - 1 < n - 1
    <3> HIDE DEF list
    <3> QED BY <2>1, RanksAscend
  <2> QED BY <1>1, <2>2
<1> QED BY <1>1, <1>4, <1>5, <1>6, <1>7

(* There is no other list of them in that order. *)
LEMMA InOrderAlone ==
  ASSUME NEW S, IsFiniteSet(S), NEW before, Orders(before, S),
         NEW list \in [1 .. Cardinality(S) -> S],
         \A m, n \in 1 .. Cardinality(S) : m < n => <<list[m], list[n]>> \in before
  PROVE  list = InOrder(S, before)
<1> DEFINE k == Cardinality(S)
<1>1. k \in Nat
  BY FS_CardinalityType
<1>2. list \in Injection(1 .. k, S)
  <2>1. ASSUME NEW m \in 1 .. k, NEW n \in 1 .. k, list[m] = list[n] PROVE m = n
    <3>1. ~(m < n) /\ ~(n < m)
      BY <2>1 DEF Orders
    <3> QED BY <1>1, <3>1
  <2> QED BY <2>1, Fun_IsInj
<1>3. list \in Surjection(1 .. k, S)
  <2>1. IsFiniteSet(1 .. k) /\ Cardinality(1 .. k) = Cardinality(S)
    BY <1>1, FS_Interval
  <2> HIDE DEF k
  <2> QED BY <1>2, <2>1, FS_Injection
<1>4. ASSUME NEW n \in 1 .. k PROVE Rank(S, before, list[n]) = n - 1
  <2>1. ASSUME NEW m \in 1 .. k PROVE <<list[m], list[n]>> \in before <=> m < n
    <3>1. m < n => <<list[m], list[n]>> \in before
      OBVIOUS
    <3>2. n < m => <<list[n], list[m]>> \in before
      OBVIOUS
    <3>3. list[m] \in S /\ list[n] \in S
      OBVIOUS
    <3>4. <<list[n], list[m]>> \in before => <<list[m], list[n]>> \notin before
      BY <3>3 DEF Orders
    <3>5. m = n => <<list[m], list[n]>> \notin before
      BY <3>3 DEF Orders
    <3> QED BY <1>1, <3>1, <3>2, <3>4, <3>5
  <2> DEFINE part == [m \in 1 .. n - 1 |-> list[m]]
  <2>2. n \in Nat /\ n - 1 \in Int /\ \A m \in 1 .. n - 1 : m \in 1 .. k /\ m < n
    BY <1>1
  <2>3. part \in [1 .. n - 1 -> Behind(S, before, list[n])]
    BY <2>1, <2>2 DEF Behind
  <2>4. \A x \in Behind(S, before, list[n]) : \E m \in 1 .. n - 1 : part[m] = x
    <3> SUFFICES ASSUME NEW x \in S, <<x, list[n]>> \in before
                 PROVE  \E m \in 1 .. n - 1 : part[m] = x
      BY DEF Behind
    <3>1. PICK m \in 1 .. k : list[m] = x
      BY <1>3 DEF Surjection
    <3>2. m < n
      BY <2>1, <3>1
    <3>3. m \in 1 .. n - 1
      BY <1>1, <3>2
    <3> QED BY <3>1, <3>3
  <2>5. ASSUME NEW a \in 1 .. n - 1, NEW b \in 1 .. n - 1, part[a] = part[b] PROVE a = b
    <3>1. a \in 1 .. k /\ b \in 1 .. k /\ list[a] = list[b]
      BY <2>2, <2>5
    <3> QED BY <1>2, <3>1 DEF Injection, IsInjective
  <2>6. part \in Bijection(1 .. n - 1, Behind(S, before, list[n]))
    <3> HIDE DEF part
    <3> QED BY <2>3, <2>4, <2>5, Fun_IsBij
  <2>7. ExistsBijection(1 .. n - 1, Behind(S, before, list[n]))
    BY <2>6 DEF ExistsBijection
  <2>8. n - 1 \in Nat
    BY <1>1
  <2> QED BY <2>7, <2>8, FS_CountingElements DEF Rank
<1>5. ASSUME NEW n \in 1 .. k PROVE list[n] = InOrder(S, before)[n]
  <2>1. /\ InOrder(S, before)[n] \in S /\ Rank(S, before, InOrder(S, before)[n]) = n - 1
    <3>1. \A m \in 1 .. Cardinality(S) : Rank(S, before, InOrder(S, before)[m]) = m - 1
      BY InOrderLists
    <3>2. InOrder(S, before) \in [1 .. Cardinality(S) -> S]
      BY InOrderLists
    <3> QED BY <3>1, <3>2
  <2>2. list[n] \in S /\ Rank(S, before, list[n]) = n - 1
    BY <1>4
  <2> QED BY <2>1, <2>2, RanksAscend
<1>6. InOrder(S, before) \in [1 .. k -> S]
  BY InOrderLists
<1>7. list \in [1 .. k -> S]
  OBVIOUS
<1> HIDE DEF k
<1>8. /\ list = [n \in 1 .. k |-> list[n]]
      /\ InOrder(S, before) = [n \in 1 .. k |-> InOrder(S, before)[n]]
  BY <1>6, <1>7
<1>9. [n \in 1 .. k |-> list[n]] = [n \in 1 .. k |-> InOrder(S, before)[n]]
  BY <1>5
<1> QED BY <1>8, <1>9

-----------------------------------------------------------------------------
(* Layout.                                                                 *)

(* Two field types are the same if their kinds and lengths are. *)
LEMMA TypesOfFields ==
  ASSUME NEW type \in FieldTypes
  PROVE  /\ type.len \in Nat /\ type.kind \in {"Int32", "Float32", "Char"}
         /\ type.kind \in {"Int32", "Float32"} => type.len = 4
         /\ \A other \in FieldTypes :
              type = other <=> type.kind = other.kind /\ type.len = other.len
BY DEF FieldTypes, Int32, Float32

(* The columns of the schema, and their types. *)
LEMMA ColumnTypes ==
  /\ Len(Schema) \in Nat \ {0} /\ Columns = 1 .. Len(Schema)
  /\ \A c \in Columns :
       /\ Schema[c] \in FieldTypes /\ Schema[c].len \in Nat \ {0}
       /\ Schema[c].kind \in {"Int32", "Float32", "Char"}
       /\ Schema[c].kind \in {"Int32", "Float32"} => Schema[c].len = 4
<1>1. Len(Schema) \in Nat \ {0} /\ Columns = 1 .. Len(Schema)
  BY SchemaAssumption DEF Columns
<1>2. ASSUME NEW c \in Columns PROVE Schema[c] \in FieldTypes /\ Schema[c].len > 0
  BY <1>1, SchemaAssumption DEF Columns
<1> QED BY <1>1, <1>2, TypesOfFields

(* Ends adds the lengths up, type by type. *)
LEMMA EndsStepwise ==
  ASSUME NEW types \in Seq(FieldTypes)
  PROVE  /\ Len(types) \in Nat /\ Ends(types) \in [0 .. Len(types) -> Nat]
         /\ Ends(types)[0] = 0
         /\ \A n \in 1 .. Len(types) :
              Ends(types)[n - 1] \in Nat /\ Ends(types)[n] = Ends(types)[n - 1] + types[n].len
<1> DEFINE k == Len(types)
           len == [n \in 1 .. k |-> types[n].len]
           Is(f) == f = [n \in 0 .. k |-> IF n = 0 THEN 0 ELSE f[n - 1] + types[n].len]
           step == [x \in Nat \X Nat |-> IF x[1] + 1 \in 1 .. k THEN x[2] + len[x[1] + 1] ELSE 0]
<1>1. k \in Nat
  OBVIOUS
<1>2. len \in [1 .. k -> Nat]
  BY TypesOfFields
<1>3. step \in Steps(Nat)
  <2> HIDE DEF len, k
  <2> SUFFICES ASSUME NEW x \in Nat \X Nat
               PROVE  (IF x[1] + 1 \in 1 .. k THEN x[2] + len[x[1] + 1] ELSE 0) \in Nat
    BY DEF Steps
  <2> QED BY <1>1, <1>2
<1>4. PICK g : /\ g = [n \in 0 .. k |-> IF n = 0 THEN 0 ELSE step[<<n - 1, g[n - 1]>>]]
               /\ g \in [0 .. k -> Nat]
  <2>1. 0 \in Nat
    OBVIOUS
  <2> HIDE DEF step, k, Is, len
  <2> QED BY <1>1, <1>3, <2>1, RecursionUpTo
<1>5. ASSUME NEW n \in 1 .. k PROVE g[n] = g[n - 1] + types[n].len
  <2>1. n \in 0 .. k /\ n # 0 /\ n - 1 \in 0 .. k /\ n - 1 \in Nat /\ (n - 1) + 1 = n
    BY <1>1
  <2>2. g[n - 1] \in Nat
    BY <1>4, <2>1
  <2>3. step[<<n - 1, g[n - 1]>>] = g[n - 1] + len[n]
    <3> HIDE DEF len, k
    <3> QED BY <2>1, <2>2
  <2>4. g[n] = step[<<n - 1, g[n - 1]>>]
    <3> HIDE DEF step, k
    <3> QED BY <1>4, <2>1
  <2> QED BY <2>3, <2>4
<1>6. g[0] = 0
  <2> HIDE DEF step
  <2> QED BY <1>1, <1>4
<1>7. Is(g)
  <2>1. \A n \in 0 .. k : g[n] = IF n = 0 THEN 0 ELSE g[n - 1] + types[n].len
    BY <1>1, <1>5, <1>6
  <2>2. g = [n \in 0 .. k |-> g[n]]
    BY <1>4
  <2> QED BY <2>1, <2>2
<1>8. Ends(types) = CHOOSE f : Is(f)
  BY DEF Ends
<1> HIDE DEF Is, len, step
<1>9. Is(Ends(types))
  BY <1>7, <1>8
<1> DEFINE end == Ends(types)
<1>10. end = [n \in 0 .. k |-> IF n = 0 THEN 0 ELSE end[n - 1] + types[n].len]
  BY <1>9 DEF Is
<1> HIDE DEF end, k
<1>11. end[0] = 0 /\ \A n \in 1 .. k : end[n] = end[n - 1] + types[n].len
  BY <1>1, <1>10
<1>12. \A n \in 0 .. k : end[n] \in Nat
  <2> DEFINE T == {n \in Nat : n <= k => end[n] \in Nat}
  <2>1. 0 \in T
    BY <1>11
  <2>2. ASSUME NEW n \in Nat, n \in T PROVE n + 1 \in T
    <3> SUFFICES ASSUME n + 1 <= k PROVE end[n + 1] \in Nat
      OBVIOUS
    <3>1. PICK m \in 1 .. k : m = n + 1 /\ m - 1 = n
      BY <1>1
    <3>2. end[m] = end[m - 1] + len[m]
      BY <1>11, <3>1 DEF len
    <3>3. len[m] \in Nat /\ end[n] \in Nat
      BY <1>1, <1>2, <2>2, <3>1
    <3> QED BY <3>1, <3>2, <3>3
  <2> HIDE DEF T
  <2>3. Nat \subseteq T
    BY <2>1, <2>2, Induction
  <2> QED BY <1>1, <2>3 DEF T
<1>13. end \in [0 .. k -> Nat]
  BY <1>10, <1>12
<1>14. ASSUME NEW n \in 1 .. k PROVE end[n - 1] \in Nat
  BY <1>1, <1>12
<1> QED BY <1>1, <1>11, <1>13, <1>14 DEF end, k

(* A type behind another ends behind it. *)
LEMMA EndsAscend ==
  ASSUME NEW types \in Seq(FieldTypes), NEW m \in 0 .. Len(types), NEW n \in m .. Len(types)
  PROVE  Ends(types)[m] <= Ends(types)[n]
<1> DEFINE end == Ends(types)
           k == Len(types)
           T == {i \in Nat : i <= k => i < m \/ end[m] <= end[i]}
<1>1. k \in Nat /\ end \in [0 .. k -> Nat]
  BY EndsStepwise
<1>2. ASSUME NEW i \in 1 .. k PROVE end[i - 1] \in Nat /\ end[i - 1] <= end[i]
  <2>1. end[i - 1] \in Nat /\ end[i] = end[i - 1] + types[i].len
    BY EndsStepwise
  <2>2. types[i].len \in Nat
    BY TypesOfFields
  <2> HIDE DEF end
  <2> QED BY <2>1, <2>2
<1> HIDE DEF end
<1>3. 0 \in T
  BY <1>1
<1>4. ASSUME NEW i \in Nat, i \in T PROVE i + 1 \in T
  <2> SUFFICES ASSUME i + 1 <= k, m <= i + 1 PROVE end[m] <= end[i + 1]
    BY <1>1
  <2>1. PICK j \in 1 .. k : j = i + 1 /\ j - 1 = i
    BY <1>1
  <2>2. end[i] \in Nat /\ end[i] <= end[j] /\ end[j] \in Nat /\ end[m] \in Nat
    <3>1. end[j - 1] \in Nat /\ end[j - 1] <= end[j]
      BY <1>2
    <3>2. end[j] \in Nat /\ end[m] \in Nat
      BY <1>1
    <3> QED BY <2>1, <3>1, <3>2
  <2>3. CASE m = i + 1
    BY <2>1, <2>2, <2>3
  <2>4. CASE m <= i
    <3>1. end[m] <= end[i]
      BY <1>1, <1>4, <2>1, <2>4
    <3> QED BY <2>1, <2>2, <3>1
  <2> QED BY <1>1, <2>3, <2>4
<1> HIDE DEF T
<1>5. Nat \subseteq T
  BY <1>3, <1>4, Induction
<1> QED BY <1>1, <1>5 DEF T, end

(* Every byte of a record lies in one column. *)
LEMMA BytesHaveColumns ==
  ASSUME NEW types \in Seq(FieldTypes), NEW at \in 1 .. RecordSize(types)
  PROVE  \E c \in 1 .. Len(types) : Ends(types)[c - 1] < at /\ at <= Ends(types)[c]
<1> DEFINE end == Ends(types)
           k == Len(types)
           T == {n \in Nat : n <= k /\ at <= end[n]}
<1>1. /\ k \in Nat /\ end \in [0 .. k -> Nat] /\ end[0] = 0
      /\ RecordSize(types) = end[k]
  BY EndsStepwise DEF RecordSize
<1> HIDE DEF end
<1>2. k \in T
  BY <1>1
<1>3. PICK c \in T : \A j \in T : c <= j
  <2>1. T \in SUBSET Nat /\ T # {}
    BY <1>2
  <2> HIDE DEF T
  <2> QED BY <2>1, LeastNumber
<1>4. c # 0
  BY <1>1, <1>3
<1>5. c \in 1 .. k /\ c - 1 \in 0 .. k /\ c - 1 \in Nat /\ at <= end[c]
  BY <1>1, <1>3, <1>4
<1>6. ~(at <= end[c - 1])
  <2>1. c - 1 \notin T
    BY <1>3, <1>5
  <2> QED BY <1>1, <1>5, <2>1
<1>7. end[c - 1] \in Nat
  BY <1>1, <1>5
<1> QED BY <1>1, <1>5, <1>6, <1>7 DEF end

(* A column ends where the next one starts or before it. *)
LEMMA ColumnsApart ==
  ASSUME NEW types \in Seq(FieldTypes), NEW c \in 1 .. Len(types), NEW d \in 1 .. Len(types),
         c < d
  PROVE  Ends(types)[c] <= Ends(types)[d - 1]
<1>1. Len(types) \in Nat
  OBVIOUS
<1>2. c \in 0 .. Len(types) /\ d - 1 \in c .. Len(types)
  BY <1>1
<1> QED BY <1>2, EndsAscend

(* The columns of a row lie in it, one behind the other. *)
LEMMA ColumnsInRow ==
  /\ RowSize \in Nat \ {0} /\ Slots \in Nat \ {0} /\ UsedBytes(Slots, RowSize) <= PAGE_DATA_SIZE
  /\ \A c \in Columns :
       /\ ColumnOffset[c] \in Nat
       /\ ColumnOffset[c] + Schema[c].len <= RowSize
       /\ \A d \in Columns : c < d => ColumnOffset[c] + Schema[c].len <= ColumnOffset[d]
  /\ \A at \in 1 .. RowSize : \E c \in Columns : at \in Cell(c)
<1> DEFINE k == Len(Schema)
           end == Ends(Schema)
<1>1. k \in Nat \ {0} /\ Columns = 1 .. k /\ Schema \in Seq(FieldTypes)
  BY ColumnTypes, SchemaAssumption
<1>2. ASSUME NEW c \in Columns
      PROVE  /\ ColumnOffset[c] = end[c - 1] /\ end[c - 1] \in Nat /\ end[c] \in Nat
             /\ Schema[c].len \in Nat \ {0}
             /\ end[c] = ColumnOffset[c] + Schema[c].len
  <2>1. end[c - 1] \in Nat /\ end[c] = end[c - 1] + Schema[c].len
    BY <1>1, EndsStepwise
  <2>2. ColumnOffset[c] = end[c - 1]
    BY DEF ColumnOffset, Offset
  <2>3. Schema[c].len \in Nat \ {0}
    BY ColumnTypes
  <2> HIDE DEF end
  <2> QED BY <2>1, <2>2, <2>3
<1>3. RowSize = end[k] /\ end[k] \in Nat
  BY <1>1, EndsStepwise DEF RowSize, RecordSize
<1>4. ASSUME NEW c \in Columns PROVE end[c] <= end[k]
  <2>1. c \in 0 .. k /\ k \in c .. k
    BY <1>1
  <2> QED BY <1>1, <2>1, EndsAscend
<1>5. ASSUME NEW c \in Columns, NEW d \in Columns, c < d PROVE end[c] <= end[d - 1]
  BY <1>1, <1>5, ColumnsApart
<1>6. ASSUME NEW at \in 1 .. RowSize PROVE \E c \in Columns : at \in Cell(c)
  <2>1. PICK c \in Columns : end[c - 1] < at /\ at <= end[c]
    BY <1>1, BytesHaveColumns DEF RowSize
  <2>2. at \in Cell(c)
    <3> HIDE DEF end
    <3> QED BY <1>2, <1>3, <2>1 DEF Cell
  <2> QED BY <2>2
<1>7. RowSize # 0
  <2>1. 1 \in Columns
    BY <1>1
  <2> HIDE DEF end
  <2> QED BY <1>2, <1>3, <1>4, <2>1
<1>8. RowSize \in Nat \ {0}
  BY <1>3, <1>7
<1>9. Slots \in Nat \ {0} /\ UsedBytes(Slots, RowSize) <= PAGE_DATA_SIZE
  BY <1>8, TableAssumption, SlotsPerPageFits DEF Slots
<1>10. ASSUME NEW c \in Columns
       PROVE  /\ ColumnOffset[c] \in Nat
              /\ ColumnOffset[c] + Schema[c].len <= RowSize
              /\ \A d \in Columns : c < d => ColumnOffset[c] + Schema[c].len <= ColumnOffset[d]
  <2> HIDE DEF end
  <2> QED BY <1>2, <1>3, <1>4, <1>5
<1> QED BY <1>6, <1>8, <1>9, <1>10

-----------------------------------------------------------------------------
(* Rows as bytes.                                                          *)

(* A value is a kind and a number of 32 bits, or a text. *)
LEMMA ValueKinds ==
  ASSUME NEW v \in AllValues
  PROVE  /\ v = <<v[1], v[2]>> /\ v[1] \in {"Int32", "Float32", "Char"}
         /\ IF v[1] = "Char" THEN v[2] \in Seq(Bytes) ELSE v[2] \in I32
BY DEF AllValues

(* The digits of a text are bytes. *)
LEMMA DigitsAreBytes ==
  ASSUME NEW text \in Seq(Bytes), NEW n
  PROVE  Digit(text, n) \in Bytes /\ Digit(text, n) \in Nat
<1>1. \A i \in DOMAIN text : text[i] \in Bytes
  OBVIOUS
<1>2. 0 \in Bytes /\ \A b \in Bytes : b \in Nat
  BY DEF Bytes
<1> QED BY <1>1, <1>2 DEF Digit

(* A padded text has the digits of the text. *)
LEMMA PaddedDigits ==
  ASSUME NEW text \in Seq(Bytes), NEW len \in Nat, Len(text) <= len
  PROVE  /\ Padded(text, len) \in Seq(Bytes) /\ Len(Padded(text, len)) = len
         /\ \A n \in 1 .. len : Padded(text, len)[n] = Digit(text, n)
<1> DEFINE rest == len - Len(text)
           zeros == [i \in 1 .. rest |-> 0]
<1>1. Len(text) \in Nat /\ rest \in Nat /\ DOMAIN text = 1 .. Len(text)
  OBVIOUS
<1>2. zeros \in Seq(Bytes) /\ Len(zeros) = rest /\ \A i \in 1 .. rest : zeros[i] = 0
  <2>1. zeros \in [1 .. rest -> Bytes]
    BY DEF Bytes
  <2> HIDE DEF rest
  <2> QED BY <1>1, <2>1
<1>3. Padded(text, len) = text \o zeros
  BY DEF Padded
<1>4. /\ text \o zeros \in Seq(Bytes) /\ Len(text \o zeros) = Len(text) + rest
      /\ \A i \in 1 .. Len(text) + rest :
           (text \o zeros)[i] = IF i <= Len(text) THEN text[i] ELSE zeros[i - Len(text)]
  <2> HIDE DEF zeros
  <2> QED BY <1>2, ConcatProperties
<1>5. Len(text) + rest = len
  BY <1>1
<1>6. ASSUME NEW n \in 1 .. len PROVE Padded(text, len)[n] = Digit(text, n)
  <2>1. CASE n <= Len(text)
    BY <1>1, <1>3, <1>4, <1>5, <2>1 DEF Digit
  <2>2. CASE ~(n <= Len(text))
    <3>1. n - Len(text) \in 1 .. rest /\ n \notin DOMAIN text
      BY <1>1, <2>2
    <3> HIDE DEF zeros
    <3> QED BY <1>2, <1>3, <1>4, <1>5, <2>2, <3>1 DEF Digit
  <2> QED BY <2>1, <2>2
<1> QED BY <1>3, <1>4, <1>5, <1>6

(* A value fills its column. *)
LEMMA EncodedValue ==
  ASSUME NEW c \in Columns, NEW v \in AllValues, Encodable(c, v)
  PROVE  EncodeValue(c, v) \in Seq(Bytes) /\ Len(EncodeValue(c, v)) = Schema[c].len
<1>1. v[1] = Schema[c].kind
  BY DEF Encodable, MatchesType
<1>2. CASE v[1] = "Char"
  <2>1. v[2] \in Seq(Bytes) /\ Len(v[2]) <= Schema[c].len /\ Schema[c].len \in Nat
    BY <1>2, ValueKinds, ColumnTypes DEF Encodable
  <2> QED BY <1>2, <2>1, PaddedDigits DEF EncodeValue
<1>3. CASE v[1] # "Char"
  <2>1. v[2] \in I32 /\ Schema[c].len = 4
    BY <1>1, <1>3, ValueKinds, ColumnTypes
  <2> QED BY <1>3, <2>1, WordRoundTrip DEF EncodeValue
<1> QED BY <1>2, <1>3

(* Every value of a row is found in the cell of its column. *)
LEMMA RowEncoded ==
  ASSUME NEW row, IsRow(row)
  PROVE  /\ EncodeRow(row) \in Seq(Bytes) /\ Len(EncodeRow(row)) = RowSize
         /\ \A c \in Columns :
              Part(EncodeRow(row), ColumnOffset[c], Schema[c].len) = EncodeValue(c, row[c])
<1> DEFINE column(at) == CHOOSE c \in Columns : at \in Cell(c)
<1>1. ASSUME NEW c \in Columns
      PROVE  /\ ColumnOffset[c] \in Nat /\ Schema[c].len \in Nat \ {0}
             /\ ColumnOffset[c] + Schema[c].len <= RowSize
             /\ row[c] \in AllValues /\ Encodable(c, row[c])
             /\ EncodeValue(c, row[c]) \in Seq(Bytes)
             /\ Len(EncodeValue(c, row[c])) = Schema[c].len
  <2>1. row[c] \in AllValues /\ Encodable(c, row[c])
    BY DEF IsRow
  <2> QED BY <2>1, ColumnsInRow, ColumnTypes, EncodedValue
<1>2. RowSize \in Nat
  BY ColumnsInRow
<1>3. ASSUME NEW at \in 1 .. RowSize, NEW c \in Columns, at \in Cell(c)
      PROVE  column(at) = c
  <2>1. column(at) \in Columns /\ at \in Cell(column(at))
    BY <1>3
  <2>2. ASSUME NEW d \in Columns, NEW e \in Columns, at \in Cell(d), at \in Cell(e)
        PROVE  ~(d < e)
    <3>1. d < e => ColumnOffset[d] + Schema[d].len <= ColumnOffset[e]
      BY ColumnsInRow
    <3>2. at <= ColumnOffset[d] + Schema[d].len /\ ColumnOffset[e] + 1 <= at
      BY <1>1, <2>2 DEF Cell
    <3> QED BY <1>1, <3>1, <3>2
  <2>3. c \in Int /\ column(at) \in Int
    BY <2>1, ColumnTypes
  <2> HIDE DEF column
  <2>4. ~(c < column(at)) /\ ~(column(at) < c)
    BY <1>3, <2>1, <2>2
  <2> QED BY <2>3, <2>4
<1>4. EncodeRow(row) = [at \in 1 .. RowSize |->
        EncodeValue(column(at), row[column(at)])[at - ColumnOffset[column(at)]]]
  BY DEF EncodeRow, RowSize
<1> HIDE DEF column
<1>5. ASSUME NEW c \in Columns, NEW n \in 1 .. Schema[c].len
      PROVE  /\ ColumnOffset[c] + n \in 1 .. RowSize
             /\ EncodeRow(row)[ColumnOffset[c] + n] = EncodeValue(c, row[c])[n]
  <2>1. PICK at \in 1 .. RowSize : at = ColumnOffset[c] + n /\ at - ColumnOffset[c] = n
    BY <1>1, <1>2
  <2>2. at \in Cell(c)
    BY <1>1, <2>1 DEF Cell
  <2>3. column(at) = c
    BY <1>3, <2>2
  <2>4. EncodeRow(row)[at] = EncodeValue(c, row[c])[n]
    BY <1>4, <2>1, <2>3
  <2> QED BY <2>1, <2>4
<1>6. ASSUME NEW at \in 1 .. RowSize PROVE EncodeRow(row)[at] \in Bytes
  <2>1. PICK c \in Columns : at \in Cell(c)
    BY ColumnsInRow
  <2>2. PICK n \in 1 .. Schema[c].len : at = ColumnOffset[c] + n
    <3>1. at - ColumnOffset[c] \in 1 .. Schema[c].len /\ at = ColumnOffset[c] + (at - ColumnOffset[c])
      BY <1>1, <1>2, <2>1 DEF Cell
    <3> QED BY <3>1
  <2>3. EncodeValue(c, row[c])[n] \in Bytes
    BY <1>1
  <2> QED BY <1>5, <2>2, <2>3
<1>7. EncodeRow(row) \in [1 .. RowSize -> Bytes]
  <2>1. EncodeRow(row) = [at \in 1 .. RowSize |-> EncodeRow(row)[at]]
    BY <1>4
  <2> QED BY <1>6, <2>1
<1>8. EncodeRow(row) \in Seq(Bytes) /\ Len(EncodeRow(row)) = RowSize
  BY <1>2, <1>7
<1>9. ASSUME NEW c \in Columns
      PROVE  Part(EncodeRow(row), ColumnOffset[c], Schema[c].len) = EncodeValue(c, row[c])
  <2>1. \A n \in 1 .. Schema[c].len : EncodeRow(row)[ColumnOffset[c] + n] = EncodeValue(c, row[c])[n]
    BY <1>5
  <2>2. PICK offset \in Nat : offset = ColumnOffset[c]
    BY <1>1
  <2>3. PICK len \in Nat : len = Schema[c].len
    BY <1>1
  <2>4. PICK data \in Seq(Bytes) : data = EncodeValue(c, row[c]) /\ Len(data) = len
    BY <1>1, <2>3
  <2>5. \A n \in 1 .. len : EncodeRow(row)[offset + n] = data[n]
    BY <2>1, <2>2, <2>3, <2>4
  <2>6. data = [n \in 1 .. len |-> EncodeRow(row)[offset + n]]
    BY <2>4, <2>5
  <2> QED BY <2>2, <2>3, <2>4, <2>6 DEF Part
<1> QED BY <1>8, <1>9

(* The last byte of a text that is not a zero. *)
IsLast(text, last) ==
  /\ last \in 0 .. Len(text)
  /\ last = 0 \/ text[last] # 0
  /\ \A m \in last + 1 .. Len(text) : text[m] = 0

(* A text has one last byte that is not zero. *)
LEMMA LastByte ==
  ASSUME NEW text \in Seq(Bytes)
  PROVE  /\ \E last \in Nat : IsLast(text, last)
         /\ \A a, b : IsLast(text, a) /\ IsLast(text, b) => a = b
<1> DEFINE set == {n \in 0 .. Len(text) : n = 0 \/ text[n] # 0}
<1>1. Len(text) \in Nat /\ DOMAIN text = 1 .. Len(text)
  OBVIOUS
<1>2. PICK last \in set : \A m \in set : m <= last
  <2>1. set \subseteq 0 .. Len(text) /\ 0 \in set
    BY <1>1
  <2>2. set # {}
    BY <2>1
  <2> HIDE DEF set
  <2> QED BY <1>1, <2>1, <2>2, Greatest
<1>3. ASSUME NEW m \in last + 1 .. Len(text) PROVE text[m] = 0
  <2>1. m \in 0 .. Len(text) /\ ~(m <= last) /\ m # 0
    BY <1>1, <1>2
  <2> QED BY <1>2, <2>1
<1>4. IsLast(text, last) /\ last \in Nat
  BY <1>1, <1>2, <1>3 DEF IsLast
<1>5. ASSUME NEW a, NEW b, IsLast(text, a), IsLast(text, b) PROVE ~(a < b)
  <2>1. a \in 0 .. Len(text) /\ b \in 0 .. Len(text)
    BY <1>5 DEF IsLast
  <2>2. a < b => b \in a + 1 .. Len(text) /\ b # 0
    BY <1>1, <2>1
  <2> QED BY <1>5, <2>2 DEF IsLast
<1>6. ASSUME NEW a, NEW b, IsLast(text, a), IsLast(text, b) PROVE a = b
  <2>1. a \in Nat /\ b \in Nat
    BY <1>1, <1>6 DEF IsLast
  <2>2. ~(a < b) /\ ~(b < a)
    BY <1>5, <1>6
  <2> QED BY <2>1, <2>2
<1> QED BY <1>4, <1>6

First(text, n) == [m \in 1 .. n |-> text[m]]

(* A text is shown up to that byte, with the same digits. *)
LEMMA ShownText ==
  ASSUME NEW text \in Seq(Bytes), NEW last \in Nat, IsLast(text, last)
  PROVE  /\ Shown(<<"Char", text>>) = <<"Char", First(text, last)>>
         /\ First(text, last) \in Seq(Bytes) /\ Len(First(text, last)) = last
         /\ \A n : Digit(First(text, last), n) = Digit(text, n)
<1> DEFINE kept == {i \in DOMAIN text : \E j \in i .. Len(text) : text[j] # 0}
<1>1. /\ Len(text) \in Nat /\ DOMAIN text = 1 .. Len(text) /\ last <= Len(text)
      /\ last = 0 \/ text[last] # 0
      /\ \A m \in last + 1 .. Len(text) : text[m] = 0
  BY DEF IsLast
<1>2. kept = 1 .. last
  <2>1. ASSUME NEW i \in kept PROVE i \in 1 .. last
    <3>1. PICK j \in i .. Len(text) : text[j] # 0
      OBVIOUS
    <3>2. i \in 1 .. Len(text) /\ j \in Nat /\ i <= j /\ j <= Len(text)
      BY <1>1
    <3>3. ~(last < j)
      <4>1. last < j => j \in last + 1 .. Len(text)
        BY <1>1, <3>2
      <4> QED BY <1>1, <3>1, <4>1
    <3> QED BY <3>2, <3>3
  <2>2. ASSUME NEW i \in 1 .. last PROVE i \in kept
    <3>1. i \in DOMAIN text /\ last \in i .. Len(text) /\ text[last] # 0
      BY <1>1
    <3> QED BY <3>1
  <2> QED BY <2>1, <2>2
<1>3. Cardinality(kept) = last
  <2>1. Cardinality(1 .. last) = last
    BY FS_Interval
  <2> QED BY <1>2, <2>1
<1>4. Shown(<<"Char", text>>) = <<"Char", [i \in 1 .. Cardinality(kept) |-> text[i]]>>
  BY DEF Shown
<1>5. First(text, last) \in [1 .. last -> Bytes]
  BY <1>1 DEF First
<1>6. First(text, last) \in Seq(Bytes) /\ Len(First(text, last)) = last
  BY <1>5
<1>7. ASSUME NEW n PROVE Digit(First(text, last), n) = Digit(text, n)
  <2>1. CASE n \in 1 .. last
    BY <1>1, <1>5, <2>1 DEF Digit, First
  <2>2. CASE n \notin 1 .. last
    <3>1. Digit(First(text, last), n) = 0
      BY <1>5, <2>2 DEF Digit
    <3>2. n \in 1 .. Len(text) => n \in last + 1 .. Len(text)
      BY <1>1, <2>2
    <3> QED BY <1>1, <3>1, <3>2 DEF Digit
  <2> QED BY <2>1, <2>2
<1> QED BY <1>3, <1>4, <1>6, <1>7 DEF First

(* The code cuts a text at the same byte. *)
LEMMA TrimmedText ==
  ASSUME NEW raw \in Seq(Bytes), NEW last \in Nat, IsLast(raw, last)
  PROVE  Trimmed(raw) = First(raw, last)
<1> DEFINE found == CHOOSE n \in 0 .. Len(raw) : /\ n = 0 \/ raw[n] # 0
                                                 /\ \A m \in n + 1 .. Len(raw) : raw[m] = 0
<1>1. IsLast(raw, found)
  BY DEF IsLast
<1>2. found = last
  BY <1>1, LastByte
<1>3. Trimmed(raw) = First(raw, found)
  BY DEF Trimmed, First
<1> QED BY <1>2, <1>3

(* What is padded with zeros and then trimmed is shown. *)
LEMMA PaddedTrimmed ==
  ASSUME NEW text \in Seq(Bytes), NEW len \in Nat, Len(text) <= len
  PROVE  <<"Char", Trimmed(Padded(text, len))>> = Shown(<<"Char", text>>)
<1>1. PICK last \in Nat : IsLast(text, last)
  BY LastByte
<1>2. PICK raw \in Seq(Bytes) :
        raw = Padded(text, len) /\ Len(raw) = len /\ \A n \in 1 .. len : raw[n] = Digit(text, n)
  BY PaddedDigits
<1>3. /\ Len(text) \in Nat /\ DOMAIN text = 1 .. Len(text) /\ last <= Len(text)
      /\ last = 0 \/ text[last] # 0
      /\ \A m \in last + 1 .. Len(text) : text[m] = 0
  BY <1>1 DEF IsLast
<1>4. \A n \in 1 .. last : raw[n] = text[n]
  BY <1>2, <1>3 DEF Digit
<1>5. ASSUME NEW m \in last + 1 .. len PROVE raw[m] = 0
  <2>1. m \in 1 .. len /\ (m \in DOMAIN text => m \in last + 1 .. Len(text))
    BY <1>3
  <2> QED BY <1>2, <1>3, <2>1 DEF Digit
<1>6. IsLast(raw, last)
  <2>1. last \in 0 .. Len(raw)
    BY <1>2, <1>3
  <2>2. last = 0 \/ raw[last] # 0
    BY <1>3, <1>4
  <2> QED BY <1>2, <1>5, <2>1, <2>2 DEF IsLast
<1>7. First(raw, last) = First(text, last)
  BY <1>4 DEF First
<1> QED BY <1>1, <1>2, <1>6, <1>7, ShownText, TrimmedText

(* What a column is read back as. *)
LEMMA ValueDecoded ==
  ASSUME NEW record, NEW c \in Columns, NEW v \in AllValues, Encodable(c, v),
         Part(record, ColumnOffset[c], Schema[c].len) = EncodeValue(c, v)
  PROVE  DecodeValue(record, c) = Shown(v)
<1>1. v[1] = Schema[c].kind /\ v = <<v[1], v[2]>>
  BY ValueKinds DEF Encodable, MatchesType
<1>2. CASE v[1] = "Char"
  <2>1. v[2] \in Seq(Bytes) /\ Len(v[2]) <= Schema[c].len /\ Schema[c].len \in Nat
    BY <1>2, ValueKinds, ColumnTypes DEF Encodable
  <2>2. DecodeValue(record, c) = <<"Char", Trimmed(Padded(v[2], Schema[c].len))>>
    BY <1>1, <1>2 DEF DecodeValue, EncodeValue
  <2>3. v = <<"Char", v[2]>>
    BY <1>1, <1>2
  <2> QED BY <2>1, <2>2, <2>3, PaddedTrimmed
<1>3. CASE v[1] # "Char"
  <2>1. v[2] \in I32
    BY <1>3, ValueKinds
  <2>2. DecodeValue(record, c) = <<v[1], FromLeBytes(ToLeBytes(v[2]))>>
    BY <1>1, <1>3 DEF DecodeValue, EncodeValue
  <2> QED BY <1>1, <1>3, <2>1, <2>2, WordRoundTrip DEF Shown
<1> QED BY <1>2, <1>3

(* A row is read back as it was given, texts without zeros at their end. *)
THEOREM RowsReadBack ==
  ASSUME NEW row, IsRow(row)
  PROVE  DecodeRecord(EncodeRow(row)) = ShownRow(row)
<1>1. ASSUME NEW c \in Columns PROVE DecodeValue(EncodeRow(row), c) = Shown(row[c])
  <2>1. row[c] \in AllValues /\ Encodable(c, row[c])
    BY DEF IsRow
  <2>2. Part(EncodeRow(row), ColumnOffset[c], Schema[c].len) = EncodeValue(c, row[c])
    BY RowEncoded
  <2> QED BY <2>1, <2>2, ValueDecoded
<1> QED BY <1>1 DEF DecodeRecord, ShownRow

(* A value and what is shown of it have the same bytes. *)
LEMMA ShownValue ==
  ASSUME NEW c \in Columns, NEW v \in AllValues, Encodable(c, v)
  PROVE  /\ Shown(v) \in AllValues /\ Encodable(c, Shown(v)) /\ Shown(v)[1] = v[1]
         /\ EncodeValue(c, Shown(v)) = EncodeValue(c, v)
         /\ Shown(Shown(v)) = Shown(v)
<1>1. v[1] = Schema[c].kind /\ v = <<v[1], v[2]>>
  BY ValueKinds DEF Encodable, MatchesType
<1>2. CASE v[1] = "Char"
  <2>1. PICK text \in Seq(Bytes) : text = v[2] /\ v = <<"Char", text>>
    BY <1>1, <1>2, ValueKinds
  <2>2. PICK len \in Nat : len = Schema[c].len /\ Len(text) <= len
    BY <1>2, <2>1, ColumnTypes DEF Encodable
  <2>3. PICK last \in Nat : IsLast(text, last)
    BY LastByte
  <2>4. PICK first \in Seq(Bytes) :
          /\ first = First(text, last) /\ Len(first) = last
          /\ \A n : Digit(first, n) = Digit(text, n)
          /\ Shown(v) = <<"Char", first>>
    BY <2>1, <2>3, ShownText
  <2>5. last <= Len(text) /\ Len(text) \in Nat
    BY <2>3 DEF IsLast
  <2>6. Len(first) <= len
    BY <2>2, <2>4, <2>5
  <2>7. Padded(first, len) = Padded(text, len)
    <3>1. /\ Padded(first, len) \in Seq(Bytes) /\ Len(Padded(first, len)) = len
          /\ \A n \in 1 .. len : Padded(first, len)[n] = Digit(first, n)
      BY <2>6, PaddedDigits
    <3>2. /\ Padded(text, len) \in Seq(Bytes) /\ Len(Padded(text, len)) = len
          /\ \A n \in 1 .. len : Padded(text, len)[n] = Digit(text, n)
      BY <2>2, PaddedDigits
    <3>3. \A n \in 1 .. len : Padded(first, len)[n] = Padded(text, len)[n]
      BY <2>4, <3>1, <3>2
    <3> QED BY <3>1, <3>2, <3>3, SeqEqual
  <2>8. IsLast(first, last)
    <3>1. last = 0 \/ first[last] # 0
      BY <2>3, <2>4 DEF IsLast, First
    <3>2. \A m \in last + 1 .. Len(first) : FALSE
      BY <2>4
    <3> QED BY <2>4, <3>1, <3>2 DEF IsLast
  <2>9. First(first, last) = first
    BY <2>4 DEF First
  <2>10. Shown(<<"Char", first>>) = <<"Char", first>>
    BY <2>8, <2>9, ShownText
  <2>11. Shown(v) \in AllValues /\ Shown(v)[1] = "Char" /\ Shown(v)[2] = first
    BY <2>4 DEF AllValues
  <2>12. Encodable(c, Shown(v))
    BY <1>1, <1>2, <2>2, <2>6, <2>11 DEF Encodable, MatchesType
  <2>13. EncodeValue(c, Shown(v)) = EncodeValue(c, v)
    BY <1>2, <2>1, <2>2, <2>7, <2>11 DEF EncodeValue
  <2> QED BY <1>2, <2>4, <2>10, <2>11, <2>12, <2>13
<1>3. CASE v[1] # "Char"
  BY <1>3 DEF Shown
<1> QED BY <1>2, <1>3

(* A row and what is shown of it have the same bytes. *)
LEMMA ShownRowEncoded ==
  ASSUME NEW row, IsRow(row)
  PROVE  /\ IsRow(ShownRow(row)) /\ ShownRow(ShownRow(row)) = ShownRow(row)
         /\ EncodeRow(ShownRow(row)) = EncodeRow(row)
<1>1. ASSUME NEW c \in Columns
      PROVE  /\ ShownRow(row)[c] = Shown(row[c]) /\ Shown(row[c]) \in AllValues
             /\ Encodable(c, Shown(row[c])) /\ Shown(Shown(row[c])) = Shown(row[c])
             /\ EncodeValue(c, ShownRow(row)[c]) = EncodeValue(c, row[c])
  <2>1. row[c] \in AllValues /\ Encodable(c, row[c])
    BY DEF IsRow
  <2> QED BY <2>1, ShownValue DEF ShownRow
<1>2. IsRow(ShownRow(row))
  <2>1. ShownRow(row) \in [Columns -> AllValues]
    BY <1>1 DEF ShownRow
  <2> QED BY <1>1, <2>1 DEF IsRow
<1>3. ShownRow(ShownRow(row)) = ShownRow(row)
  BY <1>1 DEF ShownRow
<1>4. ASSUME NEW at \in 1 .. RowSize
      PROVE  LET c == CHOOSE c \in Columns : at \in Cell(c) IN
             EncodeValue(c, ShownRow(row)[c])[at - ColumnOffset[c]] =
               EncodeValue(c, row[c])[at - ColumnOffset[c]]
  <2>1. (CHOOSE c \in Columns : at \in Cell(c)) \in Columns
    BY ColumnsInRow
  <2> QED BY <1>1, <2>1
<1>5. EncodeRow(ShownRow(row)) = EncodeRow(row)
  BY <1>4 DEF EncodeRow, RowSize
<1> QED BY <1>2, <1>3, <1>5

-----------------------------------------------------------------------------
(* The order of values.                                                    *)

Places0 == Nat \ {0}
TextUnder(x, y) ==
  \E n \in Places0 : /\ Digit(x, n) < Digit(y, n)
                     /\ \A m \in 1 .. n - 1 : Digit(x, m) = Digit(y, m)
TextLike(x, y) == \A n \in Places0 : Digit(x, n) = Digit(y, n)

(* Of two texts that are not alike exactly one comes first. *)
LEMMA TextsOrdered ==
  ASSUME NEW x \in Seq(Bytes), NEW y \in Seq(Bytes)
  PROVE  /\ TextLike(x, y) \/ TextUnder(x, y) \/ TextUnder(y, x)
         /\ TextUnder(x, y) => ~TextLike(x, y) /\ ~TextUnder(y, x)
<1>1. \A n : Digit(x, n) \in Nat /\ Digit(y, n) \in Nat
  BY DigitsAreBytes
<1>2. ASSUME ~TextLike(x, y) PROVE TextUnder(x, y) \/ TextUnder(y, x)
  <2> DEFINE T == {n \in Places0 : Digit(x, n) # Digit(y, n)}
  <2>1. T \in SUBSET Nat /\ T # {}
    BY <1>2 DEF TextLike, Places0
  <2>2. PICK n \in T : \A j \in T : n <= j
    <3> HIDE DEF T
    <3> QED BY <2>1, LeastNumber
  <2>3. n \in Places0 /\ n \in Nat /\ Digit(x, n) # Digit(y, n)
    BY DEF Places0
  <2>4. \A m \in 1 .. n - 1 : Digit(x, m) = Digit(y, m)
    <3> SUFFICES ASSUME NEW m \in 1 .. n - 1, Digit(x, m) # Digit(y, m) PROVE FALSE
      OBVIOUS
    <3>1. m \in T /\ m < n /\ m \in Nat
      BY <2>3 DEF Places0
    <3> HIDE DEF T
    <3> QED BY <2>2, <2>3, <3>1
  <2>5. Digit(x, n) < Digit(y, n) \/ Digit(y, n) < Digit(x, n)
    BY <1>1, <2>3
  <2> QED BY <2>3, <2>4, <2>5 DEF TextUnder
<1>3. ASSUME TextUnder(x, y) PROVE ~TextLike(x, y) /\ ~TextUnder(y, x)
  <2>1. PICK n \in Places0 : /\ Digit(x, n) < Digit(y, n)
                             /\ \A m \in 1 .. n - 1 : Digit(x, m) = Digit(y, m)
    BY <1>3 DEF TextUnder
  <2>2. ~TextLike(x, y)
    BY <1>1, <2>1 DEF TextLike
  <2>3. ASSUME NEW k \in Places0, Digit(y, k) < Digit(x, k),
               \A m \in 1 .. k - 1 : Digit(y, m) = Digit(x, m)
        PROVE  FALSE
    <3>1. n \in Nat /\ k \in Nat /\ n # 0 /\ k # 0
      BY DEF Places0
    <3>2. k < n => k \in 1 .. n - 1
      BY <3>1
    <3>3. n < k => n \in 1 .. k - 1
      BY <3>1
    <3> QED BY <1>1, <2>1, <2>3, <3>1, <3>2, <3>3
  <2> QED BY <2>2, <2>3 DEF TextUnder
<1> QED BY <1>2, <1>3

(* The order of texts is transitive. *)
LEMMA TextUnderTransitive ==
  ASSUME NEW x \in Seq(Bytes), NEW y \in Seq(Bytes), NEW z \in Seq(Bytes),
         TextUnder(x, y), TextUnder(y, z)
  PROVE  TextUnder(x, z)
<1>1. \A n : Digit(x, n) \in Nat /\ Digit(y, n) \in Nat /\ Digit(z, n) \in Nat
  BY DigitsAreBytes
<1>2. PICK n \in Places0 : /\ Digit(x, n) < Digit(y, n)
                           /\ \A m \in 1 .. n - 1 : Digit(x, m) = Digit(y, m)
  BY DEF TextUnder
<1>3. PICK k \in Places0 : /\ Digit(y, k) < Digit(z, k)
                           /\ \A m \in 1 .. k - 1 : Digit(y, m) = Digit(z, m)
  BY DEF TextUnder
<1>4. n \in Nat /\ k \in Nat /\ n # 0 /\ k # 0
  BY DEF Places0
<1>5. CASE n < k
  <2>1. n \in 1 .. k - 1 /\ \A m \in 1 .. n - 1 : m \in 1 .. k - 1
    BY <1>4, <1>5
  <2>2. Digit(x, n) < Digit(z, n)
    BY <1>2, <1>3, <2>1
  <2>3. \A m \in 1 .. n - 1 : Digit(x, m) = Digit(z, m)
    BY <1>2, <1>3, <2>1
  <2> QED BY <2>2, <2>3 DEF TextUnder
<1>6. CASE n = k
  <2>1. Digit(x, n) < Digit(z, n)
    BY <1>1, <1>2, <1>3, <1>6
  <2>2. \A m \in 1 .. n - 1 : Digit(x, m) = Digit(z, m)
    BY <1>2, <1>3, <1>6
  <2> QED BY <2>1, <2>2 DEF TextUnder
<1>7. CASE k < n
  <2>1. k \in 1 .. n - 1 /\ \A m \in 1 .. k - 1 : m \in 1 .. n - 1
    BY <1>4, <1>7
  <2>2. Digit(x, k) < Digit(z, k)
    BY <1>2, <1>3, <2>1
  <2>3. \A m \in 1 .. k - 1 : Digit(x, m) = Digit(z, m)
    BY <1>2, <1>3, <2>1
  <2> QED BY <2>2, <2>3 DEF TextUnder
<1> QED BY <1>4, <1>5, <1>6, <1>7

(* Texts that are alike go before and behind the same ones. *)
LEMMA TextLikeUnder ==
  ASSUME NEW x \in Seq(Bytes), NEW y \in Seq(Bytes), NEW z \in Seq(Bytes), TextLike(x, y)
  PROVE  /\ TextUnder(x, z) <=> TextUnder(y, z)
         /\ TextUnder(z, x) <=> TextUnder(z, y)
<1>1. \A n \in Places0 : Digit(x, n) = Digit(y, n)
  BY DEF TextLike
<1>2. \A n \in Places0 : \A m \in 1 .. n - 1 : m \in Places0
  BY DEF Places0
<1>3. ASSUME TextUnder(x, z) PROVE TextUnder(y, z)
  BY <1>1, <1>2, <1>3 DEF TextUnder
<1>4. ASSUME TextUnder(y, z) PROVE TextUnder(x, z)
  BY <1>1, <1>2, <1>4 DEF TextUnder
<1>5. ASSUME TextUnder(z, x) PROVE TextUnder(z, y)
  BY <1>1, <1>2, <1>5 DEF TextUnder
<1>6. ASSUME TextUnder(z, y) PROVE TextUnder(z, x)
  BY <1>1, <1>2, <1>6 DEF TextUnder
<1> QED BY <1>3, <1>4, <1>5, <1>6

(* Texts are shown alike if they differ in zeros at the end only. *)
LEMMA ShownLike ==
  ASSUME NEW x \in Seq(Bytes), NEW y \in Seq(Bytes)
  PROVE  Shown(<<"Char", x>>) = Shown(<<"Char", y>>) <=> TextLike(x, y)
<1>1. PICK a \in Nat : IsLast(x, a)
  BY LastByte
<1>2. PICK b \in Nat : IsLast(y, b)
  BY LastByte
<1>3. /\ Shown(<<"Char", x>>) = <<"Char", First(x, a)>>
      /\ \A n : Digit(First(x, a), n) = Digit(x, n)
  BY <1>1, ShownText
<1>4. /\ Shown(<<"Char", y>>) = <<"Char", First(y, b)>>
      /\ \A n : Digit(First(y, b), n) = Digit(y, n)
  BY <1>2, ShownText
<1>5. ASSUME Shown(<<"Char", x>>) = Shown(<<"Char", y>>) PROVE TextLike(x, y)
  <2>1. First(x, a) = First(y, b)
    BY <1>3, <1>4, <1>5
  <2> QED BY <1>3, <1>4, <2>1 DEF TextLike
<1>6. ASSUME TextLike(x, y) PROVE Shown(<<"Char", x>>) = Shown(<<"Char", y>>)
  <2>1. ASSUME NEW s \in Seq(Bytes), NEW i \in Nat, IsLast(s, i)
        PROVE  /\ i = 0 \/ Digit(s, i) # 0
               /\ \A n \in Places0 : i < n => Digit(s, n) = 0
               /\ \A n \in 1 .. i : Digit(s, n) = s[n]
    <3>1. /\ Len(s) \in Nat /\ DOMAIN s = 1 .. Len(s) /\ i <= Len(s)
          /\ i = 0 \/ s[i] # 0
          /\ \A m \in i + 1 .. Len(s) : s[m] = 0
      BY <2>1 DEF IsLast
    <3>2. \A n \in 1 .. i : Digit(s, n) = s[n]
      BY <3>1 DEF Digit
    <3>3. i = 0 \/ i \in 1 .. i
      OBVIOUS
    <3>4. ASSUME NEW n \in Places0, i < n PROVE Digit(s, n) = 0
      <4>1. n \in 1 .. Len(s) => n \in i + 1 .. Len(s)
        BY <3>1, <3>4 DEF Places0
      <4> QED BY <3>1, <4>1 DEF Digit
    <3> QED BY <3>1, <3>2, <3>3, <3>4
  <2>2. /\ a = 0 \/ Digit(x, a) # 0
        /\ \A n \in Places0 : a < n => Digit(x, n) = 0
        /\ \A n \in 1 .. a : Digit(x, n) = x[n]
    BY <1>1, <2>1
  <2>3. /\ b = 0 \/ Digit(y, b) # 0
        /\ \A n \in Places0 : b < n => Digit(y, n) = 0
        /\ \A n \in 1 .. b : Digit(y, n) = y[n]
    BY <1>2, <2>1
  <2>4. \A n \in Places0 : Digit(x, n) = Digit(y, n)
    BY <1>6 DEF TextLike
  <2>5. ~(a < b)
    <3>1. a < b => b \in Places0 /\ b # 0
      BY DEF Places0
    <3> QED BY <2>2, <2>3, <2>4, <3>1
  <2>6. ~(b < a)
    <3>1. b < a => a \in Places0 /\ a # 0
      BY DEF Places0
    <3> QED BY <2>2, <2>3, <2>4, <3>1
  <2>7. a = b
    BY <2>5, <2>6
  <2>8. \A n \in 1 .. a : x[n] = y[n]
    <3>1. \A n \in 1 .. a : n \in Places0
      BY DEF Places0
    <3> QED BY <2>2, <2>3, <2>4, <2>7, <3>1
  <2>9. First(x, a) = First(y, b)
    BY <2>7, <2>8 DEF First
  <2> QED BY <1>3, <1>4, <2>9
<1> QED BY <1>5, <1>6

(* The order of values is, for texts, that of texts. *)
LEMMA UnderText ==
  ASSUME NEW x \in Seq(Bytes), NEW y \in Seq(Bytes)
  PROVE  Under(<<"Char", x>>, <<"Char", y>>) <=> TextUnder(x, y)
<1>1. \A n : Digit(x, n) \in Nat /\ Digit(y, n) \in Nat
  BY DigitsAreBytes
<1>2. Len(y) \in Nat /\ DOMAIN y = 1 .. Len(y)
  OBVIOUS
<1>3. Under(<<"Char", x>>, <<"Char", y>>) <=>
        \E n \in DOMAIN y : /\ Digit(x, n) < Digit(y, n)
                            /\ \A m \in 1 .. n - 1 : Digit(x, m) = Digit(y, m)
  BY DEF Under
<1>4. \A n \in DOMAIN y : n \in Places0
  BY <1>2 DEF Places0
<1>5. ASSUME NEW n \in Places0, Digit(x, n) < Digit(y, n) PROVE n \in DOMAIN y
  <2>1. Digit(y, n) # 0
    BY <1>1, <1>5
  <2> QED BY <2>1 DEF Digit
<1> QED BY <1>3, <1>4, <1>5 DEF TextUnder

(* Floats are ordered as their keys are. *)
LEMMA FloatsOrdered ==
  ASSUME NEW x \in I32, NEW y \in I32, NEW z \in I32
  PROVE  /\ FloatUnder(x, y) => x # y /\ ~FloatUnder(y, x)
         /\ x = y \/ FloatUnder(x, y) \/ FloatUnder(y, x)
         /\ FloatUnder(x, y) /\ FloatUnder(y, z) => FloatUnder(x, z)
         /\ FloatUnder(x, y) <=> FloatKey(x) < FloatKey(y)
BY DEF FloatUnder, Magnitude, I32, FloatKey, MaxI32

\* Values that are shown alike.
Alike(x, y) == Shown(x) = Shown(y)

(* Of two values that are not alike exactly one comes first. *)
LEMMA UnderOrders ==
  ASSUME NEW x \in AllValues, NEW y \in AllValues, x[1] = y[1]
  PROVE  /\ Alike(x, y) \/ Under(x, y) \/ Under(y, x)
         /\ Under(x, y) => ~Alike(x, y) /\ ~Under(y, x)
<1>1. CASE x[1] = "Char"
  <2>1. PICK s \in Seq(Bytes) : x = <<"Char", s>>
    BY <1>1, ValueKinds
  <2>2. PICK t \in Seq(Bytes) : y = <<"Char", t>>
    BY <1>1, ValueKinds
  <2>3. Alike(x, y) <=> TextLike(s, t)
    BY <2>1, <2>2, ShownLike DEF Alike
  <2>4. Under(x, y) <=> TextUnder(s, t)
    BY <2>1, <2>2, UnderText
  <2>5. Under(y, x) <=> TextUnder(t, s)
    BY <2>1, <2>2, UnderText
  <2> QED BY <2>3, <2>4, <2>5, TextsOrdered
<1>2. CASE x[1] = "Int32"
  <2>1. /\ x[2] \in Int /\ y[2] \in Int /\ x = <<x[1], x[2]>> /\ y = <<y[1], y[2]>>
    BY <1>2, ValueKinds DEF I32
  <2>2. Alike(x, y) <=> x[2] = y[2]
    BY <1>2, <2>1 DEF Alike, Shown
  <2>3. (Under(x, y) <=> x[2] < y[2]) /\ (Under(y, x) <=> y[2] < x[2])
    BY <1>2 DEF Under
  <2> QED BY <2>1, <2>2, <2>3
<1>3. CASE x[1] = "Float32"
  <2>1. /\ x[2] \in I32 /\ y[2] \in I32 /\ x = <<x[1], x[2]>> /\ y = <<y[1], y[2]>>
    BY <1>3, ValueKinds
  <2>2. Alike(x, y) <=> x[2] = y[2]
    BY <1>3, <2>1 DEF Alike, Shown
  <2>3. (Under(x, y) <=> FloatUnder(x[2], y[2])) /\ (Under(y, x) <=> FloatUnder(y[2], x[2]))
    BY <1>3 DEF Under
  <2> QED BY <2>1, <2>2, <2>3, FloatsOrdered
<1> QED BY <1>1, <1>2, <1>3, ValueKinds

(* The order of values is transitive, and the same for values that are      *)
(* alike.                                                                   *)
LEMMA UnderTransitive ==
  ASSUME NEW x \in AllValues, NEW y \in AllValues, NEW z \in AllValues,
         x[1] = y[1], y[1] = z[1]
  PROVE  /\ Under(x, y) /\ Under(y, z) => Under(x, z)
         /\ Alike(x, y) => /\ Under(x, z) <=> Under(y, z)
                           /\ Under(z, x) <=> Under(z, y)
<1>1. CASE x[1] = "Char"
  <2>1. PICK s \in Seq(Bytes) : x = <<"Char", s>>
    BY <1>1, ValueKinds
  <2>2. PICK t \in Seq(Bytes) : y = <<"Char", t>>
    BY <1>1, ValueKinds
  <2>3. PICK u \in Seq(Bytes) : z = <<"Char", u>>
    BY <1>1, ValueKinds
  <2>4. Alike(x, y) <=> TextLike(s, t)
    BY <2>1, <2>2, ShownLike DEF Alike
  <2>5. (Under(x, y) <=> TextUnder(s, t)) /\ (Under(y, z) <=> TextUnder(t, u))
    BY <2>1, <2>2, <2>3, UnderText
  <2>6. (Under(x, z) <=> TextUnder(s, u)) /\ (Under(z, x) <=> TextUnder(u, s))
    BY <2>1, <2>3, UnderText
  <2>7. Under(z, y) <=> TextUnder(u, t)
    BY <2>2, <2>3, UnderText
  <2> QED BY <2>4, <2>5, <2>6, <2>7, TextUnderTransitive, TextLikeUnder
<1>2. CASE x[1] = "Int32"
  <2>1. /\ x[2] \in Int /\ y[2] \in Int /\ z[2] \in Int
    BY <1>2, ValueKinds DEF I32
  <2>2. Alike(x, y) => x[2] = y[2]
    BY <1>2, <2>1 DEF Alike, Shown
  <2>3. /\ (Under(x, y) <=> x[2] < y[2]) /\ (Under(y, z) <=> y[2] < z[2])
        /\ (Under(x, z) <=> x[2] < z[2]) /\ (Under(z, x) <=> z[2] < x[2])
        /\ (Under(z, y) <=> z[2] < y[2])
    BY <1>2 DEF Under
  <2> QED BY <2>1, <2>2, <2>3
<1>3. CASE x[1] = "Float32"
  <2>1. /\ x[2] \in I32 /\ y[2] \in I32 /\ z[2] \in I32
    BY <1>3, ValueKinds
  <2>2. Alike(x, y) => x[2] = y[2]
    BY <1>3, <2>1 DEF Alike, Shown
  <2>3. /\ (Under(x, y) <=> FloatUnder(x[2], y[2])) /\ (Under(y, z) <=> FloatUnder(y[2], z[2]))
        /\ (Under(x, z) <=> FloatUnder(x[2], z[2])) /\ (Under(z, x) <=> FloatUnder(z[2], x[2]))
        /\ (Under(z, y) <=> FloatUnder(z[2], y[2]))
    BY <1>3 DEF Under
  <2> QED BY <2>1, <2>2, <2>3, FloatsOrdered
<1> QED BY <1>1, <1>2, <1>3, ValueKinds

SameLengthOrTrimmed(s, t) == Len(s) = Len(t) \/ IsLast(t, Len(t))

(* Byte strings are compared as texts if they have one length, or the second *)
(* does not end with a zero.                                                 *)
LEMMA BytesCompared ==
  ASSUME NEW s \in Seq(Bytes), NEW t \in Seq(Bytes), SameLengthOrTrimmed(s, t)
  PROVE  BytesBefore(s, t) <=> TextUnder(s, t)
<1>1. /\ Len(s) \in Nat /\ DOMAIN s = 1 .. Len(s) /\ Len(t) \in Nat /\ DOMAIN t = 1 .. Len(t)
  OBVIOUS
<1>2. \A n : Digit(s, n) \in Nat /\ Digit(t, n) \in Nat
  BY DigitsAreBytes
<1>3. /\ \A n \in 1 .. Len(s) : Digit(s, n) = s[n]
      /\ \A n \in 1 .. Len(t) : Digit(t, n) = t[n]
      /\ \A n \in Places0 : Len(s) < n => Digit(s, n) = 0
      /\ \A n \in Places0 : Len(t) < n => Digit(t, n) = 0
  BY <1>1 DEF Digit, Places0
<1>4. ASSUME BytesBefore(s, t) PROVE TextUnder(s, t)
  <2>1. PICK n \in 1 .. Len(t) :
          /\ n <= Len(s) + 1
          /\ n <= Len(s) => s[n] < t[n]
          /\ \A m \in 1 .. n - 1 : s[m] = t[m]
    BY <1>4 DEF BytesBefore
  <2>2. \A m \in 1 .. n - 1 : Digit(s, m) = Digit(t, m)
    <3>1. \A m \in 1 .. n - 1 : m \in 1 .. Len(s) /\ m \in 1 .. Len(t)
      BY <1>1, <2>1
    <3> QED BY <1>3, <2>1, <3>1
  <2>3. n \in Places0 /\ n \in Nat
    BY <1>1 DEF Places0
  <2>4. CASE n <= Len(s)
    <3>1. Digit(s, n) < Digit(t, n)
      BY <1>1, <1>3, <2>1, <2>3, <2>4
    <3> QED BY <2>2, <2>3, <3>1 DEF TextUnder
  <2>5. CASE ~(n <= Len(s))
    <3>1. n = Len(s) + 1 /\ Len(s) < Len(t)
      BY <1>1, <2>1, <2>3, <2>5
    <3>2. Len(t) \in Places0
      BY <1>1, <3>1 DEF Places0
    <3>3. t[Len(t)] # 0
      <4>1. PICK a \in Nat, b \in Nat : a = Len(s) /\ b = Len(t)
        BY <1>1
      <4>2. a < b
        BY <3>1, <4>1
      <4>3. a # b
        BY <4>2
      <4>4. IsLast(t, Len(t))
        BY <4>1, <4>3 DEF SameLengthOrTrimmed
      <4> QED BY <1>1, <3>1, <4>4 DEF IsLast
    <3>4. Digit(s, Len(t)) # Digit(t, Len(t))
      BY <1>1, <1>3, <3>1, <3>2, <3>3
    <3>5. ~TextLike(s, t)
      BY <3>2, <3>4 DEF TextLike
    <3>6. ~TextUnder(t, s)
      <4> SUFFICES ASSUME NEW k \in Places0, Digit(t, k) < Digit(s, k) PROVE FALSE
        BY DEF TextUnder
      <4>1. k \in Nat /\ k # 0
        BY DEF Places0
      <4>2. k <= Len(s)
        <5>1. Digit(t, k) \in Nat
          BY <1>2
        <5>2. Digit(s, k) # 0
          BY <5>1
        <5>3. ~(Len(s) < k)
          BY <1>3, <5>2
        <5> QED BY <1>1, <4>1, <5>3
      <4>3. k \in 1 .. n - 1
        BY <1>1, <3>1, <4>1, <4>2
      <4> QED BY <1>2, <2>2, <4>3
    <3> QED BY <3>5, <3>6, TextsOrdered
  <2> QED BY <2>4, <2>5
<1>5. ASSUME TextUnder(s, t) PROVE BytesBefore(s, t)
  <2>1. PICK k \in Places0 : /\ Digit(s, k) < Digit(t, k)
                             /\ \A m \in 1 .. k - 1 : Digit(s, m) = Digit(t, m)
    BY <1>5 DEF TextUnder
  <2>2. k \in Nat /\ k # 0 /\ k <= Len(t)
    BY <1>1, <1>2, <1>3, <2>1 DEF Places0
  <2>3. CASE k <= Len(s)
    <3>1. k \in 1 .. Len(t) /\ k <= Len(s) + 1 /\ s[k] < t[k]
      BY <1>1, <1>3, <2>1, <2>2, <2>3
    <3>2. \A m \in 1 .. k - 1 : s[m] = t[m]
      <4>1. \A m \in 1 .. k - 1 : m \in 1 .. Len(s) /\ m \in 1 .. Len(t)
        BY <1>1, <2>2, <2>3
      <4> QED BY <1>3, <2>1, <4>1
    <3> QED BY <3>1, <3>2 DEF BytesBefore
  <2>4. CASE ~(k <= Len(s))
    <3>1. PICK n \in 1 .. Len(t) : n = Len(s) + 1 /\ ~(n <= Len(s))
      BY <1>1, <2>2, <2>4
    <3>2. \A m \in 1 .. n - 1 : s[m] = t[m]
      <4>1. \A m \in 1 .. n - 1 : m \in 1 .. Len(s) /\ m \in 1 .. Len(t) /\ m \in 1 .. k - 1
        BY <1>1, <2>2, <2>4, <3>1
      <4> QED BY <1>3, <2>1, <4>1
    <3>3. n <= Len(s) + 1
      BY <1>1, <3>1
    <3> QED BY <3>1, <3>2, <3>3 DEF BytesBefore
  <2> QED BY <2>3, <2>4
<1> QED BY <1>4, <1>5

(* A padded text is like the text. *)
LEMMA PaddedLike ==
  ASSUME NEW text \in Seq(Bytes), NEW len \in Nat, Len(text) <= len
  PROVE  TextLike(Padded(text, len), text)
<1>1. PICK raw \in Seq(Bytes) :
        raw = Padded(text, len) /\ Len(raw) = len /\ \A n \in 1 .. len : raw[n] = Digit(text, n)
  BY PaddedDigits
<1>2. Len(text) \in Nat /\ DOMAIN text = 1 .. Len(text) /\ DOMAIN raw = 1 .. len
  BY <1>1
<1>3. ASSUME NEW n \in Places0 PROVE Digit(raw, n) = Digit(text, n)
  <2>1. CASE n <= len
    BY <1>1, <1>2, <2>1 DEF Digit, Places0
  <2>2. CASE ~(n <= len)
    <3>1. n \notin DOMAIN text /\ n \notin DOMAIN raw
      BY <1>2, <2>2
    <3> QED BY <3>1 DEF Digit
  <2> QED BY <2>1, <2>2
<1> QED BY <1>1, <1>3 DEF TextLike

(* Texts that are alike have the same order. *)
LEMMA TextLikeBoth ==
  ASSUME NEW x \in Seq(Bytes), NEW y \in Seq(Bytes), NEW s \in Seq(Bytes), NEW t \in Seq(Bytes),
         TextLike(s, x), TextLike(t, y)
  PROVE  TextUnder(s, t) <=> TextUnder(x, y)
<1>1. TextUnder(s, t) <=> TextUnder(x, t)
  BY TextLikeUnder
<1>2. TextUnder(x, t) <=> TextUnder(x, y)
  BY TextLikeUnder
<1> QED BY <1>1, <1>2

(* Padded texts, numbers, and values as they are shown, are compared like   *)
(* what they stand for.                                                     *)
LEMMA PaddedLess ==
  ASSUME NEW x \in Seq(Bytes), NEW y \in Seq(Bytes), NEW len \in Nat,
         Len(x) <= len, Len(y) <= len
  PROVE  Less("Char", Padded(x, len), Padded(y, len)) <=> Under(<<"Char", x>>, <<"Char", y>>)
<1>1. PICK s \in Seq(Bytes) : s = Padded(x, len) /\ Len(s) = len /\ TextLike(s, x)
  BY PaddedDigits, PaddedLike
<1>2. PICK t \in Seq(Bytes) : t = Padded(y, len) /\ Len(t) = len /\ TextLike(t, y)
  BY PaddedDigits, PaddedLike
<1>3. BytesBefore(s, t) <=> TextUnder(s, t)
  BY <1>1, <1>2, BytesCompared DEF SameLengthOrTrimmed
<1>4. TextUnder(s, t) <=> TextUnder(x, y)
  BY <1>1, <1>2, TextLikeBoth
<1>5. Less("Char", s, t) <=> BytesBefore(s, t)
  BY DEF Less
<1> QED BY <1>1, <1>2, <1>3, <1>4, <1>5, UnderText

(* The code orders numbers by their values. *)
LEMMA NumberLess ==
  ASSUME NEW x \in AllValues, NEW y \in AllValues, x[1] = y[1], x[1] # "Char"
  PROVE  Less(x[1], x[2], y[2]) <=> Under(x, y)
<1>1. CASE x[1] = "Int32"
  BY <1>1 DEF Less, Under
<1>2. CASE x[1] = "Float32"
  <2>1. x[2] \in I32 /\ y[2] \in I32
    BY <1>2, ValueKinds
  <2>2. Less(x[1], x[2], y[2]) <=> FloatKey(x[2]) < FloatKey(y[2])
    BY <1>2 DEF Less
  <2>3. Under(x, y) <=> FloatUnder(x[2], y[2])
    BY <1>2 DEF Under
  <2> QED BY <2>1, <2>2, <2>3, FloatsOrdered
<1> QED BY <1>1, <1>2, ValueKinds

(* The code orders what is shown of two values as their values. *)
LEMMA ShownLess ==
  ASSUME NEW x \in AllValues, NEW y \in AllValues, x[1] = y[1]
  PROVE  Less(x[1], Shown(x)[2], Shown(y)[2]) <=> Under(x, y)
<1>1. CASE x[1] = "Char"
  <2>1. PICK s \in Seq(Bytes) : x = <<"Char", s>>
    BY <1>1, ValueKinds
  <2>2. PICK t \in Seq(Bytes) : y = <<"Char", t>>
    BY <1>1, ValueKinds
  <2>3. PICK a \in Nat : IsLast(s, a)
    BY LastByte
  <2>4. PICK b \in Nat : IsLast(t, b)
    BY LastByte
  <2>5. PICK u \in Seq(Bytes) : u = First(s, a) /\ \A n : Digit(u, n) = Digit(s, n)
    BY <2>3, ShownText
  <2>6. PICK v \in Seq(Bytes) : v = First(t, b) /\ Len(v) = b /\ \A n : Digit(v, n) = Digit(t, n)
    BY <2>4, ShownText
  <2>7. Shown(x)[2] = u /\ Shown(y)[2] = v
    BY <2>1, <2>2, <2>3, <2>4, <2>5, <2>6, ShownText
  <2>8. IsLast(v, Len(v))
    <3>1. b = 0 \/ v[b] # 0
      BY <2>4, <2>6 DEF IsLast, First
    <3>2. \A m \in b + 1 .. b : FALSE
      OBVIOUS
    <3> QED BY <2>6, <3>1, <3>2 DEF IsLast
  <2>9. BytesBefore(u, v) <=> TextUnder(u, v)
    BY <2>8, BytesCompared DEF SameLengthOrTrimmed
  <2>10. TextLike(u, s) /\ TextLike(v, t)
    BY <2>5, <2>6 DEF TextLike
  <2>11. TextUnder(u, v) <=> TextUnder(s, t)
    BY <2>10, TextLikeBoth
  <2>12. Less(x[1], u, v) <=> BytesBefore(u, v)
    BY <1>1 DEF Less
  <2>13. Under(x, y) <=> TextUnder(s, t)
    BY <2>1, <2>2, UnderText
  <2> QED BY <2>7, <2>9, <2>11, <2>12, <2>13
<1>2. CASE x[1] # "Char"
  <2>1. Shown(x) = x /\ Shown(y) = y
    BY <1>2 DEF Shown
  <2> QED BY <1>2, <2>1, NumberLess
<1> QED BY <1>1, <1>2

(* What is compared like two values is related like them. *)
LEMMA CompareMeans ==
  ASSUME NEW x \in AllValues, NEW y \in AllValues, x[1] = y[1], NEW op \in Operators,
         NEW kind, NEW a, NEW b,
         Less(kind, a, b) <=> Under(x, y), Less(kind, b, a) <=> Under(y, x)
  PROVE  Compare(kind, a, op, b) <=> Related(x, op, y)
<1>1. /\ Shown(x) = Shown(y) \/ Under(x, y) \/ Under(y, x)
      /\ Under(x, y) => ~(Shown(x) = Shown(y)) /\ ~Under(y, x)
      /\ Under(y, x) => ~(Shown(x) = Shown(y)) /\ ~Under(x, y)
  <2>1. /\ Alike(x, y) \/ Under(x, y) \/ Under(y, x)
        /\ Under(x, y) => ~Alike(x, y) /\ ~Under(y, x)
    BY UnderOrders
  <2>2. Under(y, x) => ~Alike(y, x) /\ ~Under(x, y)
    BY UnderOrders
  <2> QED BY <2>1, <2>2 DEF Alike
<1>2. op \in {"NoOp", "Eq", "Ne", "Lt", "Gt", "Le", "Ge"}
  BY DEF Operators
<1>3. CASE op = "NoOp"
  BY <1>3 DEF Compare, Related
<1>4. CASE op = "Eq"
  <2>1. Compare(kind, a, op, b) <=> ~Less(kind, a, b) /\ ~Less(kind, b, a)
    BY <1>4 DEF Compare
  <2>2. Related(x, op, y) <=> Shown(x) = Shown(y)
    BY <1>4 DEF Related
  <2> QED BY <1>1, <2>1, <2>2
<1>5. CASE op = "Ne"
  <2>1. Compare(kind, a, op, b) <=> Less(kind, a, b) \/ Less(kind, b, a)
    BY <1>5 DEF Compare
  <2>2. Related(x, op, y) <=> Under(x, y) \/ Under(y, x)
    BY <1>5 DEF Related
  <2> QED BY <1>1, <2>1, <2>2
<1>6. CASE op = "Lt"
  <2>1. Compare(kind, a, op, b) <=> Less(kind, a, b)
    BY <1>6 DEF Compare
  <2>2. Related(x, op, y) <=> Under(x, y)
    BY <1>6 DEF Related
  <2> QED BY <2>1, <2>2
<1>7. CASE op = "Gt"
  <2>1. Compare(kind, a, op, b) <=> Less(kind, b, a)
    BY <1>7 DEF Compare
  <2>2. Related(x, op, y) <=> Under(y, x)
    BY <1>7 DEF Related
  <2> QED BY <2>1, <2>2
<1>8. CASE op = "Le"
  <2>1. Compare(kind, a, op, b) <=> ~Less(kind, b, a)
    BY <1>8 DEF Compare
  <2>2. Related(x, op, y) <=> Shown(x) = Shown(y) \/ Under(x, y)
    BY <1>8 DEF Related
  <2> QED BY <1>1, <2>1, <2>2
<1>9. CASE op = "Ge"
  <2>1. Compare(kind, a, op, b) <=> ~Less(kind, a, b)
    BY <1>9 DEF Compare
  <2>2. Related(x, op, y) <=> Shown(x) = Shown(y) \/ Under(y, x)
    BY <1>9 DEF Related
  <2> QED BY <1>1, <2>1, <2>2
<1> QED BY <1>2, <1>3, <1>4, <1>5, <1>6, <1>7, <1>8, <1>9

-----------------------------------------------------------------------------
(* Filters.                                                                *)

(* The nodes of a filter. *)
LEMMA NodesOfFilter ==
  ASSUME NEW f, IsFilter(f)
  PROVE  /\ Len(f) \in Nat /\ DOMAIN f = 1 .. Len(f)
         /\ \A n \in 1 .. Len(f) : IsNode(f[n], n)
BY DEF IsFilter

(* A column lies in the record, so that its field is always valid. *)
LEMMA ColumnFieldValid ==
  ASSUME NEW c \in Columns
  PROVE  /\ FieldValid(FieldOfColumn(c), RowSize)
         /\ FieldOfColumn(c).type = Schema[c] /\ FieldOfColumn(c).offset = ColumnOffset[c]
<1>1. /\ ColumnOffset[c] + Schema[c].len <= RowSize /\ Schema[c].len > 0
      /\ Schema[c].kind \in {"Int32", "Float32"} => Schema[c].len = 4
  BY ColumnsInRow, ColumnTypes
<1>2. FieldOfColumn(c).type = Schema[c] /\ FieldOfColumn(c).offset = ColumnOffset[c]
  BY DEF FieldOfColumn, Field
<1> QED BY <1>1, <1>2 DEF FieldValid

(* A value that a column can have, padded, has the length of its field. *)
LEMMA ScanValueValid ==
  ASSUME NEW c \in Columns, NEW v \in AllValues, Encodable(c, v)
  PROVE  ValueValid(FieldOfColumn(c), ScanValue(c, v))
<1>1. v[1] = Schema[c].kind /\ FieldOfColumn(c).type = Schema[c]
  BY ColumnFieldValid DEF Encodable, MatchesType
<1>2. CASE v[1] = "Char"
  <2>1. v[2] \in Seq(Bytes) /\ Len(v[2]) <= Schema[c].len /\ Schema[c].len \in Nat
    BY <1>2, ValueKinds, ColumnTypes DEF Encodable
  <2>2. Len(Padded(v[2], Schema[c].len)) = Schema[c].len
    BY <2>1, PaddedDigits
  <2> QED BY <1>1, <1>2, <2>2 DEF ValueValid, ScanValue
<1>3. CASE v[1] # "Char"
  BY <1>1, <1>3 DEF ValueValid, ScanValue
<1> QED BY <1>2, <1>3

NodeAccepted(node) ==
  /\ NodeCompiles(node)
  /\ IF IsClause(CompiledNode(node)) THEN ClauseValid(CompiledNode(node), RowSize)
     ELSE CompiledNode(node).children # {}

NodeMeaningful(node) ==
  CASE node.kind = "value" -> Holds(node.column, node.rhs)
    [] node.kind = "columns" -> /\ {node.column, node.rhs} \subseteq Columns
                                /\ node.op # "NoOp" => Schema[node.column] = Schema[node.rhs]
    [] OTHER -> node.children # {}

NodeKnown(node) ==
  /\ IsClause(node) => Known(node.column)
  /\ node.kind = "columns" => Known(node.rhs)

(* A node is accepted exactly if it means something. *)
LEMMA NodesAccepted ==
  ASSUME NEW node, NEW n, IsNode(node, n)
  PROVE  NodeKnown(node) /\ NodeAccepted(node) <=> NodeMeaningful(node)
<1>1. node.kind \in {"value", "columns", "and", "or", "not"}
  BY DEF IsNode
<1>2. CASE node.kind = "value"
  <2>1. node.rhs \in AllValues
    BY <1>2 DEF IsNode
  <2>2. NodeKnown(node) <=> node.column \in Columns
    BY <1>2 DEF NodeKnown, IsClause, Known
  <2>3. NodeCompiles(node) <=> Encodable(node.column, node.rhs)
    BY <1>2 DEF NodeCompiles
  <2>4. CompiledNode(node) = [kind |-> "value", lhs |-> FieldOfColumn(node.column),
                              op |-> node.op, rhs |-> ScanValue(node.column, node.rhs)]
    BY <1>2 DEF CompiledNode
  <2>5. ASSUME node.column \in Columns, Encodable(node.column, node.rhs)
        PROVE  IsClause(CompiledNode(node)) /\ ClauseValid(CompiledNode(node), RowSize)
    BY <2>1, <2>4, <2>5, ColumnFieldValid, ScanValueValid DEF IsClause, ClauseValid
  <2>6. NodeMeaningful(node) <=> node.column \in Columns /\ Encodable(node.column, node.rhs)
    BY <1>2 DEF NodeMeaningful, Holds, Encodable, MatchesType
  <2> QED BY <2>2, <2>3, <2>5, <2>6 DEF NodeAccepted
<1>3. CASE node.kind = "columns"
  <2>1. NodeKnown(node) <=> node.column \in Columns /\ node.rhs \in Columns
    BY <1>3 DEF NodeKnown, IsClause, Known
  <2>2. CompiledNode(node) = [kind |-> "columns", lhs |-> FieldOfColumn(node.column),
                              op |-> node.op, rhs |-> FieldOfColumn(node.rhs)]
    BY <1>3 DEF CompiledNode
  <2>3. NodeCompiles(node)
    BY <1>3 DEF NodeCompiles
  <2>4. ASSUME node.column \in Columns, node.rhs \in Columns
        PROVE  ClauseValid(CompiledNode(node), RowSize) <=>
                 (node.op # "NoOp" => Schema[node.column] = Schema[node.rhs])
    BY <2>2, <2>4, ColumnFieldValid DEF ClauseValid
  <2>5. NodeMeaningful(node) <=>
          /\ node.column \in Columns /\ node.rhs \in Columns
          /\ node.op # "NoOp" => Schema[node.column] = Schema[node.rhs]
    BY <1>3 DEF NodeMeaningful
  <2>6. IsClause(CompiledNode(node))
    BY <2>2 DEF IsClause
  <2> QED BY <2>1, <2>3, <2>4, <2>5, <2>6 DEF NodeAccepted
<1>4. CASE node.kind \in {"and", "or", "not"}
  <2>1. CompiledNode(node) = node /\ ~IsClause(node)
    BY <1>4 DEF CompiledNode, IsClause
  <2>2. NodeKnown(node)
    BY <1>4 DEF NodeKnown, IsClause
  <2>3. NodeCompiles(node) <=> node.children # {}
    BY <1>4 DEF NodeCompiles
  <2>4. NodeMeaningful(node) <=> node.children # {}
    BY <1>4 DEF NodeMeaningful
  <2> QED BY <2>1, <2>2, <2>3, <2>4 DEF NodeAccepted
<1> QED BY <1>1, <1>2, <1>3, <1>4

(* The code accepts the filters that mean something. *)
LEMMA AcceptedIsMeaningful ==
  ASSUME NEW f, IsFilter(f)
  PROVE  ColumnsKnown(f) /\ FilterAccepted(f) <=> Meaningful(f)
<1>1. ColumnsKnown(f) <=> \A n \in DOMAIN f : NodeKnown(f[n])
  BY DEF ColumnsKnown, NodeKnown
<1>2. FilterAccepted(f) <=> \A n \in DOMAIN f : NodeAccepted(f[n])
  <2>1. DOMAIN Compiled(f) = DOMAIN f /\ \A n \in DOMAIN f : Compiled(f)[n] = CompiledNode(f[n])
    BY DEF Compiled
  <2> QED BY <2>1 DEF FilterAccepted, Compiles, FilterValid, NodeAccepted
<1>3. Meaningful(f) <=> \A n \in DOMAIN f : NodeMeaningful(f[n])
  BY DEF Meaningful, NodeMeaningful
<1>4. \A n \in DOMAIN f : NodeKnown(f[n]) /\ NodeAccepted(f[n]) <=> NodeMeaningful(f[n])
  BY NodesOfFilter, NodesAccepted
<1> QED BY <1>1, <1>2, <1>3, <1>4

(* A clause on columns says of the bytes of a row what it says of the row. *)
LEMMA FieldReads ==
  ASSUME NEW row, IsRow(row), NEW c \in Columns
  PROVE  /\ row[c] \in AllValues /\ row[c][1] = Schema[c].kind /\ row[c] = <<row[c][1], row[c][2]>>
         /\ Schema[c].kind # "Char" => FieldOf(EncodeRow(row), FieldOfColumn(c)) = row[c][2]
         /\ Schema[c].kind = "Char" =>
              /\ row[c][2] \in Seq(Bytes) /\ Len(row[c][2]) <= Schema[c].len
              /\ FieldOf(EncodeRow(row), FieldOfColumn(c)) = Padded(row[c][2], Schema[c].len)
<1>1. row[c] \in AllValues /\ Encodable(c, row[c])
  BY DEF IsRow
<1>2. row[c][1] = Schema[c].kind /\ row[c] = <<row[c][1], row[c][2]>>
  BY <1>1, ValueKinds DEF Encodable, MatchesType
<1>3. Part(EncodeRow(row), ColumnOffset[c], Schema[c].len) = EncodeValue(c, row[c])
  BY RowEncoded
<1>4. FieldOf(EncodeRow(row), FieldOfColumn(c)) =
        IF Schema[c].kind = "Char" THEN EncodeValue(c, row[c])
        ELSE FromLeBytes(EncodeValue(c, row[c]))
  BY <1>3, ColumnFieldValid DEF FieldOf
<1>5. CASE Schema[c].kind = "Char"
  <2>1. EncodeValue(c, row[c]) = Padded(row[c][2], Schema[c].len)
    BY <1>2, <1>5 DEF EncodeValue
  <2>2. row[c][2] \in Seq(Bytes) /\ Len(row[c][2]) <= Schema[c].len
    BY <1>1, <1>2, <1>5, ValueKinds DEF Encodable
  <2> QED BY <1>1, <1>2, <1>4, <1>5, <2>1, <2>2
<1>6. CASE Schema[c].kind # "Char"
  <2>1. EncodeValue(c, row[c]) = ToLeBytes(row[c][2])
    BY <1>2, <1>6 DEF EncodeValue
  <2>2. row[c][2] \in I32
    BY <1>1, <1>2, <1>6, ValueKinds
  <2>3. FromLeBytes(ToLeBytes(row[c][2])) = row[c][2]
    BY <2>2, WordRoundTrip
  <2> QED BY <1>1, <1>2, <1>4, <1>6, <2>1, <2>3
<1> QED BY <1>5, <1>6

(* A value that lies in a column, and another of its kind. *)
LEMMA FieldCompared ==
  ASSUME NEW row, IsRow(row), NEW c \in Columns, NEW v \in AllValues, Encodable(c, v),
         NEW op \in Operators
  PROVE  Compare(Schema[c].kind, FieldOf(EncodeRow(row), FieldOfColumn(c)), op, ScanValue(c, v)[2])
           <=> Related(row[c], op, v)
<1> DEFINE kind == Schema[c].kind
           a == FieldOf(EncodeRow(row), FieldOfColumn(c))
           b == ScanValue(c, v)[2]
<1>1. row[c] \in AllValues /\ row[c][1] = kind /\ v[1] = kind
  BY FieldReads DEF Encodable, MatchesType
<1>2. (Less(kind, a, b) <=> Under(row[c], v)) /\ (Less(kind, b, a) <=> Under(v, row[c]))
  <2>1. CASE kind = "Char"
    <3>1. PICK x \in Seq(Bytes) : row[c] = <<"Char", x>> /\ Len(x) <= Schema[c].len
                                  /\ a = Padded(x, Schema[c].len)
      <4>1. row[c][2] \in Seq(Bytes) /\ row[c] = <<"Char", row[c][2]>>
        BY <1>1, <2>1, FieldReads
      <4> QED BY <2>1, <4>1, FieldReads
    <3>2. PICK y \in Seq(Bytes) : v = <<"Char", y>> /\ Len(y) <= Schema[c].len
      BY <1>1, <2>1, ValueKinds DEF Encodable
    <3>3. b = Padded(y, Schema[c].len)
      BY <3>2 DEF ScanValue
    <3>4. PICK len \in Nat : len = Schema[c].len
      BY ColumnTypes
    <3> HIDE DEF a, b
    <3>5. Less("Char", a, b) <=> Under(<<"Char", x>>, <<"Char", y>>)
      BY <3>1, <3>2, <3>3, <3>4, PaddedLess
    <3>6. Less("Char", b, a) <=> Under(<<"Char", y>>, <<"Char", x>>)
      BY <3>1, <3>2, <3>3, <3>4, PaddedLess
    <3> QED BY <2>1, <3>1, <3>2, <3>5, <3>6
  <2>2. CASE kind # "Char"
    <3>1. a = row[c][2] /\ b = v[2]
      BY <1>1, <2>2, FieldReads DEF ScanValue
    <3> HIDE DEF a, b, kind
    <3>2. Less(kind, row[c][2], v[2]) <=> Under(row[c], v)
      BY <1>1, <2>2, NumberLess
    <3>3. Less(kind, v[2], row[c][2]) <=> Under(v, row[c])
      BY <1>1, <2>2, NumberLess
    <3> QED BY <3>1, <3>2, <3>3
  <2> QED BY <2>1, <2>2
<1> HIDE DEF a, b, kind
<1>3. PICK x \in AllValues : x = row[c] /\ x[1] = v[1]
  BY <1>1
<1>4. Compare(kind, a, op, b) <=> Related(x, op, v)
  BY <1>2, <1>3, CompareMeans
<1> QED BY <1>3, <1>4 DEF a, b, kind

(* The value of a column, as a clause on a column of its type sees it. *)
LEMMA ColumnValueEncodable ==
  ASSUME NEW row, IsRow(row), NEW c \in Columns, NEW d \in Columns, Schema[c] = Schema[d]
  PROVE  /\ row[d] \in AllValues /\ Encodable(c, row[d])
         /\ ScanValue(c, row[d])[2] = FieldOf(EncodeRow(row), FieldOfColumn(d))
<1>1. row[d] \in AllValues /\ Encodable(d, row[d])
  BY DEF IsRow
<1>2. Encodable(c, row[d])
  BY <1>1 DEF Encodable, MatchesType
<1>3. CASE Schema[d].kind = "Char"
  BY <1>1, <1>2, <1>3, FieldReads DEF ScanValue
<1>4. CASE Schema[d].kind # "Char"
  BY <1>1, <1>2, <1>4, FieldReads DEF ScanValue
<1> QED BY <1>3, <1>4

(* A clause matches the bytes of a row exactly if it says so of the row. *)
LEMMA ClauseMeans ==
  ASSUME NEW i, IsRow(table[i]), NEW node, NEW n, IsNode(node, n), IsClause(node),
         NodeMeaningful(node)
  PROVE  ClauseMatches(CompiledNode(node), EncodeRow(table[i])) <=> Says(node, i)
<1> DEFINE row == table[i]
           c == node.column
           record == EncodeRow(row)
<1>1. CASE node.op = "NoOp"
  BY <1>1 DEF ClauseMatches, CompiledNode, Says, IsClause
<1>2. CASE node.op # "NoOp" /\ node.kind = "value"
  <2>1. c \in Columns /\ node.rhs \in AllValues /\ node.op \in Operators
    BY <1>2 DEF IsNode, NodeMeaningful, Holds
  <2>2. Encodable(c, node.rhs)
    BY <1>2 DEF NodeMeaningful, Holds, Encodable, MatchesType
  <2>3. ClauseMatches(CompiledNode(node), record) <=>
          Compare(FieldOfColumn(c).type.kind, FieldOf(record, FieldOfColumn(c)), node.op,
                  ScanValue(c, node.rhs)[2])
    BY <1>2 DEF ClauseMatches, CompiledNode
  <2>4. Says(node, i) <=> Related(row[c], node.op, node.rhs)
    BY <1>2 DEF Says
  <2>5. FieldOfColumn(c).type.kind = Schema[c].kind
    BY <2>1, ColumnFieldValid
  <2> HIDE DEF row, c
  <2>6. IsRow(row)
    BY DEF row
  <2> QED BY <2>1, <2>2, <2>3, <2>4, <2>5, <2>6, FieldCompared DEF row
<1>3. CASE node.op # "NoOp" /\ node.kind = "columns"
  <2> DEFINE d == node.rhs
  <2>1. c \in Columns /\ d \in Columns /\ node.op \in Operators /\ Schema[c] = Schema[d]
    BY <1>3 DEF IsNode, NodeMeaningful
  <2>2. row[d] \in AllValues /\ Encodable(c, row[d])
        /\ ScanValue(c, row[d])[2] = FieldOf(record, FieldOfColumn(d))
    BY <2>1, ColumnValueEncodable
  <2>3. ClauseMatches(CompiledNode(node), record) <=>
          Compare(FieldOfColumn(c).type.kind, FieldOf(record, FieldOfColumn(c)), node.op,
                  FieldOf(record, FieldOfColumn(d)))
    BY <1>3 DEF ClauseMatches, CompiledNode
  <2>4. Says(node, i) <=> Related(row[c], node.op, row[d])
    BY <1>3 DEF Says
  <2>5. FieldOfColumn(c).type.kind = Schema[c].kind
    BY <2>1, ColumnFieldValid
  <2> HIDE DEF row, c, d
  <2>6. IsRow(row)
    BY DEF row
  <2> QED BY <2>1, <2>2, <2>3, <2>4, <2>5, <2>6, FieldCompared DEF row
<1> QED BY <1>1, <1>2, <1>3 DEF IsClause

\* Every node names its children among those before it.
Nested(f) ==
  /\ Len(f) \in Nat /\ DOMAIN f = 1 .. Len(f)
  /\ \A n \in 1 .. Len(f) : IsClause(f[n]) \/ f[n].children \subseteq 1 .. n - 1

(* The nodes that match are found one after the other. *)
LEMMA MatchingStepwise ==
  ASSUME NEW f, Len(f) \in Nat, NEW record
  PROVE  /\ MatchingNodes(f, record)[0] = {}
         /\ \A n \in 1 .. Len(f) :
              MatchingNodes(f, record)[n] =
                IF NodeMatches(f[n], record, MatchingNodes(f, record)[n - 1])
                THEN MatchingNodes(f, record)[n - 1] \cup {n}
                ELSE MatchingNodes(f, record)[n - 1]
<1> DEFINE k == Len(f)
           Step(n, found) == IF NodeMatches(f[n], record, found) THEN found \cup {n} ELSE found
           Is(g) == g = [n \in 0 .. k |-> IF n = 0 THEN {} ELSE Step(n, g[n - 1])]
           step == [x \in Nat \X SUBSET Nat |-> Step(x[1] + 1, x[2])]
<1>1. step \in Steps(SUBSET Nat) /\ {} \in SUBSET Nat
  <2>1. ASSUME NEW x \in Nat \X SUBSET Nat PROVE Step(x[1] + 1, x[2]) \in SUBSET Nat
    OBVIOUS
  <2> HIDE DEF Step
  <2> QED BY <2>1 DEF Steps
<1>2. PICK g : /\ g = [n \in 0 .. k |-> IF n = 0 THEN {} ELSE step[<<n - 1, g[n - 1]>>]]
               /\ g \in [0 .. k -> SUBSET Nat]
  <2> HIDE DEF step, k, Is, Step
  <2> QED BY <1>1, RecursionUpTo DEF k
<1>3. ASSUME NEW n \in 0 .. k, n # 0 PROVE step[<<n - 1, g[n - 1]>>] = Step(n, g[n - 1])
  <2>1. n - 1 \in 0 .. k /\ n - 1 \in Nat /\ (n - 1) + 1 = n
    BY <1>3
  <2>2. g[n - 1] \in SUBSET Nat
    BY <1>2, <2>1
  <2>3. <<n - 1, g[n - 1]>> \in Nat \X SUBSET Nat
    BY <2>1, <2>2
  <2> HIDE DEF Step, k
  <2> QED BY <2>1, <2>3
<1>4. Is(g)
  <2> HIDE DEF step, k, Step
  <2>1. \A n \in 0 .. k : g[n] = IF n = 0 THEN {} ELSE Step(n, g[n - 1])
    BY <1>2, <1>3
  <2>2. g = [n \in 0 .. k |-> g[n]]
    BY <1>2
  <2> QED BY <2>1, <2>2
<1>5. MatchingNodes(f, record) = CHOOSE g_ : Is(g_)
  BY DEF MatchingNodes
<1> DEFINE found == MatchingNodes(f, record)
<1>6. Is(found)
  <2> HIDE DEF Is
  <2> QED BY <1>4, <1>5
<1>7. found = [n \in 0 .. k |-> IF n = 0 THEN {} ELSE Step(n, found[n - 1])]
  BY <1>6 DEF Is
<1>8. k \in Nat
  OBVIOUS
<1> HIDE DEF found, Step, k, Is, step
<1>9. found[0] = {}
  BY <1>7, <1>8
<1>10. ASSUME NEW n \in 1 .. k PROVE found[n] = Step(n, found[n - 1])
  <2>1. n \in 0 .. k /\ n # 0
    BY <1>8
  <2> QED BY <1>7, <2>1
<1> QED BY <1>9, <1>10 DEF found, Step, k

(* A node matches if its children do that are among those that match. *)
LEMMA MatchingNodesAre ==
  ASSUME NEW f, Nested(f), NEW record
  PROVE  LET T == MatchingNodes(f, record)[Len(f)] IN
         /\ T \subseteq 1 .. Len(f)
         /\ \A n \in 1 .. Len(f) : n \in T <=> NodeMatches(f[n], record, T)
         /\ FilterMatches(f, record) <=> Len(f) \in T
<1> DEFINE found == MatchingNodes(f, record)
           k == Len(f)
           Good(n) == n <= k => /\ found[n] \subseteq 1 .. n
                                /\ \A m \in 0 .. n : found[n] \cap (1 .. m) = found[m]
           T == {n \in Nat : Good(n)}
<1>1. k \in Nat
  BY DEF Nested
<1>2. /\ found[0] = {}
      /\ \A n \in 1 .. k : found[n] = IF NodeMatches(f[n], record, found[n - 1])
                                      THEN found[n - 1] \cup {n} ELSE found[n - 1]
  BY <1>1, MatchingStepwise
<1> HIDE DEF found, k
<1>3. 0 \in T
  BY <1>2
<1>4. ASSUME NEW n \in Nat, n \in T PROVE n + 1 \in T
  <2> SUFFICES ASSUME n + 1 <= k PROVE Good(n + 1)
    OBVIOUS
  <2>1. PICK j \in 1 .. k : j = n + 1 /\ j - 1 = n
    BY <1>1
  <2>2. found[j] = found[n] \/ found[j] = found[n] \cup {j}
    BY <1>2, <2>1
  <2>3. found[n] \subseteq 1 .. n /\ \A m \in 0 .. n : found[n] \cap (1 .. m) = found[m]
    BY <1>1, <1>4, <2>1
  <2>4. found[j] \subseteq 1 .. j
    BY <2>1, <2>2, <2>3
  <2>5. ASSUME NEW m \in 0 .. j PROVE found[j] \cap (1 .. m) = found[m]
    <3>1. CASE m = j
      BY <2>4, <3>1
    <3>2. CASE m # j
      <4>1. m \in 0 .. n /\ j \notin 1 .. m
        BY <2>1, <3>2
      <4> QED BY <2>2, <2>3, <4>1
    <3> QED BY <3>1, <3>2
  <2> QED BY <2>1, <2>4, <2>5
<1> HIDE DEF Good
<1>5. \A n \in 0 .. k : Good(n)
  <2> HIDE DEF T
  <2>1. Nat \subseteq T
    BY <1>3, <1>4, Induction
  <2> QED BY <1>1, <2>1 DEF T
<1> DEFINE all == found[k]
<1>6. all \subseteq 1 .. k /\ \A m \in 0 .. k : all \cap (1 .. m) = found[m]
  BY <1>1, <1>5 DEF Good
<1> HIDE DEF all
<1>7. ASSUME NEW n \in 1 .. k PROVE n \in all <=> NodeMatches(f[n], record, all)
  <2>1. n \in Nat /\ n - 1 \in 0 .. k /\ n \in 0 .. k /\ n \in 1 .. n /\ n \notin 1 .. n - 1
    BY <1>1
  <2>2. all \cap (1 .. n - 1) = found[n - 1] /\ all \cap (1 .. n) = found[n]
    BY <1>6, <2>1
  <2>3. n \notin found[n - 1]
    BY <2>1, <2>2
  <2>4. n \in found[n] <=> NodeMatches(f[n], record, found[n - 1])
    BY <1>2, <2>3
  <2>5. NodeMatches(f[n], record, found[n - 1]) <=> NodeMatches(f[n], record, all)
    <3>1. CASE IsClause(f[n])
      BY <3>1 DEF NodeMatches
    <3>2. CASE ~IsClause(f[n])
      <4>1. f[n].children \subseteq 1 .. n - 1
        BY <3>2 DEF Nested, k
      <4>2. /\ f[n].children \cap found[n - 1] = f[n].children \cap all
            /\ f[n].children \subseteq found[n - 1] <=> f[n].children \subseteq all
        BY <2>2, <4>1
      <4> QED BY <3>2, <4>2 DEF NodeMatches
    <3> QED BY <3>1, <3>2
  <2> QED BY <2>1, <2>2, <2>4, <2>5
<1>8. FilterMatches(f, record) <=> k \in all
  BY DEF FilterMatches, k, all, found
<1> QED BY <1>6, <1>7, <1>8 DEF k, all, found

(* There is one truth about the nodes of a filter. *)
LEMMA OneTruth ==
  ASSUME NEW f, IsFilter(f), NEW i,
         NEW S \in SUBSET (DOMAIN f), AreTrue(S, f, i),
         NEW T \in SUBSET (DOMAIN f), AreTrue(T, f, i)
  PROVE  S = T
<1> DEFINE k == Len(f)
           U == {n \in Nat : \A m \in 1 .. k : m <= n => (m \in S <=> m \in T)}
<1>1. k \in Nat /\ DOMAIN f = 1 .. k
  BY NodesOfFilter
<1>2. 0 \in U
  OBVIOUS
<1>3. ASSUME NEW n \in Nat, n \in U PROVE n + 1 \in U
  <2> SUFFICES ASSUME NEW m \in 1 .. k, m = n + 1 PROVE m \in S <=> m \in T
    BY <1>1, <1>3
  <2>1. \A j \in 1 .. m - 1 : j \in S <=> j \in T
    BY <1>1, <1>3
  <2>2. IsNode(f[m], m)
    BY <1>1, NodesOfFilter
  <2>3. CASE IsClause(f[m])
    BY <1>1, <2>3 DEF AreTrue, IsClause
  <2>4. CASE ~IsClause(f[m])
    <3>1. f[m].kind \in {"and", "or", "not"} /\ f[m].children \subseteq 1 .. m - 1
      BY <2>2, <2>4 DEF IsNode, IsClause
    <3>2. \A j \in f[m].children : j \in S <=> j \in T
      BY <2>1, <3>1
    <3>3. CASE f[m].kind = "and"
      BY <1>1, <2>4, <3>2, <3>3 DEF AreTrue
    <3>4. CASE f[m].kind = "or"
      BY <1>1, <2>4, <3>2, <3>4 DEF AreTrue
    <3>5. CASE f[m].kind = "not"
      BY <1>1, <2>4, <3>2, <3>5 DEF AreTrue
    <3> QED BY <3>1, <3>3, <3>4, <3>5
  <2> QED BY <2>3, <2>4
<1> HIDE DEF U
<1>4. Nat \subseteq U
  BY <1>2, <1>3, Induction
<1>5. k \in U
  BY <1>1, <1>4
<1>6. \A m \in 1 .. k : m \in S <=> m \in T
  BY <1>1, <1>5 DEF U
<1> QED BY <1>1, <1>6

\* What is said of the row at i, by a filter that is not empty.
SaysOf(f, i) == \E T \in SUBSET (DOMAIN f) : AreTrue(T, f, i) /\ Len(f) \in T

(* The bytes of a row match a filter if the row satisfies it. *)
LEMMA FilterMeans ==
  ASSUME NEW f, IsFilter(f), Meaningful(f), NEW i, IsRow(table[i])
  PROVE  FilterMatches(Compiled(f), EncodeRow(table[i])) <=> SaysOf(f, i)
<1> DEFINE g == Compiled(f)
           k == Len(f)
           record == EncodeRow(table[i])
           T == MatchingNodes(g, record)[Len(g)]
<1>1. k \in Nat /\ DOMAIN f = 1 .. k /\ \A n \in 1 .. k : IsNode(f[n], n)
  BY NodesOfFilter
<1>2. Len(g) = k /\ DOMAIN g = 1 .. k /\ \A n \in 1 .. k : g[n] = CompiledNode(f[n])
  <2>1. g = [n \in 1 .. k |-> CompiledNode(f[n])]
    BY <1>1 DEF Compiled
  <2> HIDE DEF g
  <2> QED BY <1>1, <2>1
<1>3. ASSUME NEW n \in 1 .. k
      PROVE  /\ f[n].kind \in {"value", "columns", "and", "or", "not"}
             /\ IsClause(f[n]) => IsClause(g[n])
             /\ ~IsClause(f[n]) => g[n] = f[n] /\ f[n].children \subseteq 1 .. n - 1
  <2>1. IsNode(f[n], n)
    BY <1>1
  <2>2. g[n] = CompiledNode(f[n])
    BY <1>2
  <2> HIDE DEF g
  <2>3. f[n].kind \in {"value", "columns", "and", "or", "not"}
    BY <2>1 DEF IsNode
  <2>4. IsClause(f[n]) => IsClause(g[n])
    BY <2>2 DEF IsClause, CompiledNode
  <2>5. ~IsClause(f[n]) => g[n] = f[n]
    BY <2>2, <2>3 DEF IsClause, CompiledNode
  <2>6. ~IsClause(f[n]) => f[n].children \subseteq 1 .. n - 1
    BY <2>1 DEF IsClause, IsNode
  <2> QED BY <2>3, <2>4, <2>5, <2>6
<1>4. Nested(g)
  BY <1>1, <1>2, <1>3 DEF Nested
<1>5. /\ T \subseteq 1 .. k
      /\ \A n \in 1 .. k : n \in T <=> NodeMatches(g[n], record, T)
      /\ FilterMatches(g, record) <=> k \in T
  <2> HIDE DEF g, record, T
  <2>1. /\ T \subseteq 1 .. Len(g)
        /\ \A n \in 1 .. Len(g) : n \in T <=> NodeMatches(g[n], record, T)
        /\ FilterMatches(g, record) <=> Len(g) \in T
    BY <1>4, MatchingNodesAre DEF T
  <2> QED BY <1>2, <2>1
<1> HIDE DEF T
<1>6. ASSUME NEW n \in 1 .. k
      PROVE  n \in T <=> CASE IsClause(f[n]) -> Says(f[n], i)
                           [] f[n].kind = "not" -> \A m \in f[n].children : m \notin T
                           [] f[n].kind = "and" -> \A m \in f[n].children : m \in T
                           [] f[n].kind = "or" -> \E m \in f[n].children : m \in T
  <2>1. n \in T <=> NodeMatches(g[n], record, T)
    BY <1>5
  <2>2. CASE IsClause(f[n])
    <3>1. NodeMatches(g[n], record, T) <=> ClauseMatches(g[n], record)
      BY <1>3, <2>2 DEF NodeMatches, IsClause
    <3>2. IsNode(f[n], n) /\ NodeMeaningful(f[n])
      BY <1>1, <2>2 DEF Meaningful, NodeMeaningful
    <3>3. ClauseMatches(CompiledNode(f[n]), record) <=> Says(f[n], i)
      BY <2>2, <3>2, ClauseMeans
    <3>4. n \in T <=> Says(f[n], i)
      BY <1>2, <2>1, <3>1, <3>3
    <3> QED BY <2>2, <3>4 DEF IsClause
  <2>3. CASE ~IsClause(f[n])
    <3>1. g[n] = f[n] /\ f[n].kind \in {"and", "or", "not"}
      BY <1>3, <2>3 DEF IsClause
    <3> HIDE DEF g, record
    <3>2. CASE f[n].kind = "not"
      BY <2>1, <2>3, <3>1, <3>2 DEF NodeMatches
    <3>3. CASE f[n].kind = "and"
      BY <2>1, <2>3, <3>1, <3>3 DEF NodeMatches
    <3>4. CASE f[n].kind = "or"
      BY <2>1, <2>3, <3>1, <3>4 DEF NodeMatches
    <3> QED BY <3>1, <3>2, <3>3, <3>4
  <2> QED BY <2>2, <2>3
<1>7. T \in SUBSET (DOMAIN f) /\ AreTrue(T, f, i)
  BY <1>1, <1>5, <1>6 DEF AreTrue
<1>8. SaysOf(f, i) <=> k \in T
  BY <1>7, OneTruth DEF SaysOf
<1> QED BY <1>5, <1>8

-----------------------------------------------------------------------------
(* Requests, step by step.                                                 *)

\* What a request finds.
Given ==
  /\ table \in Tables
  /\ IsRequest(request)
  /\ indexed \subseteq IndexedBy(request)

(* No step changes the request, the indexes or what the client has put into *)
(* the table.                                                               *)
LEMMA GivenStays ==
  /\ Init => Given
  /\ Given /\ [Next]_vars => Given' /\ UNCHANGED <<table, indexed, request>>
<1>1. Init => Given
  BY RequestAssumption DEF Init, Given
<1>2. Next => UNCHANGED <<table, indexed, request>>
  BY DEF Next, RefuseSelect, CheckSelect, Lookup, Scan, RefuseFilter, ApplyOrderBy, ApplyLimit,
         Project, ResolveInsert, RefuseInsert, Insert, RefuseRow, ResolveWrite, RefuseWrite,
         UpdateWhere, DeleteWhere, RefuseWhere, ScanWithPredicate, RefusePredicate,
         ScanWithFilter, RefuseCompound, CreateTable, RefuseSchema, Stage, End, Refuse
<1>3. [Next]_vars => UNCHANGED <<table, indexed, request>>
  BY <1>2 DEF vars
<1>4. Given /\ UNCHANGED <<table, indexed, request>> => Given'
  BY DEF Given, IndexedBy
<1> QED BY <1>1, <1>3, <1>4

\* What the checks of a select find out.
SelectPlanned(r) == ColumnsKnown(r.filter) /\ PlanResolves(r)
SelectAccepted(r) == SelectPlanned(r) /\ FilterAccepted(r.filter)

SelectStages == {"check", "lookup", "scan", "order", "limit", "project", "answered", "refused"}

SelectChecked ==
  IsSelect =>
    /\ stage \in SelectStages
    /\ stage \notin {"check", "refused"} => SelectPlanned(request)
    /\ stage = "lookup" => LooksUpIndex(request)
    /\ stage \in {"order", "limit", "project", "answered"} => SelectAccepted(request)
    /\ stage = "refused" => ~SelectAccepted(request)

(* A select takes the steps of a select. *)
SelectStep ==
  \/ RefuseSelect \/ CheckSelect \/ Lookup \/ Scan \/ RefuseFilter
  \/ ApplyOrderBy \/ ApplyLimit \/ Project

(* No other step is possible in a select. *)
LEMMA SelectTakesItsSteps ==
  ASSUME IsSelect, stage \in SelectStages, Next
  PROVE  SelectStep
<1>1. /\ request.call = "select"
      /\ stage \notin {"insert", "update", "delete"}
  BY DEF IsSelect, SelectStages
<1>2. ~(ResolveInsert \/ RefuseInsert \/ ResolveWrite \/ RefuseWrite)
  BY <1>1 DEF ResolveInsert, RefuseInsert, ResolveWrite, RefuseWrite, Ask
<1>3. ~(Insert \/ RefuseRow \/ UpdateWhere \/ DeleteWhere \/ RefuseWhere)
  BY <1>1 DEF Insert, RefuseRow, UpdateWhere, DeleteWhere, RefuseWhere
<1>4. ~(ScanWithPredicate \/ RefusePredicate \/ ScanWithFilter \/ RefuseCompound
          \/ CreateTable \/ RefuseSchema)
  BY <1>1 DEF ScanWithPredicate, RefusePredicate, ScanWithFilter, RefuseCompound,
              CreateTable, RefuseSchema, Ask
<1> QED BY <1>2, <1>3, <1>4 DEF Next, SelectStep

(* An index answers filters that are accepted: it is on an Int32 column and *)
(* is asked for an Int32.                                                   *)
LEMMA IndexedIsAccepted ==
  ASSUME Given, IsSelect, LooksUpIndex(request), ColumnsKnown(request.filter)
  PROVE  FilterAccepted(request.filter)
<1> DEFINE f == request.filter
<1>1. IsFilter(f)
  BY DEF Given, IsSelect, IsRequest
<1>2. /\ Len(f) = 1 /\ f[1].kind = "value" /\ f[1].rhs[1] = "Int32"
      /\ f[1].column \in Columns /\ Schema[f[1].column] = Int32
  BY DEF LooksUpIndex, Given, IndexedBy, IsSelect
<1>3. DOMAIN f = 1 .. 1
  BY <1>1, <1>2, NodesOfFilter
<1>4. Holds(f[1].column, f[1].rhs)
  BY <1>2 DEF Holds, Int32
<1> HIDE DEF f
<1>5. Meaningful(f)
  BY <1>2, <1>3, <1>4 DEF Meaningful
<1> QED BY <1>1, <1>5, AcceptedIsMeaningful DEF f

(* A select that gets past the checks is accepted, and a refused one is     *)
(* not.                                                                     *)
LEMMA SelectIsChecked ==
  /\ Init => SelectChecked
  /\ Given /\ SelectChecked /\ [Next]_vars => SelectChecked'
<1>1. Init => SelectChecked
  BY DEF Init, SelectChecked, SelectStages
<1> SUFFICES ASSUME Given, SelectChecked, [Next]_vars, IsSelect PROVE SelectChecked'
  BY <1>1, GivenStays DEF SelectChecked, IsSelect
<1>2. /\ UNCHANGED <<request, indexed>>
      /\ LooksUpIndex(request)' <=> LooksUpIndex(request)
  BY GivenStays DEF LooksUpIndex
<1>3. /\ stage \in SelectStages
      /\ stage \notin {"check", "refused"} => SelectPlanned(request)
      /\ stage = "lookup" => LooksUpIndex(request)
      /\ stage \in {"order", "limit", "project", "answered"} => SelectAccepted(request)
      /\ stage = "refused" => ~SelectAccepted(request)
  BY DEF SelectChecked
<1>4. CASE RefuseSelect
  BY <1>2, <1>4 DEF RefuseSelect, Refuse, End, SelectPlanned, SelectAccepted, SelectChecked,
                    SelectStages
<1>5. CASE CheckSelect
  BY <1>2, <1>5 DEF CheckSelect, Stage, SelectPlanned, SelectChecked, SelectStages
<1>6. CASE Lookup
  BY <1>2, <1>3, <1>6, IndexedIsAccepted
     DEF Lookup, Stage, SelectPlanned, SelectAccepted, SelectChecked, SelectStages
<1>7. CASE Scan
  BY <1>2, <1>3, <1>7 DEF Scan, Stage, SelectAccepted, SelectChecked, SelectStages
<1>8. CASE RefuseFilter
  BY <1>2, <1>3, <1>8 DEF RefuseFilter, Refuse, End, SelectAccepted, SelectChecked, SelectStages
<1>9. CASE ApplyOrderBy
  BY <1>2, <1>3, <1>9 DEF ApplyOrderBy, Stage, SelectChecked, SelectStages
<1>10. CASE ApplyLimit
  BY <1>2, <1>3, <1>10 DEF ApplyLimit, Stage, SelectChecked, SelectStages
<1>11. CASE Project
  BY <1>2, <1>3, <1>11 DEF Project, End, SelectChecked, SelectStages
<1>12. CASE UNCHANGED vars
  BY <1>2, <1>3, <1>12 DEF vars, SelectChecked
<1> QED BY <1>3, <1>4, <1>5, <1>6, <1>7, <1>8, <1>9, <1>10, <1>11, <1>12, SelectTakesItsSteps
     DEF SelectStep

(* A select whose checks succeed is one that means something. *)
LEMMA AcceptedSelect ==
  ASSUME NEW r, IsRequest(r), r.call = "select"
  PROVE  SelectAccepted(r) <=>
           /\ Meaningful(r.filter)
           /\ Range(r.projection) \subseteq Columns
           /\ Cardinality(Range(r.projection)) = Len(r.projection)
           /\ Range(ColumnsOf(r.order_by)) \subseteq Columns
           /\ Cardinality(Range(ColumnsOf(r.order_by))) = Len(r.order_by)
           /\ r.limit # 0
<1>1. /\ IsFilter(r.filter) /\ r.projection \in Seq(ColumnNames)
      /\ r.order_by \in Seq(ColumnNames \X {"Asc", "Desc"})
  BY DEF IsRequest
<1>2. PICK order : order = ColumnsOf(r.order_by)
  OBVIOUS
<1>3. /\ order \in Seq(ColumnNames) /\ Len(order) = Len(r.order_by)
      /\ \A n \in DOMAIN r.order_by : order[n] = r.order_by[n][1]
      /\ DOMAIN order = DOMAIN r.order_by
  BY <1>1, <1>2 DEF ColumnsOf
<1>4. /\ NoDuplicates(r.projection) <=> Cardinality(Range(r.projection)) = Len(r.projection)
      /\ NoDuplicates(order) <=> Cardinality(Range(order)) = Len(order)
  BY <1>1, <1>3, OnceIsInjective DEF NoDuplicates
<1>5. /\ (\A n \in DOMAIN r.projection : Known(r.projection[n])) <=> Range(r.projection) \subseteq Columns
      /\ (\A n \in DOMAIN r.order_by : Known(r.order_by[n][1])) <=> Range(order) \subseteq Columns
  BY <1>3 DEF Range, Known
<1>6. ColumnsKnown(r.filter) /\ FilterAccepted(r.filter) <=> Meaningful(r.filter)
  BY <1>1, AcceptedIsMeaningful
<1> QED BY <1>2, <1>3, <1>4, <1>5, <1>6 DEF SelectAccepted, SelectPlanned, PlanResolves

(* A select is refused exactly if its request means nothing for the schema: *)
(* neither the rows of the table nor its indexes make a difference          *)
(* (validate_expr_columns, resolve_select_plan, compile_expr,               *)
(* validate_for_record).                                                    *)
THEOREM RefusalIsOfTheRequest == Spec => []RefusalDependsOnRequest
<1>1. Init => Given /\ SelectChecked
  BY GivenStays, SelectIsChecked
<1>2. Given /\ SelectChecked /\ [Next]_vars => (Given /\ SelectChecked)'
  BY GivenStays, SelectIsChecked
<1>3. Given /\ SelectChecked => RefusalDependsOnRequest
  <2> SUFFICES ASSUME Given, SelectChecked, IsSelect PROVE RefusalDependsOnRequest
    BY DEF RefusalDependsOnRequest
  <2>1. /\ Refused => ~SelectAccepted(request)
        /\ Answered => SelectAccepted(request)
    BY DEF SelectChecked, Refused, Answered
  <2>2. IsRequest(request) /\ request.call = "select"
    BY DEF Given, IsSelect
  <2> QED BY <2>1, <2>2, AcceptedSelect DEF RefusalDependsOnRequest
<1> QED BY <1>1, <1>2, <1>3, PTL DEF Spec

-----------------------------------------------------------------------------
(* The creation of tables.                                                 *)

\* The bytes of the first n columns, each by its column and its place there.
CellsUpTo(types, n) == UNION {{c} \X (1 .. types[c].len) : c \in 1 .. n}

(* A record is as long as its columns together. *)
LEMMA SizeIsSum ==
  ASSUME NEW types \in Seq(FieldTypes)
  PROVE  Cardinality(UNION {{c} \X (1 .. types[c].len) : c \in DOMAIN types}) = RecordSize(types)
<1> DEFINE k == Len(types)
           end == Ends(types)
           T == {n \in Nat : n <= k => /\ IsFiniteSet(CellsUpTo(types, n))
                                       /\ Cardinality(CellsUpTo(types, n)) = end[n]}
<1>1. /\ k \in Nat /\ end[0] = 0 /\ DOMAIN types = 1 .. k
      /\ \A n \in 1 .. k : end[n - 1] \in Nat /\ end[n] = end[n - 1] + types[n].len
  BY EndsStepwise
<1> HIDE DEF end
<1>2. 0 \in T
  <2>1. CellsUpTo(types, 0) = {}
    BY DEF CellsUpTo
  <2> QED BY <1>1, <2>1, FS_EmptySet
<1>3. ASSUME NEW n \in Nat, n \in T, n + 1 <= k
      PROVE  /\ IsFiniteSet(CellsUpTo(types, n + 1))
             /\ Cardinality(CellsUpTo(types, n + 1)) = end[n + 1]
  <2>1. PICK m \in 1 .. k : m = n + 1 /\ m - 1 = n
    BY <1>1, <1>3
  <2>2. types[m].len \in Nat
    BY <1>1, <2>1, TypesOfFields
  <2>3. PICK len \in Nat : len = types[m].len
    BY <2>2
  <2>4. PICK cell : cell = {m} \X (1 .. len)
    OBVIOUS
  <2>5. CellsUpTo(types, m) = CellsUpTo(types, n) \cup cell
    <3>1. 1 .. m = (1 .. n) \cup {m}
      BY <2>1
    <3> QED BY <2>3, <2>4, <3>1, Zenon DEF CellsUpTo
  <2>6. CellsUpTo(types, n) \cap cell = {}
    <3>1. \A c \in 1 .. n : c # m
      BY <2>1
    <3> QED BY <2>4, <3>1 DEF CellsUpTo
  <2>7. IsFiniteSet(cell) /\ Cardinality(cell) = len
    <3>1. IsFiniteSet({m}) /\ Cardinality({m}) = 1
      BY FS_Singleton
    <3>2. IsFiniteSet(1 .. len) /\ Cardinality(1 .. len) = len
      <4>1. 1 \in Int /\ len \in Int
        BY <2>3
      <4>2. /\ IsFiniteSet(1 .. len)
            /\ Cardinality(1 .. len) = IF 1 > len THEN 0 ELSE len - 1 + 1
        BY <4>1, FS_Interval
      <4> QED BY <2>3, <4>2
    <3>3. IsFiniteSet(cell) /\ Cardinality(cell) = Cardinality({m}) * Cardinality(1 .. len)
      BY <2>4, <3>1, <3>2, FS_Product
    <3>4. 1 * len = len
      BY <2>3
    <3> QED BY <3>1, <3>2, <3>3, <3>4
  <2>8. IsFiniteSet(CellsUpTo(types, n)) /\ Cardinality(CellsUpTo(types, n)) = end[n]
    BY <1>1, <1>3
  <2>9. /\ IsFiniteSet(CellsUpTo(types, m))
        /\ Cardinality(CellsUpTo(types, m)) = end[n] + len - Cardinality({})
    <3>1. PICK cells : cells = CellsUpTo(types, n)
      OBVIOUS
    <3>2. /\ IsFiniteSet(cells \cup cell)
          /\ Cardinality(cells \cup cell) =
               Cardinality(cells) + Cardinality(cell) - Cardinality(cells \cap cell)
      BY <2>7, <2>8, <3>1, FS_Union
    <3> QED BY <2>5, <2>6, <2>7, <2>8, <3>1, <3>2
  <2>10. end[m] = end[n] + len /\ end[n] \in Nat
    BY <1>1, <2>1, <2>3
  <2> QED BY <2>1, <2>3, <2>9, <2>10, FS_EmptySet
<1>4. \A n \in Nat : n \in T => n + 1 \in T
  BY <1>3
<1>5. k \in T
  <2> HIDE DEF T
  <2> QED BY <1>1, <1>2, <1>4, Induction
<1>6. Cardinality(CellsUpTo(types, k)) = end[k]
  BY <1>1, <1>5
<1> QED BY <1>1, <1>6 DEF CellsUpTo, RecordSize, end

\* The layout that is the answer of a create.
Layout(types) ==
  [offset |-> [c \in DOMAIN types |-> Offset(types, c)],
   size |-> RecordSize(types),
   slots |-> SlotsPerPage(RecordSize(types))]

CreateChecked ==
  request.call = "create" =>
    /\ stage \in {"check", "refused", "answered"}
    /\ stage = "refused" => ~Creatable
    /\ stage = "answered" => Creatable /\ answer = Layout(request.types)

(* The creation of a table answers with the layout, or refuses the schema. *)
LEMMA CreateIsChecked ==
  /\ Init => CreateChecked
  /\ Given /\ CreateChecked /\ [Next]_vars => CreateChecked'
<1>1. Init => CreateChecked
  BY DEF Init, CreateChecked
<1> SUFFICES ASSUME Given, CreateChecked, [Next]_vars, request.call = "create"
             PROVE  CreateChecked'
  BY <1>1, GivenStays DEF CreateChecked
<1>2. UNCHANGED <<request>> /\ (Creatable' <=> Creatable)
  BY GivenStays DEF Creatable
<1>3. /\ stage \in {"check", "refused", "answered"}
      /\ stage = "refused" => ~Creatable
      /\ stage = "answered" => Creatable /\ answer = Layout(request.types)
  BY DEF CreateChecked
<1>4. CASE CreateTable
  BY <1>2, <1>3, <1>4 DEF CreateTable, End, Layout, CreateChecked
<1>5. CASE RefuseSchema
  BY <1>2, <1>3, <1>5 DEF RefuseSchema, Refuse, End, CreateChecked
<1>6. CASE UNCHANGED vars
  BY <1>2, <1>3, <1>6 DEF vars, CreateChecked
<1>7. ~SelectStep
  BY <1>3 DEF SelectStep, RefuseSelect, CheckSelect, Lookup, Scan, RefuseFilter, ApplyOrderBy,
              ApplyLimit, Project, Ask, Stage
<1>8. ~(ResolveInsert \/ RefuseInsert \/ ResolveWrite \/ RefuseWrite)
  BY DEF ResolveInsert, RefuseInsert, ResolveWrite, RefuseWrite, Ask
<1>9. ~(Insert \/ RefuseRow \/ UpdateWhere \/ DeleteWhere \/ RefuseWhere)
  BY <1>3 DEF Insert, RefuseRow, UpdateWhere, DeleteWhere, RefuseWhere
<1>10. ~(ScanWithPredicate \/ RefusePredicate \/ ScanWithFilter \/ RefuseCompound)
  BY DEF ScanWithPredicate, RefusePredicate, ScanWithFilter, RefuseCompound, Ask
<1> QED BY <1>4, <1>5, <1>6, <1>7, <1>8, <1>9, <1>10 DEF Next, SelectStep

\* The columns at these places are, and share no byte.
Covered(types, offset) == UNION {offset[c] .. offset[c] + types[c].len - 1 : c \in DOMAIN types}
KeptApart(types, offset) ==
  \A c, d \in DOMAIN types : c # d =>
    (offset[c] .. offset[c] + types[c].len - 1)
      \cap (offset[d] .. offset[d] + types[d].len - 1) = {}

(* The columns divide a record between them. *)
LEMMA ColumnsDivideRecord ==
  ASSUME NEW types \in Seq(FieldTypes), NEW offset,
         offset = [c \in DOMAIN types |-> Offset(types, c)]
  PROVE  /\ RecordSize(types) \in Nat
         /\ Covered(types, offset) = 0 .. RecordSize(types) - 1
         /\ KeptApart(types, offset)
<1> DEFINE k == Len(types)
           end == Ends(types)
<1>1. /\ k \in Nat /\ DOMAIN types = 1 .. k /\ RecordSize(types) = end[k] /\ end[k] \in Nat
  BY EndsStepwise DEF RecordSize
<1>2. ASSUME NEW c \in 1 .. k
      PROVE  /\ offset[c] = end[c - 1] /\ end[c - 1] \in Nat /\ end[c] \in Nat
             /\ types[c].len \in Nat /\ end[c] = offset[c] + types[c].len
             /\ end[c] <= end[k]
  <2>1. end[c - 1] \in Nat /\ end[c] = end[c - 1] + types[c].len
    BY EndsStepwise
  <2>2. offset[c] = end[c - 1]
    BY <1>1 DEF Offset
  <2>3. types[c].len \in Nat
    BY <1>1, TypesOfFields
  <2>4. c \in 0 .. k /\ k \in c .. k
    BY <1>1
  <2>5. end[c] <= end[k]
    BY <2>4, EndsAscend
  <2> HIDE DEF end
  <2> QED BY <2>1, <2>2, <2>3, <2>5
<1>3. ASSUME NEW at \in 0 .. RecordSize(types) - 1
      PROVE  \E c \in 1 .. k : at \in offset[c] .. offset[c] + types[c].len - 1
  <2>1. PICK b \in 1 .. RecordSize(types) : b = at + 1
    <3> HIDE DEF end
    <3> QED BY <1>1
  <2>2. PICK c \in 1 .. k : end[c - 1] < b /\ b <= end[c]
    BY BytesHaveColumns
  <2>3. at \in offset[c] .. offset[c] + types[c].len - 1
    <3>1. PICK from \in Nat, to \in Nat, len \in Nat :
            /\ from = offset[c] /\ to = end[c] /\ len = types[c].len
            /\ to = from + len /\ end[c - 1] = from
      BY <1>2
    <3>2. from < b /\ b <= to /\ b \in Int /\ at \in Int
      BY <1>1, <2>1, <2>2, <3>1
    <3>3. at \in from .. from + len - 1
      BY <2>1, <3>1, <3>2
    <3> QED BY <3>1, <3>3
  <2> QED BY <2>3
<1>4. ASSUME NEW c \in 1 .. k, NEW at \in offset[c] .. offset[c] + types[c].len - 1
      PROVE  at \in 0 .. RecordSize(types) - 1
  <2>1. PICK from \in Nat, to \in Nat, len \in Nat :
          from = offset[c] /\ to = end[c] /\ len = types[c].len /\ to = from + len
    <3> HIDE DEF end
    <3>1. offset[c] \in Nat /\ end[c] = offset[c] + types[c].len
      BY <1>2
    <3> QED BY <1>2, <3>1
  <2>2. at \in from .. from + len - 1 /\ to <= end[k] /\ end[k] = RecordSize(types)
    BY <1>1, <1>2, <2>1
  <2> HIDE DEF end
  <2> QED BY <1>1, <2>1, <2>2
<1>5. ASSUME NEW c \in 1 .. k, NEW d \in 1 .. k, c < d,
             NEW at \in offset[c] .. offset[c] + types[c].len - 1,
             at \in offset[d] .. offset[d] + types[d].len - 1
      PROVE  FALSE
  <2>1. end[c] <= end[d - 1]
    BY <1>5, ColumnsApart
  <2>2. PICK from \in Nat, to \in Nat, len \in Nat :
          /\ from = offset[c] /\ to = end[c] /\ len = types[c].len /\ to = from + len
    <3> HIDE DEF end
    <3>1. /\ offset[c] \in Nat /\ end[c] \in Nat /\ types[c].len \in Nat
          /\ end[c] = offset[c] + types[c].len
      BY <1>2
    <3> QED BY <3>1
  <2>3. PICK next \in Nat, more \in Nat :
          next = offset[d] /\ more = types[d].len /\ end[d - 1] = next
    BY <1>2
  <2>4. at \in from .. from + len - 1 /\ at \in next .. next + more - 1 /\ to <= next
    BY <1>5, <2>1, <2>2, <2>3
  <2>5. \A x \in from .. from + len - 1 : x \in Int /\ x < to
    BY <2>2
  <2>6. \A x \in next .. next + more - 1 : next <= x
    OBVIOUS
  <2>7. at \in Int /\ at < to /\ next <= at
    BY <2>4, <2>5, <2>6
  <2> QED BY <2>4, <2>7
<1>6. UNION {offset[c] .. offset[c] + types[c].len - 1 : c \in DOMAIN types} =
        0 .. RecordSize(types) - 1
  BY <1>1, <1>3, <1>4, Zenon
<1>7. ASSUME NEW c \in 1 .. k, NEW d \in 1 .. k, c # d
      PROVE  (offset[c] .. offset[c] + types[c].len - 1)
               \cap (offset[d] .. offset[d] + types[d].len - 1) = {}
  <2>1. c < d \/ d < c
    BY <1>7
  <2> QED BY <1>5, <2>1
<1> HIDE DEF end
<1> QED BY <1>1, <1>6, <1>7 DEF Covered, KeptApart

(* Bits have different masks. *)
LEMMA MasksDiffer ==
  ASSUME NEW a \in 0 .. 7, NEW b \in 0 .. 7, Mask(a) = Mask(b)
  PROVE  a = b
BY MaskValues

(* The slots of a page do. *)
LEMMA SlotsDividePage ==
  ASSUME NEW slots \in Nat \ {0}, NEW size \in Nat \ {0},
         UsedBytes(slots, size) <= PAGE_DATA_SIZE,
         NEW s \in 0 .. slots - 1
  PROVE  LET record(n) == RecordStart(slots, size, n) .. RecordStart(slots, size, n) + size - 1
             behindHeader == RECORD_PAGE_HEADER_SIZE .. PAGE_DATA_SIZE - 1
         IN
         /\ record(s) \subseteq behindHeader /\ BitmapByte(s) \in behindHeader
         /\ \A t \in 0 .. slots - 1 :
              /\ BitmapByte(s) \notin record(t)
              /\ s # t => /\ record(s) \cap record(t) = {}
                          /\ BitmapByte(s) # BitmapByte(t) \/ BitMask(s) # BitMask(t)
<1> DEFINE start(n) == RecordStart(slots, size, n)
           data == DataStart(slots)
<1>1. ASSUME NEW n \in 0 .. slots - 1
      PROVE  /\ start(n) \in Nat /\ data <= start(n) /\ start(n) + size <= PAGE_DATA_SIZE
             /\ BitmapByte(n) \in 12 .. data - 1
             /\ \A t \in 0 .. slots - 1 : n < t => start(n) + size <= start(t)
  <2>1. n \in SlotIds(slots) /\ SlotIds(slots) = 0 .. slots - 1
    BY DEF SlotIds
  <2> QED BY <2>1, SlotsApart DEF RECORD_PAGE_HEADER_SIZE
<1>2. data \in Nat /\ 12 <= data /\ data <= PAGE_DATA_SIZE /\ PAGE_DATA_SIZE \in Nat
  BY LayoutBounds, PageSizeAssumption
<1> HIDE DEF start, data
<1>3. ASSUME NEW n \in 0 .. slots - 1
      PROVE  /\ \A at \in start(n) .. start(n) + size - 1 : data <= at /\ at \in 12 .. PAGE_DATA_SIZE - 1
             /\ BitmapByte(n) \in 12 .. PAGE_DATA_SIZE - 1 /\ BitmapByte(n) < data
  BY <1>1, <1>2
<1>4. ASSUME NEW n \in 0 .. slots - 1, NEW t \in 0 .. slots - 1, n < t,
             NEW at \in start(n) .. start(n) + size - 1, at \in start(t) .. start(t) + size - 1
      PROVE  FALSE
  <2>1. start(n) \in Nat /\ start(t) \in Nat /\ start(n) + size <= start(t)
    BY <1>1, <1>4
  <2> QED BY <1>4, <2>1
<1>5. ASSUME NEW t \in 0 .. slots - 1
      PROVE  /\ BitmapByte(s) \notin start(t) .. start(t) + size - 1
             /\ s # t => /\ (start(s) .. start(s) + size - 1) \cap (start(t) .. start(t) + size - 1) = {}
                         /\ BitmapByte(s) # BitmapByte(t) \/ BitMask(s) # BitMask(t)
  <2>1. BitmapByte(s) \notin start(t) .. start(t) + size - 1
    <3>1. BitmapByte(s) \in Int /\ BitmapByte(s) < data
      BY <1>3
    <3>2. \A at \in start(t) .. start(t) + size - 1 : data <= at
      BY <1>3
    <3> QED BY <1>2, <3>1, <3>2
  <2>2. ASSUME s # t
        PROVE  (start(s) .. start(s) + size - 1) \cap (start(t) .. start(t) + size - 1) = {}
    <3>1. s < t \/ t < s
      BY <2>2
    <3> QED BY <1>4, <3>1
  <2>3. ASSUME s # t, BitmapByte(s) = BitmapByte(t), BitMask(s) = BitMask(t)
        PROVE  FALSE
    <3>1. /\ s % 8 \in 0 .. 7 /\ t % 8 \in 0 .. 7
          /\ s = t <=> BitmapByte(s) = BitmapByte(t) /\ s % 8 = t % 8
      BY BitPlaces DEF SlotIds
    <3>2. Mask(s % 8) = Mask(t % 8)
      BY <2>3, MaskOfSlot
    <3>3. s % 8 = t % 8
      BY <3>1, <3>2, MasksDiffer
    <3> QED BY <2>3, <3>1, <3>3
  <2> QED BY <2>1, <2>2, <2>3
<1> QED BY <1>3, <1>5 DEF start, RECORD_PAGE_HEADER_SIZE

(* A slot more than the most that fit does not fit. *)
LEMMA NoSlotMore ==
  ASSUME NEW size \in Nat \ {0}, RecordFits(size), NEW more, more = SlotsPerPage(size) + 1
  PROVE  RECORD_PAGE_HEADER_SIZE + more * size
           + (IF more % 8 = 0 THEN more \div 8 ELSE more \div 8 + 1) > PAGE_DATA_SIZE
<1>1. /\ more \in Nat /\ SlotsPerPage(size) \in Nat /\ more > SlotsPerPage(size)
      /\ ~(UsedBytes(more, size) <= PAGE_DATA_SIZE)
  BY SlotsPerPageFits
<1>2. PICK product \in Nat : product = more * size
  BY <1>1
<1>3. (more + 7) \div 8 = IF more % 8 = 0 THEN more \div 8 ELSE more \div 8 + 1
  BY <1>1
<1>4. UsedBytes(more, size) = 12 + ((more + 7) \div 8) + product
  BY <1>2 DEF UsedBytes, DataStart, BitmapBytes, RECORD_PAGE_HEADER_SIZE
<1>5. PICK bitmap \in Nat : bitmap = (more + 7) \div 8
  BY <1>1
<1>6. 12 + product + bitmap > PAGE_DATA_SIZE
  BY <1>1, <1>2, <1>4, <1>5, PageSizeAssumption
<1> QED BY <1>2, <1>3, <1>5, <1>6 DEF RECORD_PAGE_HEADER_SIZE

(* A record that leaves room for the header and a byte of the bitmap fits. *)
LEMMA SmallRecordFits ==
  ASSUME NEW size \in Nat \ {0}, RECORD_PAGE_HEADER_SIZE + 1 + size <= PAGE_DATA_SIZE
  PROVE  RecordFits(size)
<1>1. 13 + size <= PAGE_DATA_SIZE /\ PAGE_DATA_SIZE \in Nat
  BY PageSizeAssumption DEF RECORD_PAGE_HEADER_SIZE
<1>2. UsedBytes(1, size) = 13 + size
  BY DEF UsedBytes, DataStart, BitmapBytes, RECORD_PAGE_HEADER_SIZE
<1>3. 1 <= PAGE_DATA_SIZE \div size
  <2> DEFINE K == PAGE_DATA_SIZE \div size
  <2>1. /\ K \in Nat /\ PAGE_DATA_SIZE = K * size + (PAGE_DATA_SIZE % size)
        /\ PAGE_DATA_SIZE % size < size /\ PAGE_DATA_SIZE % size \in Nat
    BY <1>1
  <2> HIDE DEF K
  <2>2. K # 0
    <3>1. 0 * size = 0
      OBVIOUS
    <3> QED BY <1>1, <2>1, <3>1
  <2>3. 1 <= K
    BY <2>1, <2>2
  <2> QED BY <2>3 DEF K
<1>4. 1 \in Fitting(size)
  BY <1>1, <1>2, <1>3 DEF Fitting
<1> QED BY <1>4 DEF RecordFits

(* A create is refused if its request leaves no room, or names a column     *)
(* twice, or has an empty one, and otherwise divides the page as it says.   *)
LEMMA CreatedLayout ==
  ASSUME NEW names, NEW types \in Seq(FieldTypes), names \in Seq(Range(names)),
         Len(names) = Len(types), SchemaCompiles(names, types), RecordFits(RecordSize(types))
  PROVE  /\ Cardinality(Range(names)) = Len(types)
         /\ RecordSize(types) \in Nat \ {0}
         /\ SlotsPerPage(RecordSize(types)) \in Nat \ {0}
         /\ UsedBytes(SlotsPerPage(RecordSize(types)), RecordSize(types)) <= PAGE_DATA_SIZE
<1>1. Cardinality(Range(names)) = Len(types)
  BY OnceIsInjective DEF SchemaCompiles
<1>2. PICK k \in Nat \ {0} : k = Len(types) /\ DOMAIN types = 1 .. k
  BY DEF SchemaCompiles
<1>3. PICK end : end = Ends(types)
  OBVIOUS
<1>4. /\ RecordSize(types) = end[k] /\ end[k] \in Nat /\ end[0] = 0
      /\ end[1 - 1] \in Nat /\ end[1] = end[1 - 1] + types[1].len
  BY <1>2, <1>3, EndsStepwise DEF RecordSize
<1>5. types[1].len \in Nat \ {0}
  BY <1>2, TypesOfFields DEF SchemaCompiles
<1>6. end[1] <= end[k]
  <2>1. 1 \in 0 .. Len(types) /\ k \in 1 .. Len(types)
    BY <1>2
  <2> QED BY <1>3, <2>1, EndsAscend
<1>7. RecordSize(types) \in Nat \ {0}
  BY <1>4, <1>5, <1>6
<1> QED BY <1>1, <1>7, SlotsPerPageFits

(* A schema in order is refused only if a record and its bit do not fit a   *)
(* page.                                                                    *)
LEMMA RefusedLayout ==
  ASSUME NEW names, NEW types \in Seq(FieldTypes), names \in Seq(Range(names)),
         Len(names) = Len(types),
         ~(SchemaCompiles(names, types) /\ RecordFits(RecordSize(types))),
         types # <<>>, \A c \in DOMAIN types : types[c].len # 0,
         ~(Cardinality(Range(names)) < Len(types))
  PROVE  RECORD_PAGE_HEADER_SIZE + 1 + RecordSize(types) > PAGE_DATA_SIZE
<1>1. IsInjective(names)
  <2>1. /\ Cardinality(Range(names)) <= Len(types) /\ Len(types) \in Nat
        /\ IsFiniteSet(Range(names))
        /\ IsInjective(names) <=> Cardinality(Range(names)) = Len(types)
    BY OnceIsInjective
  <2>2. Cardinality(Range(names)) \in Nat
    BY <2>1, FS_CardinalityType
  <2> QED BY <2>1, <2>2
<1>2. \A c \in DOMAIN types : types[c].len > 0
  BY TypesOfFields
<1>3. SchemaCompiles(names, types)
  BY <1>1, <1>2 DEF SchemaCompiles
<1>4. ~RecordFits(RecordSize(types)) /\ RecordSize(types) \in Nat \ {0}
  <2>1. PICK k \in Nat \ {0} : k = Len(types) /\ DOMAIN types = 1 .. k
    OBVIOUS
  <2>2. PICK end : end = Ends(types)
    OBVIOUS
  <2>3. /\ RecordSize(types) = end[k] /\ end[k] \in Nat /\ end[0] = 0
        /\ end[1 - 1] \in Nat /\ end[1] = end[1 - 1] + types[1].len
    BY <2>1, <2>2, EndsStepwise DEF RecordSize
  <2>4. types[1].len \in Nat \ {0}
    BY <2>1, TypesOfFields
  <2>5. end[1] <= end[k]
    <3>1. 1 \in 0 .. Len(types) /\ k \in 1 .. Len(types)
      BY <2>1
    <3> QED BY <2>2, <3>1, EndsAscend
  <2> QED BY <1>3, <2>3, <2>4, <2>5
<1> QED BY <1>4, SmallRecordFits, PageSizeAssumption DEF RECORD_PAGE_HEADER_SIZE

(* create_table accepts exactly the schemas of which a record fits a page,  *)
(* and lays out pages in which columns, slots and bitmap share no byte and  *)
(* which have room for no slot more (compile_schema,                        *)
(* compute_slots_per_page, record_range, bitmap_range).                     *)
THEOREM LayoutsFit == Spec => []LayoutFits
<1>1. Init => Given /\ CreateChecked
  BY GivenStays, CreateIsChecked
<1>2. Given /\ CreateChecked /\ [Next]_vars => (Given /\ CreateChecked)'
  BY GivenStays, CreateIsChecked
<1>3. Given /\ CreateChecked => LayoutFits
  <2> SUFFICES ASSUME Given, CreateChecked, request.call = "create" PROVE LayoutFits
    BY DEF LayoutFits
  <2> DEFINE types == request.types
             names == request.names
             sum == Cardinality(UNION {{c} \X (1 .. types[c].len) : c \in DOMAIN types})
  <2>2. types \in Seq(FieldTypes) /\ names \in Seq(Range(names)) /\ Len(names) = Len(types)
    BY DEF Given, IsRequest
  <2>3. /\ Refused => ~(SchemaCompiles(names, types) /\ RecordFits(RecordSize(types)))
        /\ Answered => /\ SchemaCompiles(names, types) /\ RecordFits(RecordSize(types))
                       /\ answer = Layout(types)
    BY DEF CreateChecked, Creatable, Refused, Answered
  <2>5. sum = RecordSize(types)
    BY <2>2, SizeIsSum
  <2> HIDE DEF sum, types, names
  <2>6. Refused => \/ types = <<>> \/ \E c \in DOMAIN types : types[c].len = 0
                   \/ Cardinality(Range(names)) < Len(types)
                   \/ RECORD_PAGE_HEADER_SIZE + 1 + sum > PAGE_DATA_SIZE
    BY <2>2, <2>3, <2>5, RefusedLayout
  <2>7. ASSUME Answered
        PROVE  /\ types # <<>> /\ Cardinality(Range(names)) = Len(types)
               /\ answer.size = sum /\ answer.slots \in Nat \ {0}
               /\ UsedBytes(answer.slots, sum) <= PAGE_DATA_SIZE
               /\ sum \in Nat \ {0} /\ RecordFits(sum) /\ answer.slots = SlotsPerPage(sum)
               /\ answer.offset = [c \in DOMAIN types |-> Offset(types, c)]
    BY <2>2, <2>3, <2>5, <2>7, CreatedLayout DEF Layout, SchemaCompiles
  <2>9. ASSUME Answered
        PROVE  Covered(types, answer.offset) = 0 .. sum - 1 /\ KeptApart(types, answer.offset)
    BY <2>2, <2>5, <2>7, <2>9, ColumnsDivideRecord
  <2> DEFINE slots == answer.slots
             size == answer.size
  <2>10. ASSUME Answered, NEW s \in 0 .. slots - 1
         PROVE  LET record(n) == RecordStart(slots, size, n) .. RecordStart(slots, size, n) + size - 1
                    behindHeader == RECORD_PAGE_HEADER_SIZE .. PAGE_DATA_SIZE - 1
                IN
                /\ record(s) \subseteq behindHeader /\ BitmapByte(s) \in behindHeader
                /\ \A t \in 0 .. slots - 1 :
                     /\ BitmapByte(s) \notin record(t)
                     /\ s # t => /\ record(s) \cap record(t) = {}
                                 /\ BitmapByte(s) # BitmapByte(t) \/ BitMask(s) # BitMask(t)
    BY <2>7, <2>10, SlotsDividePage
  <2>11. ASSUME Answered, NEW more, more = slots + 1
         PROVE  RECORD_PAGE_HEADER_SIZE + more * size
                  + (IF more % 8 = 0 THEN more \div 8 ELSE more \div 8 + 1) > PAGE_DATA_SIZE
    BY <2>7, <2>11, NoSlotMore
  <2>12. Answered => types # <<>> /\ Cardinality(Range(names)) = Len(types) /\ size = sum /\ slots > 0
    BY <2>7
  <2>13. Answered => Covered(types, answer.offset) = 0 .. size - 1 /\ KeptApart(types, answer.offset)
    BY <2>9, <2>12
  <2> QED BY <2>6, <2>10, <2>11, <2>12, <2>13, Zenon
       DEF LayoutFits, types, names, sum, Covered, KeptApart
<1> QED BY <1>1, <1>2, <1>3, PTL DEF Spec

-----------------------------------------------------------------------------
(* Records in a page.                                                      *)

\* The slots of used have these records, the others are free, and the header says
\* so: a page is marked full exactly if it is.
PageHolds(p, used, records) ==
  /\ p \in DataPages
  /\ HeaderCounts(p, Slots)
  /\ DecodeHeader(p).next_free_page = RECORD_PAGE_FULL <=> FreeSlots(p, Slots) = {}
  /\ FreeSlots(p, Slots) = SlotIds(Slots) \ used
  /\ \A s \in used : Record(p, Slots, RowSize, s) = records[s]

IsRecord(data) == data \in Seq(Bytes) /\ Len(data) = RowSize

(* The slots of a table have their place in a page. *)
LEMMA PageLayout ==
  /\ Slots \in Nat \ {0} /\ RowSize \in Nat \ {0} /\ UsedBytes(Slots, RowSize) <= PAGE_DATA_SIZE
  /\ SlotIds(Slots) = 0 .. Slots - 1
BY ColumnsInRow DEF SlotIds

(* The mark of a full page is not that of the end of the list. *)
LEMMA FullIsNoEnd == RECORD_PAGE_LIST_END # RECORD_PAGE_FULL /\ RECORD_PAGE_LIST_END \in I32
BY MaxI32Value, SMT DEF RECORD_PAGE_LIST_END, RECORD_PAGE_FULL, I32

(* A new page holds nothing. *)
LEMMA NewPageHoldsNothing ==
  ASSUME NEW records
  PROVE  PageHolds(InitializePage(Slots), {}, records)
<1> DEFINE new == InitializePage(Slots)
<1>1. /\ new \in DataPages /\ FreeSlots(new, Slots) = SlotIds(Slots) /\ HeaderCounts(new, Slots)
      /\ DecodeHeader(new).next_free_page = RECORD_PAGE_LIST_END
  BY PageLayout, NewPageIsEmpty
<1>2. SlotIds(Slots) # {}
  <2>1. 0 \in SlotIds(Slots)
    BY PageLayout
  <2> QED BY <2>1
<1> HIDE DEF new
<1> QED BY <1>1, <1>2, FullIsNoEnd DEF PageHolds, new

(* Insert, update and delete of records. *)
LEMMA PageTakesRecord ==
  ASSUME NEW p, NEW used \in SUBSET SlotIds(Slots), NEW records, PageHolds(p, used, records),
         used # SlotIds(Slots), NEW data, IsRecord(data),
         NEW after, after[FirstFreeSlot(p, Slots)] = data, \A s \in used : after[s] = records[s]
  PROVE  /\ FirstFreeSlot(p, Slots) \in SlotIds(Slots) \ used
         /\ \A s \in SlotIds(Slots) \ used : FirstFreeSlot(p, Slots) <= s
         /\ PageHolds(InsertRecord(p, Slots, RowSize, data), used \cup {FirstFreeSlot(p, Slots)}, after)
<1> DEFINE new == InsertRecord(p, Slots, RowSize, data)
           first == FirstFreeSlot(p, Slots)
<1>1. /\ p \in DataPages /\ HeaderCounts(p, Slots)
      /\ DecodeHeader(p).next_free_page = RECORD_PAGE_FULL <=> FreeSlots(p, Slots) = {}
      /\ FreeSlots(p, Slots) = SlotIds(Slots) \ used
      /\ \A s \in used : Record(p, Slots, RowSize, s) = records[s]
  BY DEF PageHolds
<1>2. FreeSlots(p, Slots) # {}
  BY <1>1
<1>3. /\ new \in DataPages
      /\ first \in FreeSlots(p, Slots)
      /\ FreeSlots(new, Slots) = FreeSlots(p, Slots) \ {first}
      /\ Record(new, Slots, RowSize, first) = data
      /\ \A t \in SlotIds(Slots) \ {first} :
           Record(new, Slots, RowSize, t) = Record(p, Slots, RowSize, t)
      /\ HeaderCounts(new, Slots)
      /\ DecodeHeader(new).next_free_page =
           IF FreeSlots(new, Slots) = {} THEN RECORD_PAGE_FULL ELSE DecodeHeader(p).next_free_page
  BY <1>1, <1>2, PageLayout, InsertFillsAFreeSlot DEF IsRecord
<1>4. \A s \in FreeSlots(p, Slots) : first <= s
  BY <1>2, PageLayout, FirstFree
<1> HIDE DEF new, first
<1>5. \A s \in used \cup {first} : Record(new, Slots, RowSize, s) = after[s]
  <2>1. after[first] = data
    BY DEF first
  <2>2. ASSUME NEW s \in used PROVE Record(new, Slots, RowSize, s) = after[s]
    <3>1. s \in SlotIds(Slots) \ {first}
      BY <1>1, <1>3
    <3> QED BY <1>1, <1>3, <3>1
  <2> QED BY <1>3, <2>1, <2>2
<1>6. FreeSlots(new, Slots) = SlotIds(Slots) \ (used \cup {first})
  BY <1>1, <1>3
<1>7. DecodeHeader(new).next_free_page = RECORD_PAGE_FULL <=> FreeSlots(new, Slots) = {}
  BY <1>1, <1>2, <1>3
<1>8. PageHolds(new, used \cup {first}, after)
  BY <1>3, <1>5, <1>6, <1>7 DEF PageHolds
<1> QED BY <1>1, <1>3, <1>4, <1>8 DEF new, first

(* An update of a slot in use changes its record and no other. *)
LEMMA PageChangesRecord ==
  ASSUME NEW p, NEW used \in SUBSET SlotIds(Slots), NEW records, PageHolds(p, used, records),
         NEW s \in used, NEW data, IsRecord(data),
         NEW after, after[s] = data, \A t \in used \ {s} : after[t] = records[t]
  PROVE  PageHolds(UpdateSlot(p, Slots, RowSize, s, data), used, after)
<1> DEFINE new == UpdateSlot(p, Slots, RowSize, s, data)
<1>1. /\ p \in DataPages /\ HeaderCounts(p, Slots)
      /\ DecodeHeader(p).next_free_page = RECORD_PAGE_FULL <=> FreeSlots(p, Slots) = {}
      /\ FreeSlots(p, Slots) = SlotIds(Slots) \ used
      /\ \A t \in used : Record(p, Slots, RowSize, t) = records[t]
  BY DEF PageHolds
<1>2. /\ new \in DataPages
      /\ Record(new, Slots, RowSize, s) = data
      /\ \A t \in SlotIds(Slots) \ {s} :
           Record(new, Slots, RowSize, t) = Record(p, Slots, RowSize, t)
      /\ FreeSlots(new, Slots) = FreeSlots(p, Slots)
      /\ DecodeHeader(new) = DecodeHeader(p)
  <2>1. s \in SlotIds(Slots) /\ data \in Seq(Bytes) /\ Len(data) = RowSize
    BY DEF IsRecord
  <2>2. PICK slots \in Nat \ {0}, size \in Nat \ {0} :
          slots = Slots /\ size = RowSize /\ UsedBytes(slots, size) <= PAGE_DATA_SIZE
    BY PageLayout
  <2>3. /\ UpdateSlot(p, slots, size, s, data) \in DataPages
        /\ Record(UpdateSlot(p, slots, size, s, data), slots, size, s) = data
        /\ \A t \in SlotIds(slots) \ {s} :
             Record(UpdateSlot(p, slots, size, s, data), slots, size, t) = Record(p, slots, size, t)
        /\ FreeSlots(UpdateSlot(p, slots, size, s, data), slots) = FreeSlots(p, slots)
        /\ DecodeHeader(UpdateSlot(p, slots, size, s, data)) = DecodeHeader(p)
    BY <1>1, <2>1, <2>2, UpdateChangesItsSlot
  <2> QED BY <2>2, <2>3
<1> HIDE DEF new
<1>3. HeaderCounts(new, Slots)
  BY <1>1, <1>2 DEF HeaderCounts
<1>4. \A t \in used : Record(new, Slots, RowSize, t) = after[t]
  BY <1>1, <1>2
<1> QED BY <1>1, <1>2, <1>3, <1>4 DEF PageHolds, new

(* A delete of a slot in use frees it and changes no other record. *)
LEMMA PageLosesRecord ==
  ASSUME NEW p, NEW used \in SUBSET SlotIds(Slots), NEW records, PageHolds(p, used, records),
         NEW s \in used
  PROVE  PageHolds(DeleteSlot(p, Slots, RowSize, s, RECORD_PAGE_LIST_END), used \ {s}, records)
<1> DEFINE new == DeleteSlot(p, Slots, RowSize, s, RECORD_PAGE_LIST_END)
<1>1. /\ p \in DataPages /\ HeaderCounts(p, Slots)
      /\ DecodeHeader(p).next_free_page = RECORD_PAGE_FULL <=> FreeSlots(p, Slots) = {}
      /\ FreeSlots(p, Slots) = SlotIds(Slots) \ used
      /\ \A t \in used : Record(p, Slots, RowSize, t) = records[t]
  BY DEF PageHolds
<1>2. s \in SlotIds(Slots) \ FreeSlots(p, Slots)
  BY <1>1
<1>3. RECORD_PAGE_LIST_END \in I32 /\ RECORD_PAGE_LIST_END >= RECORD_PAGE_LIST_END
  BY FullIsNoEnd DEF RECORD_PAGE_LIST_END
<1>4. /\ new \in DataPages
      /\ FreeSlots(new, Slots) = FreeSlots(p, Slots) \cup {s}
      /\ \A t \in SlotIds(Slots) \ {s} :
           Record(new, Slots, RowSize, t) = Record(p, Slots, RowSize, t)
      /\ HeaderCounts(new, Slots)
      /\ DecodeHeader(new).next_free_page =
           IF FreeSlots(p, Slots) = {} THEN RECORD_PAGE_LIST_END ELSE DecodeHeader(p).next_free_page
  BY <1>1, <1>2, <1>3, PageLayout, DeleteFreesItsSlot
<1> HIDE DEF new
<1>5. FreeSlots(new, Slots) = SlotIds(Slots) \ (used \ {s})
  BY <1>1, <1>2, <1>4
<1>6. DecodeHeader(new).next_free_page = RECORD_PAGE_FULL <=> FreeSlots(new, Slots) = {}
  BY <1>1, <1>4, FullIsNoEnd
<1>7. \A t \in used \ {s} : Record(new, Slots, RowSize, t) = records[t]
  BY <1>1, <1>4
<1> QED BY <1>4, <1>5, <1>6, <1>7 DEF PageHolds, new

\* The slots that have a row of the table, and its bytes.
UsedBy(t) == {s \in SlotIds(Slots) : s + 1 \in DOMAIN t /\ t[s + 1] # NoRow}
RecordsOf(t) == [s \in SlotIds(Slots) |-> EncodeRow(t[s + 1])]

Zeros == [at \in 1 .. RowSize |-> 0]
GivenTo(t, n) == IF t[n] = NoRow THEN Zeros ELSE EncodeRow(t[n])
FilledWith(t) == [s \in SlotIds(Slots) |-> GivenTo(t, s + 1)]

(* A table has rows that can be encoded, and no more than slots. *)
LEMMA TableHasRows ==
  ASSUME NEW t \in Tables
  PROVE  /\ Len(t) \in Nat /\ Len(t) <= Slots /\ DOMAIN t = 1 .. Len(t)
         /\ \A n \in 1 .. Len(t) : t[n] = NoRow \/ IsRow(t[n])
         /\ \A n \in 1 .. Len(t) : IsRecord(GivenTo(t, n))
<1>1. /\ Len(t) \in Nat /\ Len(t) <= Slots /\ DOMAIN t = 1 .. Len(t)
      /\ \A n \in 1 .. Len(t) : t[n] = NoRow \/ IsRow(t[n])
  <2>1. PICK S : t \in Seq(S)
    BY TableAssumption, Zenon
  <2>2. Len(t) \in Nat /\ DOMAIN t = 1 .. Len(t)
    BY <2>1
  <2>3. Len(t) <= Slots /\ \A n \in DOMAIN t : t[n] = NoRow \/ IsRow(t[n])
    BY TableAssumption, Zenon
  <2> QED BY <2>2, <2>3
<1>2. IsRecord(Zeros)
  BY PageLayout DEF IsRecord, Zeros, Bytes
<1> QED BY <1>1, <1>2, RowEncoded DEF GivenTo, IsRecord

\* h has the page after each of the inserts.
Inserts(h, t) ==
  h = [n \in 0 .. Len(t) |->
         IF n = 0 THEN InitializePage(Slots)
         ELSE InsertRecord(h[n - 1], Slots, RowSize, GivenTo(t, n))]

(* The page after the inserts, one row after the other. *)
LEMMA PageIsFilled ==
  ASSUME NEW t \in Tables, NEW filled, filled = CHOOSE h : Inserts(h, t)
  PROVE  PageHolds(filled[Len(t)], 0 .. Len(t) - 1, FilledWith(t))
<1> DEFINE k == Len(t)
           Step(n, p) == InsertRecord(p, Slots, RowSize, GivenTo(t, n))
           base == InitializePage(Slots)
           step == [x \in (1 .. k) \X DataPages |-> Step(x[1], x[2])]
           I == [n \in 0 .. k |-> {p \in DataPages : PageHolds(p, 0 .. n - 1, FilledWith(t))}]
<1>1. k \in Nat /\ k <= Slots /\ Slots \in Nat /\ SlotIds(Slots) = 0 .. Slots - 1
  BY TableHasRows, PageLayout
<1>2. base \in I[0]
  <2>1. PageHolds(base, {}, FilledWith(t))
    BY NewPageHoldsNothing
  <2>2. 0 .. 0 - 1 = {}
    OBVIOUS
  <2> HIDE DEF base
  <2>3. base \in DataPages
    BY <2>1 DEF PageHolds
  <2>4. 0 \in 0 .. k
    BY <1>1
  <2> QED BY <2>1, <2>2, <2>3, <2>4
<1>3. ASSUME NEW n \in 1 .. k, NEW p \in I[n - 1] PROVE Step(n, p) \in I[n]
  <2>1. PICK m \in Nat : n = m + 1 /\ n - 1 = m /\ m \in 0 .. k /\ m < Slots
    BY <1>1
  <2>2. PageHolds(p, 0 .. m - 1, FilledWith(t)) /\ p \in DataPages
    BY <2>1
  <2>3. /\ 0 .. m - 1 \in SUBSET SlotIds(Slots) /\ m \in SlotIds(Slots)
        /\ m \notin 0 .. m - 1 /\ 0 .. m - 1 # SlotIds(Slots)
    BY <1>1, <2>1
  <2>4. IsRecord(GivenTo(t, n)) /\ FilledWith(t)[m] = GivenTo(t, n)
    BY <2>1, <2>3, TableHasRows DEF FilledWith
  <2>5. FirstFreeSlot(p, Slots) = m
    <3> DEFINE first == FirstFreeSlot(p, Slots)
               after == [s \in SlotIds(Slots) |->
                           IF s = first THEN GivenTo(t, n) ELSE FilledWith(t)[s]]
    <3>1. first \in FreeSlots(p, Slots) /\ FreeSlots(p, Slots) = SlotIds(Slots) \ (0 .. m - 1)
      <4>1. FreeSlots(p, Slots) = SlotIds(Slots) \ (0 .. m - 1)
        BY <2>2 DEF PageHolds
      <4> QED BY <1>1, <2>3, <4>1, FirstFree
    <3>2. first <= m
      <4>1. m \in FreeSlots(p, Slots)
        BY <2>3, <3>1
      <4> QED BY <1>1, <4>1, FirstFree
    <3> HIDE DEF first
    <3>3. first \in 0 .. Slots - 1 /\ first \notin 0 .. m - 1
      BY <1>1, <3>1
    <3> QED BY <1>1, <2>1, <3>2, <3>3 DEF first
  <2>6. PageHolds(Step(n, p), (0 .. m - 1) \cup {m}, FilledWith(t))
    BY <2>2, <2>3, <2>4, <2>5, PageTakesRecord
  <2>7. (0 .. m - 1) \cup {m} = 0 .. n - 1
    BY <2>1
  <2> HIDE DEF Step
  <2>8. Step(n, p) \in DataPages
    BY <2>6 DEF PageHolds
  <2>9. n \in 0 .. k
    BY <1>1
  <2> QED BY <2>6, <2>7, <2>8, <2>9
<1>4. I \in [0 .. k -> SUBSET DataPages]
  OBVIOUS
<1> HIDE DEF base, Step, k
<1>5. \A n \in 1 .. k : \A p \in I[n - 1] : step[<<n, p>>] = Step(n, p)
  <2> SUFFICES ASSUME NEW n \in 1 .. k, NEW p \in I[n - 1] PROVE step[<<n, p>>] = Step(n, p)
    OBVIOUS
  <2>1. n - 1 \in 0 .. k
    BY <1>1
  <2>2. p \in DataPages
    BY <2>1
  <2> QED BY <2>2
<1> HIDE DEF I, step
<1>6. \A n \in 1 .. k : \A p \in I[n - 1] : step[<<n, p>>] \in I[n]
  BY <1>3, <1>5
<1>7. PICK g : GoesOn(g, k, base, step) /\ \A n \in 0 .. k : g[n] \in I[n]
  BY <1>1, <1>2, <1>4, <1>6, StepsWithin, Zenon
<1>8. Inserts(g, t)
  <2>1. \A n \in 0 .. k : g[n] = IF n = 0 THEN base ELSE step[<<n, g[n - 1]>>]
    BY <1>7, Zenon DEF GoesOn
  <2>2. \A n \in 0 .. k : n # 0 => n \in 1 .. k /\ n - 1 \in 0 .. k
    BY <1>1
  <2>3. \A n \in 0 .. k : g[n] = IF n = 0 THEN base ELSE Step(n, g[n - 1])
    BY <1>5, <1>7, <2>1, <2>2
  <2>4. g = [n \in 0 .. k |-> g[n]]
    BY <1>7 DEF GoesOn
  <2> QED BY <2>3, <2>4 DEF Inserts, k, base, Step
<1>10. Inserts(filled, t)
  BY <1>8
<1>11. \A n \in 0 .. k : filled[n] = IF n = 0 THEN base ELSE Step(n, filled[n - 1])
  BY <1>10, Zenon DEF Inserts, k, base, Step
<1>12. filled[0] \in I[0]
  <2>1. 0 \in 0 .. k
    BY <1>1
  <2> QED BY <1>2, <1>11, <2>1
<1>13. \A n \in 1 .. k : filled[n - 1] \in I[n - 1] => filled[n] \in I[n]
  <2>1. \A n \in 1 .. k : n \in 0 .. k /\ n # 0
    BY <1>1
  <2> QED BY <1>3, <1>11, <2>1
<1>14. \A n \in 0 .. k : filled[n] \in I[n]
  BY <1>1, <1>12, <1>13, StaysWithin
<1>15. k \in 0 .. k
  BY <1>1
<1> QED BY <1>14, <1>15 DEF I, k

\* h has the page after each of the deletes that follow.
Deletes(h, t, full) ==
  h = [n \in 0 .. Len(t) |->
         IF n = 0 THEN full
         ELSE IF t[n] = NoRow THEN DeleteSlot(h[n - 1], Slots, RowSize, n - 1, RECORD_PAGE_LIST_END)
         ELSE h[n - 1]]

UsedAfter(t, n) == {s \in 0 .. Len(t) - 1 : n <= s \/ t[s + 1] # NoRow}

(* The page after the deletes, of the slots that have no row. *)
LEMMA PageIsFreed ==
  ASSUME NEW t \in Tables, NEW full, PageHolds(full, 0 .. Len(t) - 1, FilledWith(t)),
         NEW freed, freed = CHOOSE h : Deletes(h, t, full)
  PROVE  PageHolds(freed[Len(t)], UsedAfter(t, Len(t)), FilledWith(t))
<1> DEFINE k == Len(t)
           Step(n, p) == IF t[n] = NoRow THEN DeleteSlot(p, Slots, RowSize, n - 1, RECORD_PAGE_LIST_END)
                         ELSE p
           step == [x \in (1 .. k) \X DataPages |-> Step(x[1], x[2])]
           I == [n \in 0 .. k |-> {p \in DataPages : PageHolds(p, UsedAfter(t, n), FilledWith(t))}]
<1>1. k \in Nat /\ k <= Slots /\ Slots \in Nat /\ SlotIds(Slots) = 0 .. Slots - 1
  BY TableHasRows, PageLayout
<1>2. full \in I[0]
  <2>1. UsedAfter(t, 0) = 0 .. k - 1
    BY <1>1 DEF UsedAfter
  <2>2. full \in DataPages
    BY DEF PageHolds
  <2>3. 0 \in 0 .. k
    BY <1>1
  <2> QED BY <2>1, <2>2, <2>3
<1>3. ASSUME NEW n \in 1 .. k, NEW p \in I[n - 1] PROVE Step(n, p) \in I[n]
  <2>1. PICK m \in Nat : n = m + 1 /\ n - 1 = m /\ m \in 0 .. k /\ m \in 0 .. k - 1
    BY <1>1
  <2>2. PageHolds(p, UsedAfter(t, m), FilledWith(t)) /\ p \in DataPages
    BY <2>1
  <2>3. UsedAfter(t, m) \in SUBSET SlotIds(Slots)
    BY <1>1 DEF UsedAfter
  <2>4. /\ m \in UsedAfter(t, m)
        /\ UsedAfter(t, n) = IF t[n] = NoRow THEN UsedAfter(t, m) \ {m} ELSE UsedAfter(t, m)
    BY <1>1, <2>1 DEF UsedAfter
  <2>5. PageHolds(Step(n, p), UsedAfter(t, n), FilledWith(t))
    <3>1. CASE t[n] = NoRow
      <4>1. PageHolds(DeleteSlot(p, Slots, RowSize, m, RECORD_PAGE_LIST_END),
                      UsedAfter(t, m) \ {m}, FilledWith(t))
        BY <2>2, <2>3, <2>4, PageLosesRecord
      <4> QED BY <2>1, <2>4, <3>1, <4>1
    <3>2. CASE t[n] # NoRow
      BY <2>2, <2>4, <3>2
    <3> QED BY <3>1, <3>2
  <2> HIDE DEF Step
  <2>6. Step(n, p) \in DataPages
    BY <2>5 DEF PageHolds
  <2>7. n \in 0 .. k
    BY <1>1
  <2> QED BY <2>5, <2>6, <2>7
<1>4. I \in [0 .. k -> SUBSET DataPages]
  OBVIOUS
<1> HIDE DEF Step, k
<1>5. \A n \in 1 .. k : \A p \in I[n - 1] : step[<<n, p>>] = Step(n, p)
  <2> SUFFICES ASSUME NEW n \in 1 .. k, NEW p \in I[n - 1] PROVE step[<<n, p>>] = Step(n, p)
    OBVIOUS
  <2>1. n - 1 \in 0 .. k
    BY <1>1
  <2>2. p \in DataPages
    BY <2>1
  <2> QED BY <2>2
<1> HIDE DEF I, step
<1>6. \A n \in 1 .. k : \A p \in I[n - 1] : step[<<n, p>>] \in I[n]
  BY <1>3, <1>5
<1>7. PICK g : GoesOn(g, k, full, step) /\ \A n \in 0 .. k : g[n] \in I[n]
  BY <1>1, <1>2, <1>4, <1>6, StepsWithin, Zenon
<1>8. Deletes(g, t, full)
  <2>1. \A n \in 0 .. k : g[n] = IF n = 0 THEN full ELSE step[<<n, g[n - 1]>>]
    BY <1>7, Zenon DEF GoesOn
  <2>2. \A n \in 0 .. k : n # 0 => n \in 1 .. k /\ n - 1 \in 0 .. k
    BY <1>1
  <2>3. \A n \in 0 .. k : g[n] = IF n = 0 THEN full ELSE Step(n, g[n - 1])
    BY <1>5, <1>7, <2>1, <2>2
  <2>4. g = [n \in 0 .. k |-> g[n]]
    BY <1>7 DEF GoesOn
  <2> QED BY <2>3, <2>4 DEF Deletes, k, Step
<1>9. Deletes(freed, t, full)
  BY <1>8
<1>10. \A n \in 0 .. k : freed[n] = IF n = 0 THEN full ELSE Step(n, freed[n - 1])
  BY <1>9, Zenon DEF Deletes, k, Step
<1>11. freed[0] \in I[0]
  <2>1. 0 \in 0 .. k
    BY <1>1
  <2> QED BY <1>2, <1>10, <2>1
<1>12. \A n \in 1 .. k : freed[n - 1] \in I[n - 1] => freed[n] \in I[n]
  <2>1. \A n \in 1 .. k : n \in 0 .. k /\ n # 0
    BY <1>1
  <2> QED BY <1>3, <1>10, <2>1
<1>13. \A n \in 0 .. k : freed[n] \in I[n]
  BY <1>1, <1>11, <1>12, StaysWithin
<1>14. k \in 0 .. k
  BY <1>1
<1> QED BY <1>13, <1>14 DEF I, k

(* Other names for the same records. *)
LEMMA SamePage ==
  ASSUME NEW p, NEW used, NEW records, PageHolds(p, used, records),
         NEW others, \A s \in used : others[s] = records[s]
  PROVE  PageHolds(p, used, others)
BY DEF PageHolds

(* The page of a table has its rows. *)
LEMMA PageOfHolds ==
  ASSUME NEW t \in Tables
  PROVE  /\ PageHolds(PageOf(t), UsedBy(t), RecordsOf(t))
         /\ \A s \in UsedBy(t) : s \in SlotIds(Slots) /\ IsRow(t[s + 1])
<1> DEFINE filled == CHOOSE h : Inserts(h, t)
           freed == CHOOSE h : Deletes(h, t, filled[Len(t)])
<1>1. PageOf(t) = freed[Len(t)]
  BY Zenon DEF PageOf, Inserts, Deletes, GivenTo, Zeros
<1>2. PageHolds(filled[Len(t)], 0 .. Len(t) - 1, FilledWith(t))
  BY PageIsFilled
<1> HIDE DEF filled
<1>3. PageHolds(freed[Len(t)], UsedAfter(t, Len(t)), FilledWith(t))
  BY <1>2, PageIsFreed
<1> HIDE DEF freed
<1>4. /\ Len(t) \in Nat /\ Len(t) <= Slots /\ DOMAIN t = 1 .. Len(t) /\ Slots \in Nat
      /\ \A n \in 1 .. Len(t) : t[n] = NoRow \/ IsRow(t[n])
      /\ SlotIds(Slots) = 0 .. Slots - 1
  BY TableHasRows, PageLayout
<1>5. UsedAfter(t, Len(t)) = UsedBy(t)
  BY <1>4 DEF UsedAfter, UsedBy
<1>6. \A s \in UsedBy(t) : s \in SlotIds(Slots) /\ t[s + 1] # NoRow /\ IsRow(t[s + 1])
  BY <1>4 DEF UsedBy
<1>7. \A s \in UsedBy(t) : RecordsOf(t)[s] = FilledWith(t)[s]
  BY <1>6 DEF RecordsOf, FilledWith, GivenTo
<1> QED BY <1>1, <1>3, <1>5, <1>6, <1>7, SamePage

(* The slots in ascending order. *)
LEMMA AscendingLists ==
  ASSUME NEW slots \in SUBSET SlotIds(Slots)
  PROVE  /\ IsFiniteSet(slots) /\ Cardinality(slots) \in Nat
         /\ Ascending(slots) \in [1 .. Cardinality(slots) -> slots]
         /\ \A s \in slots : \E n \in 1 .. Cardinality(slots) : Ascending(slots)[n] = s
         /\ \A m, n \in 1 .. Cardinality(slots) : m < n <=> Ascending(slots)[m] < Ascending(slots)[n]
<1> DEFINE before == {p \in slots \X slots : p[1] < p[2]}
<1>1. IsFiniteSet(SlotIds(Slots)) /\ \A s \in slots : s \in Int
  BY PageLayout, FS_Interval
<1>2. IsFiniteSet(slots)
  BY <1>1, FS_Subset
<1>3. \A x \in slots : \A y \in slots : <<x, y>> \in before <=> x < y
  OBVIOUS
<1> HIDE DEF before
<1>4. Orders(before, slots)
  BY <1>1, <1>3 DEF Orders
<1>5. Ascending(slots) = InOrder(slots, before)
  BY DEF Ascending, before
<1> DEFINE list == InOrder(slots, before)
<1>6. /\ Cardinality(slots) \in Nat
      /\ list \in [1 .. Cardinality(slots) -> slots]
      /\ \A x \in slots : \E n \in 1 .. Cardinality(slots) : list[n] = x
      /\ \A m, n \in 1 .. Cardinality(slots) : m < n <=> <<list[m], list[n]>> \in before
  BY <1>2, <1>4, InOrderLists
<1> HIDE DEF list
<1>7. \A m, n \in 1 .. Cardinality(slots) : <<list[m], list[n]>> \in before <=> list[m] < list[n]
  BY <1>3, <1>6
<1> QED BY <1>2, <1>5, <1>6, <1>7 DEF list

\* The first n of them.
FirstOf(slots, n) == {Ascending(slots)[m] : m \in 1 .. n}

(* One slot after the other, and each once. *)
LEMMA FirstOfStepwise ==
  ASSUME NEW slots \in SUBSET SlotIds(Slots)
  PROVE  /\ Cardinality(slots) \in Nat
         /\ FirstOf(slots, 0) = {} /\ FirstOf(slots, Cardinality(slots)) = slots
         /\ \A n \in 1 .. Cardinality(slots) :
              /\ Ascending(slots)[n] \in slots \ FirstOf(slots, n - 1)
              /\ FirstOf(slots, n) = FirstOf(slots, n - 1) \cup {Ascending(slots)[n]}
              /\ FirstOf(slots, n - 1) \subseteq slots
<1> DEFINE k == Cardinality(slots)
           list == Ascending(slots)
<1>1. /\ k \in Nat /\ list \in [1 .. k -> slots] /\ \A s \in slots : s \in Int
      /\ \A s \in slots : \E n \in 1 .. k : list[n] = s
      /\ \A m, n \in 1 .. k : m < n <=> list[m] < list[n]
  BY AscendingLists, PageLayout
<1> HIDE DEF k, list
<1>2. \A m \in Nat : FirstOf(slots, m) = {list[n] : n \in 1 .. m}
  BY DEF FirstOf, list
<1>3. FirstOf(slots, 0) = {}
  BY <1>2
<1>4. FirstOf(slots, k) = slots
  BY <1>1, <1>2
<1>5. ASSUME NEW n \in 1 .. k
      PROVE  /\ list[n] \in slots \ FirstOf(slots, n - 1)
             /\ FirstOf(slots, n) = FirstOf(slots, n - 1) \cup {list[n]}
             /\ FirstOf(slots, n - 1) \subseteq slots
  <2>1. n - 1 \in Nat /\ n \in Nat /\ list[n] \in slots /\ 1 .. n = (1 .. n - 1) \cup {n}
    BY <1>1
  <2>2. \A m \in 1 .. n - 1 : m \in 1 .. k /\ m < n
    BY <1>1
  <2>3. \A m \in 1 .. n - 1 : list[m] # list[n] /\ list[m] \in slots
    BY <1>1, <2>2
  <2>4. FirstOf(slots, n) = FirstOf(slots, n - 1) \cup {list[n]}
    BY <1>2, <2>1
  <2> QED BY <1>2, <2>1, <2>3, <2>4
<1> QED BY <1>1, <1>3, <1>4, <1>5 DEF k, list

\* h has the page after each of the updates.
Updates(h, slots) ==
  h = [n \in 0 .. Cardinality(slots) |->
         IF n = 0 THEN page
         ELSE UpdateSlot(h[n - 1], Slots, RowSize, Ascending(slots)[n],
                         Rewritten(Record(h[n - 1], Slots, RowSize, Ascending(slots)[n])))]

UpdatedTo(records, slots) ==
  [s \in SlotIds(Slots) |-> IF s \in slots THEN Rewritten(records[s]) ELSE records[s]]

(* An update changes the records of its slots. *)
LEMMA PageIsUpdated ==
  ASSUME NEW used \in SUBSET SlotIds(Slots), NEW records, PageHolds(page, used, records),
         NEW slots \in SUBSET used, \A s \in slots : IsRecord(Rewritten(records[s]))
  PROVE  PageHolds(UpdateSlots(slots), used, UpdatedTo(records, slots))
<1> DEFINE k == Cardinality(slots)
           list == Ascending(slots)
           Step(n, p) == UpdateSlot(p, Slots, RowSize, list[n],
                                    Rewritten(Record(p, Slots, RowSize, list[n])))
           step == [x \in (1 .. k) \X DataPages |-> Step(x[1], x[2])]
           I == [n \in 0 .. k |->
                   {p \in DataPages : PageHolds(p, used, UpdatedTo(records, FirstOf(slots, n)))}]
           after == CHOOSE h : Updates(h, slots)
<1>1. UpdateSlots(slots) = after[k]
  BY Zenon DEF UpdateSlots, Updates
<1>2. /\ k \in Nat /\ FirstOf(slots, 0) = {} /\ FirstOf(slots, k) = slots
      /\ \A n \in 1 .. k : /\ list[n] \in slots \ FirstOf(slots, n - 1)
                           /\ FirstOf(slots, n) = FirstOf(slots, n - 1) \cup {list[n]}
  BY FirstOfStepwise
<1> HIDE DEF after, list, k
<1>3. page \in I[0]
  <2>1. \A s \in used : UpdatedTo(records, {})[s] = records[s]
    BY DEF UpdatedTo
  <2>2. PageHolds(page, used, UpdatedTo(records, {})) /\ page \in DataPages
    BY <2>1, SamePage DEF PageHolds
  <2>3. 0 \in 0 .. k
    BY <1>2
  <2> QED BY <1>2, <2>2, <2>3
<1>4. ASSUME NEW n \in 1 .. k, NEW p \in I[n - 1] PROVE Step(n, p) \in I[n]
  <2>1. n - 1 \in 0 .. k /\ n \in 0 .. k
    BY <1>2
  <2> DEFINE now == UpdatedTo(records, FirstOf(slots, n - 1))
             then == UpdatedTo(records, FirstOf(slots, n))
             s == list[n]
  <2>2. PageHolds(p, used, now) /\ p \in DataPages
    BY <2>1
  <2>3. /\ s \in used /\ s \in slots /\ s \notin FirstOf(slots, n - 1) /\ s \in SlotIds(Slots)
        /\ FirstOf(slots, n) = FirstOf(slots, n - 1) \cup {s}
    BY <1>2
  <2> HIDE DEF s
  <2>4. now[s] = records[s] /\ then[s] = Rewritten(records[s])
    BY <2>3 DEF UpdatedTo
  <2>5. \A t \in used \ {s} : then[t] = now[t]
    BY <2>3 DEF UpdatedTo
  <2> HIDE DEF now, then
  <2>6. Record(p, Slots, RowSize, s) = records[s]
    BY <2>2, <2>3, <2>4 DEF PageHolds
  <2>7. IsRecord(Rewritten(records[s]))
    BY <2>3
  <2>8. PageHolds(UpdateSlot(p, Slots, RowSize, s, Rewritten(records[s])), used, then)
    BY <2>2, <2>3, <2>4, <2>5, <2>7, PageChangesRecord
  <2>9. PageHolds(Step(n, p), used, then)
    BY <2>6, <2>8 DEF s
  <2> HIDE DEF Step
  <2>10. Step(n, p) \in DataPages
    BY <2>9 DEF PageHolds
  <2> QED BY <2>1, <2>9, <2>10 DEF then
<1>5. I \in [0 .. k -> SUBSET DataPages]
  OBVIOUS
<1> HIDE DEF Step
<1>6. \A n \in 1 .. k : \A p \in I[n - 1] : step[<<n, p>>] = Step(n, p)
  <2> SUFFICES ASSUME NEW n \in 1 .. k, NEW p \in I[n - 1] PROVE step[<<n, p>>] = Step(n, p)
    OBVIOUS
  <2>1. n - 1 \in 0 .. k
    BY <1>2
  <2>2. p \in DataPages
    BY <2>1
  <2> QED BY <2>2
<1> HIDE DEF I, step
<1>7. \A n \in 1 .. k : \A p \in I[n - 1] : step[<<n, p>>] \in I[n]
  BY <1>4, <1>6
<1>8. PICK g : GoesOn(g, k, page, step) /\ \A n \in 0 .. k : g[n] \in I[n]
  BY <1>2, <1>3, <1>5, <1>7, StepsWithin, Zenon
<1>9. Updates(g, slots)
  <2>1. \A n \in 0 .. k : g[n] = IF n = 0 THEN page ELSE step[<<n, g[n - 1]>>]
    BY <1>8, Zenon DEF GoesOn
  <2>2. \A n \in 0 .. k : n # 0 => n \in 1 .. k /\ n - 1 \in 0 .. k
    BY <1>2
  <2>3. \A n \in 0 .. k : g[n] = IF n = 0 THEN page ELSE Step(n, g[n - 1])
    BY <1>6, <1>8, <2>1, <2>2
  <2>4. g = [n \in 0 .. k |-> g[n]]
    BY <1>8 DEF GoesOn
  <2> QED BY <2>3, <2>4 DEF Updates, k, Step, list
<1>10. Updates(after, slots)
  BY <1>9 DEF after
<1>11. \A n \in 0 .. k : after[n] = IF n = 0 THEN page ELSE Step(n, after[n - 1])
  BY <1>10, Zenon DEF Updates, k, Step, list
<1>12. after[0] \in I[0]
  <2>1. 0 \in 0 .. k
    BY <1>2
  <2> QED BY <1>3, <1>11, <2>1
<1>13. \A n \in 1 .. k : after[n - 1] \in I[n - 1] => after[n] \in I[n]
  <2>1. \A n \in 1 .. k : n \in 0 .. k /\ n # 0
    BY <1>2
  <2> QED BY <1>4, <1>11, <2>1
<1>14. \A n \in 0 .. k : after[n] \in I[n]
  BY <1>2, <1>12, <1>13, StaysWithin
<1>15. k \in 0 .. k
  BY <1>2
<1> QED BY <1>1, <1>2, <1>14, <1>15 DEF I

\* h has the page after each of the deletes.
Removals(h, slots) ==
  h = [n \in 0 .. Cardinality(slots) |->
         IF n = 0 THEN page
         ELSE DeleteSlot(h[n - 1], Slots, RowSize, Ascending(slots)[n], RECORD_PAGE_LIST_END)]

(* A delete frees its slots. *)
LEMMA PageIsDeleted ==
  ASSUME NEW used \in SUBSET SlotIds(Slots), NEW records, PageHolds(page, used, records),
         NEW slots \in SUBSET used
  PROVE  PageHolds(DeleteSlots(slots), used \ slots, records)
<1> DEFINE k == Cardinality(slots)
           list == Ascending(slots)
           Step(n, p) == DeleteSlot(p, Slots, RowSize, list[n], RECORD_PAGE_LIST_END)
           step == [x \in (1 .. k) \X DataPages |-> Step(x[1], x[2])]
           I == [n \in 0 .. k |-> {p \in DataPages : PageHolds(p, used \ FirstOf(slots, n), records)}]
           after == CHOOSE h : Removals(h, slots)
<1>1. DeleteSlots(slots) = after[k]
  BY Zenon DEF DeleteSlots, Removals
<1>2. /\ k \in Nat /\ FirstOf(slots, 0) = {} /\ FirstOf(slots, k) = slots
      /\ \A n \in 1 .. k : /\ list[n] \in slots \ FirstOf(slots, n - 1)
                           /\ FirstOf(slots, n) = FirstOf(slots, n - 1) \cup {list[n]}
  BY FirstOfStepwise
<1> HIDE DEF after, list, k
<1>3. page \in I[0]
  <2>1. used \ {} = used /\ page \in DataPages
    BY DEF PageHolds
  <2>2. 0 \in 0 .. k
    BY <1>2
  <2> QED BY <1>2, <2>1, <2>2
<1>4. ASSUME NEW n \in 1 .. k, NEW p \in I[n - 1] PROVE Step(n, p) \in I[n]
  <2>1. n - 1 \in 0 .. k /\ n \in 0 .. k
    BY <1>2
  <2> DEFINE now == used \ FirstOf(slots, n - 1)
             then == used \ FirstOf(slots, n)
             s == list[n]
  <2>2. PageHolds(p, now, records) /\ p \in DataPages
    BY <2>1
  <2>3. /\ s \in slots \ FirstOf(slots, n - 1)
        /\ FirstOf(slots, n) = FirstOf(slots, n - 1) \cup {s}
    BY <1>2
  <2> HIDE DEF s
  <2>4. now \in SUBSET SlotIds(Slots) /\ s \in now /\ then = now \ {s}
    BY <2>3
  <2> HIDE DEF now, then
  <2>5. PageHolds(DeleteSlot(p, Slots, RowSize, s, RECORD_PAGE_LIST_END), now \ {s}, records)
    BY <2>2, <2>4, PageLosesRecord
  <2>6. PageHolds(Step(n, p), then, records)
    BY <2>4, <2>5 DEF s
  <2> HIDE DEF Step
  <2>7. Step(n, p) \in DataPages
    BY <2>6 DEF PageHolds
  <2> QED BY <2>1, <2>6, <2>7 DEF then
<1>5. I \in [0 .. k -> SUBSET DataPages]
  OBVIOUS
<1> HIDE DEF Step
<1>6. \A n \in 1 .. k : \A p \in I[n - 1] : step[<<n, p>>] = Step(n, p)
  <2> SUFFICES ASSUME NEW n \in 1 .. k, NEW p \in I[n - 1] PROVE step[<<n, p>>] = Step(n, p)
    OBVIOUS
  <2>1. n - 1 \in 0 .. k
    BY <1>2
  <2>2. p \in DataPages
    BY <2>1
  <2> QED BY <2>2
<1> HIDE DEF I, step
<1>7. \A n \in 1 .. k : \A p \in I[n - 1] : step[<<n, p>>] \in I[n]
  BY <1>4, <1>6
<1>8. PICK g : GoesOn(g, k, page, step) /\ \A n \in 0 .. k : g[n] \in I[n]
  BY <1>2, <1>3, <1>5, <1>7, StepsWithin, Zenon
<1>9. Removals(g, slots)
  <2>1. \A n \in 0 .. k : g[n] = IF n = 0 THEN page ELSE step[<<n, g[n - 1]>>]
    BY <1>8, Zenon DEF GoesOn
  <2>2. \A n \in 0 .. k : n # 0 => n \in 1 .. k /\ n - 1 \in 0 .. k
    BY <1>2
  <2>3. \A n \in 0 .. k : g[n] = IF n = 0 THEN page ELSE Step(n, g[n - 1])
    BY <1>6, <1>8, <2>1, <2>2
  <2>4. g = [n \in 0 .. k |-> g[n]]
    BY <1>8 DEF GoesOn
  <2> QED BY <2>3, <2>4 DEF Removals, k, Step, list
<1>10. Removals(after, slots)
  BY <1>9 DEF after
<1>11. \A n \in 0 .. k : after[n] = IF n = 0 THEN page ELSE Step(n, after[n - 1])
  BY <1>10, Zenon DEF Removals, k, Step, list
<1>12. after[0] \in I[0]
  <2>1. 0 \in 0 .. k
    BY <1>2
  <2> QED BY <1>3, <1>11, <2>1
<1>13. \A n \in 1 .. k : after[n - 1] \in I[n - 1] => after[n] \in I[n]
  <2>1. \A n \in 1 .. k : n \in 0 .. k /\ n # 0
    BY <1>2
  <2> QED BY <1>4, <1>11, <2>1
<1>14. \A n \in 0 .. k : after[n] \in I[n]
  BY <1>2, <1>12, <1>13, StaysWithin
<1>15. k \in 0 .. k
  BY <1>2
<1> QED BY <1>1, <1>2, <1>14, <1>15 DEF I

-----------------------------------------------------------------------------
(* What the requests find in the page.                                     *)

\* Stages in the middle of a call are those of its own.
StagesFit ==
  /\ stage \in {"lookup", "scan", "order", "limit", "project"} => request.call = "select"
  /\ stage \in {"insert", "update", "delete"} => request.call = stage

(* Only the last step of an insert, an update or a delete writes.  An       *)
(* answered or refused request takes no step.                               *)
LEMMA StepsMove ==
  ASSUME Next
  PROVE  /\ stage \notin {"answered", "refused"}
         /\ UNCHANGED page \/ Insert \/ UpdateWhere \/ DeleteWhere
<1>1. stage \notin {"answered", "refused"}
  BY DEF Next, RefuseSelect, CheckSelect, Lookup, Scan, RefuseFilter, ApplyOrderBy, ApplyLimit,
         Project, ResolveInsert, RefuseInsert, Insert, RefuseRow, ResolveWrite, RefuseWrite,
         UpdateWhere, DeleteWhere, RefuseWhere, ScanWithPredicate, RefusePredicate,
         ScanWithFilter, RefuseCompound, CreateTable, RefuseSchema, Stage, Ask
<1>2. SelectStep => UNCHANGED page
  BY DEF SelectStep, RefuseSelect, CheckSelect, Lookup, Scan, RefuseFilter, ApplyOrderBy,
         ApplyLimit, Project, Stage, Refuse
<1>3. ResolveInsert \/ RefuseInsert \/ RefuseRow \/ ResolveWrite \/ RefuseWrite \/ RefuseWhere
        => UNCHANGED page
  BY DEF ResolveInsert, RefuseInsert, RefuseRow, ResolveWrite, RefuseWrite, RefuseWhere, Stage,
         Refuse
<1>4. ScanWithPredicate \/ RefusePredicate \/ ScanWithFilter \/ RefuseCompound \/ CreateTable
        \/ RefuseSchema => UNCHANGED page
  BY DEF ScanWithPredicate, RefusePredicate, ScanWithFilter, RefuseCompound, CreateTable,
         RefuseSchema, Refuse
<1> QED BY <1>1, <1>2, <1>3, <1>4 DEF Next, SelectStep

(* A request is at a stage of its own call. *)
LEMMA StagesStayFit ==
  /\ Init => StagesFit
  /\ StagesFit /\ [Next]_vars => StagesFit'
<1>1. Init => StagesFit
  BY DEF Init, StagesFit
<1>2. ASSUME StagesFit, Next, UNCHANGED request PROVE StagesFit'
  <2>1. SelectStep => StagesFit'
    BY <1>2 DEF SelectStep, RefuseSelect, CheckSelect, Lookup, Scan, RefuseFilter, ApplyOrderBy,
                ApplyLimit, Project, Stage, Refuse, End, Ask, StagesFit
  <2>2. ResolveInsert \/ RefuseInsert \/ Insert \/ RefuseRow => StagesFit'
    BY <1>2 DEF ResolveInsert, RefuseInsert, Insert, RefuseRow, Stage, Refuse, End, Ask, StagesFit
  <2>3. ResolveWrite \/ RefuseWrite \/ UpdateWhere \/ DeleteWhere \/ RefuseWhere => StagesFit'
    BY <1>2 DEF ResolveWrite, RefuseWrite, UpdateWhere, DeleteWhere, RefuseWhere, Stage, Refuse,
                End, Ask, StagesFit
  <2>4. ScanWithPredicate \/ RefusePredicate \/ ScanWithFilter \/ RefuseCompound \/ CreateTable
          \/ RefuseSchema => StagesFit'
    BY <1>2 DEF ScanWithPredicate, RefusePredicate, ScanWithFilter, RefuseCompound, CreateTable,
                RefuseSchema, Refuse, End, StagesFit
  <2> QED BY <1>2, <2>1, <2>2, <2>3, <2>4 DEF Next, SelectStep
<1>3. ASSUME StagesFit, UNCHANGED vars PROVE StagesFit'
  BY <1>3 DEF StagesFit, vars
<1>4. Next => UNCHANGED request
  BY DEF Next, RefuseSelect, CheckSelect, Lookup, Scan, RefuseFilter, ApplyOrderBy, ApplyLimit,
         Project, ResolveInsert, RefuseInsert, Insert, RefuseRow, ResolveWrite, RefuseWrite,
         UpdateWhere, DeleteWhere, RefuseWhere, ScanWithPredicate, RefusePredicate,
         ScanWithFilter, RefuseCompound, CreateTable, RefuseSchema, Stage, End, Refuse
<1> QED BY <1>1, <1>2, <1>3, <1>4

\* The page has the rows that the client put into it.
Intact == PageHolds(page, UsedBy(table), RecordsOf(table))

Written == stage = "answered" /\ request.call \in {"insert", "update", "delete"}

PageKept == Written \/ Intact

(* Until a write is done the page is as it was. *)
LEMMA PageIsKept ==
  /\ Init => PageKept
  /\ Given /\ StagesFit /\ PageKept /\ [Next]_vars => PageKept'
<1>1. Init => PageKept
  BY PageOfHolds DEF Init, PageKept, Intact, PageOfTable
<1>2. ASSUME Given, StagesFit, PageKept, Next PROVE PageKept'
  <2>1. Intact /\ UNCHANGED <<table, request>>
    BY <1>2, StepsMove, GivenStays DEF PageKept, Written
  <2>2. CASE UNCHANGED page
    BY <2>1, <2>2 DEF PageKept, Intact, PageHolds
  <2>3. CASE Insert \/ UpdateWhere \/ DeleteWhere
    BY <1>2, <2>1, <2>3 DEF Insert, UpdateWhere, DeleteWhere, End, StagesFit, PageKept, Written
  <2> QED BY <1>2, <2>2, <2>3, StepsMove
<1>3. ASSUME PageKept, UNCHANGED vars PROVE PageKept'
  BY <1>3 DEF PageKept, Written, Intact, PageHolds, vars
<1> QED BY <1>1, <1>2, <1>3

(* A scan reads the rows. *)
LEMMA SlotsRead ==
  ASSUME Given, Intact
  PROVE  /\ Used = UsedBy(table) /\ UsedBy(table) \in SUBSET SlotIds(Slots)
         /\ \A s \in UsedBy(table) :
              /\ IsRow(table[s + 1])
              /\ RecordAt(s) = EncodeRow(table[s + 1])
              /\ DecodeRecord(RecordAt(s)) = ShownRow(table[s + 1])
<1>1. table \in Tables
  BY DEF Given
<1>2. \A s \in UsedBy(table) : s \in SlotIds(Slots) /\ IsRow(table[s + 1])
  BY <1>1, PageOfHolds
<1>3. /\ FreeSlots(page, Slots) = SlotIds(Slots) \ UsedBy(table)
      /\ \A s \in UsedBy(table) : Record(page, Slots, RowSize, s) = RecordsOf(table)[s]
  BY DEF Intact, PageHolds
<1>4. Used = UsedBy(table)
  BY <1>2, <1>3 DEF Used, FreeSlots
<1>5. \A s \in UsedBy(table) : RecordAt(s) = EncodeRow(table[s + 1])
  BY <1>2, <1>3 DEF RecordAt, RecordsOf
<1> QED BY <1>2, <1>4, <1>5, RowsReadBack

(* The places of the rows are those of the slots in use. *)
LEMMA PlacesOfSlots ==
  ASSUME Given
  PROVE  /\ \A s \in UsedBy(table) : s + 1 \in Places
         /\ \A i \in Places : /\ i \in Nat \ {0} /\ i - 1 \in UsedBy(table)
                              /\ IsRow(table[i]) /\ i - 1 + 1 = i
<1>1. table \in Tables
  BY DEF Given
<1>2. /\ DOMAIN table = 1 .. Len(table) /\ Len(table) \in Nat /\ Len(table) <= Slots
      /\ SlotIds(Slots) = 0 .. Slots - 1 /\ Slots \in Nat
      /\ \A n \in 1 .. Len(table) : table[n] = NoRow \/ IsRow(table[n])
  BY <1>1, TableHasRows, PageLayout
<1>3. \A s \in UsedBy(table) : s + 1 \in Places
  BY DEF UsedBy, Places
<1>4. ASSUME NEW i \in Places
      PROVE  i \in Nat \ {0} /\ i - 1 \in UsedBy(table) /\ IsRow(table[i]) /\ i - 1 + 1 = i
  <2>1. i \in 1 .. Len(table) /\ table[i] # NoRow
    BY <1>2 DEF Places
  <2>2. i - 1 \in SlotIds(Slots) /\ i - 1 + 1 = i /\ i \in Nat \ {0}
    BY <1>2, <2>1
  <2>3. i - 1 \in UsedBy(table)
    BY <1>2, <2>1, <2>2 DEF UsedBy
  <2> QED BY <1>2, <2>1, <2>2, <2>3
<1> QED BY <1>3, <1>4

\* The slots of places.
SlotsOf(places) == {i - 1 : i \in places}

(* Places and their slots are as many. *)
LEMMA SlotsOfPlaces ==
  ASSUME Given, NEW found \in SUBSET Places
  PROVE  /\ SlotsOf(found) \in SUBSET UsedBy(table)
         /\ \A s \in SlotIds(Slots) : s \in SlotsOf(found) <=> s + 1 \in found
         /\ IsFiniteSet(found) /\ Cardinality(SlotsOf(found)) = Cardinality(found)
         /\ SlotsOf(found) = {} <=> found = {}
<1>1. /\ \A i \in Places : i \in Nat \ {0} /\ i - 1 \in UsedBy(table) /\ i - 1 + 1 = i
      /\ UsedBy(table) \in SUBSET SlotIds(Slots) /\ SlotIds(Slots) = 0 .. Slots - 1
      /\ Slots \in Nat
  BY PlacesOfSlots, PageLayout DEF UsedBy
<1>2. SlotsOf(found) \in SUBSET UsedBy(table)
  BY <1>1 DEF SlotsOf
<1>3. \A s \in SlotIds(Slots) : s \in SlotsOf(found) <=> s + 1 \in found
  BY <1>1 DEF SlotsOf
<1>4. IsFiniteSet(SlotsOf(found))
  <2>1. IsFiniteSet(SlotIds(Slots))
    BY <1>1, FS_Interval
  <2>2. SlotsOf(found) \in SUBSET SlotIds(Slots)
    BY <1>1, <1>2
  <2> QED BY <2>1, <2>2, FS_Subset
<1> DEFINE next == [s \in SlotsOf(found) |-> s + 1]
<1>5. next \in Bijection(SlotsOf(found), found)
  <2>1. \A s \in SlotsOf(found) : s + 1 \in found /\ s \in Int
    BY <1>1 DEF SlotsOf
  <2>2. \A s, t \in SlotsOf(found) : s + 1 = t + 1 => s = t
    BY <2>1
  <2>3. \A i \in found : \E s \in SlotsOf(found) : s + 1 = i
    BY <1>1 DEF SlotsOf
  <2>4. next \in [SlotsOf(found) -> found]
    BY <2>1
  <2>5. \A s \in SlotsOf(found) : next[s] = s + 1
    OBVIOUS
  <2> HIDE DEF next
  <2>6. \A s, t \in SlotsOf(found) : next[s] = next[t] => s = t
    BY <2>2, <2>5
  <2>7. \A i \in found : \E s \in SlotsOf(found) : next[s] = i
    BY <2>3, <2>5
  <2> QED BY <2>4, <2>6, <2>7, Fun_IsBij
<1>6. IsFiniteSet(found) /\ Cardinality(SlotsOf(found)) = Cardinality(found)
  <2> HIDE DEF next
  <2>1. ExistsBijection(SlotsOf(found), found)
    BY <1>5 DEF ExistsBijection
  <2> QED BY <1>4, <2>1, FS_Bijection
<1>7. SlotsOf(found) = {} <=> found = {}
  BY DEF SlotsOf
<1> QED BY <1>2, <1>3, <1>6, <1>7

(* A scan with a filter finds the rows that satisfy it. *)
LEMMA MatchingIsSatisfying ==
  ASSUME Given, Intact, NEW f, IsFilter(f), Meaningful(f)
  PROVE  /\ Matching(f) = SlotsOf(Satisfying(f)) /\ Satisfying(f) \in SUBSET Places
<1>1. Satisfying(f) = {i \in Places : f = NoFilter \/ SaysOf(f, i)}
  BY Zenon DEF Satisfying, SaysOf
<1>2. Satisfying(f) \in SUBSET Places
  BY <1>1
<1>3. Matching(f) \subseteq UsedBy(table)
  BY SlotsRead DEF Matching
<1>4. SlotsOf(Satisfying(f)) \subseteq UsedBy(table)
  BY <1>2, SlotsOfPlaces
<1>5. ASSUME NEW s \in UsedBy(table)
      PROVE  s \in Matching(f) <=> s \in SlotsOf(Satisfying(f))
  <2>1. /\ IsRow(table[s + 1]) /\ RecordAt(s) = EncodeRow(table[s + 1]) /\ s \in Used
        /\ s \in SlotIds(Slots)
    BY SlotsRead
  <2>2. s + 1 \in Places
    BY PlacesOfSlots
  <2>3. FilterMatches(Compiled(f), EncodeRow(table[s + 1])) <=> SaysOf(f, s + 1)
    BY <2>1, FilterMeans
  <2>4. s \in Matching(f) <=> f = NoFilter \/ SaysOf(f, s + 1)
    BY <2>1, <2>3 DEF Matching
  <2>5. s \in SlotsOf(Satisfying(f)) <=> s + 1 \in Satisfying(f)
    BY <1>2, <2>1, SlotsOfPlaces
  <2>6. s + 1 \in Satisfying(f) <=> f = NoFilter \/ SaysOf(f, s + 1)
    BY <1>1, <2>2
  <2> QED BY <2>4, <2>5, <2>6
<1> QED BY <1>2, <1>3, <1>4, <1>5

-----------------------------------------------------------------------------
(* Lists of named values.                                                  *)

\* The columns that a request names.
NamedBy(r) == {e[1] : e \in Range(r.entries)}

(* A list of named values as the set of its entries. *)
LEMMA EntriesNamed ==
  ASSUME NEW r, r.entries \in Entries
  PROVE  /\ Len(r.entries) \in Nat /\ Range(Names(r)) = NamedBy(r) /\ IsFiniteSet(NamedBy(r))
         /\ NoDuplicates(Names(r)) <=> Cardinality(NamedBy(r)) = Len(r.entries)
         /\ AllMatch(r) <=> \A e \in Range(r.entries) :
                              e[1] \in Columns /\ e[2][1] = Schema[e[1]].kind
         /\ \A e \in Range(r.entries) : e = <<e[1], e[2]>> /\ e[2] \in AllValues
         /\ \A c \in NamedBy(r) : <<c, ValueOf(r, c)>> \in Range(r.entries)
         /\ NoDuplicates(Names(r)) => \A e \in Range(r.entries) : ValueOf(r, e[1]) = e[2]
<1> DEFINE k == Len(r.entries)
           names == Names(r)
<1>1. /\ k \in Nat /\ DOMAIN r.entries = 1 .. k
      /\ \A n \in 1 .. k : r.entries[n] \in ColumnNames \X AllValues
  BY DEF Entries
<1>2. names = [n \in 1 .. k |-> r.entries[n][1]]
  BY <1>1 DEF Names
<1> HIDE DEF k
<1>3. /\ names \in Seq(ColumnNames) /\ Len(names) = k /\ DOMAIN names = 1 .. k
      /\ \A n \in 1 .. k : names[n] = r.entries[n][1]
  BY <1>1, <1>2
<1> HIDE DEF names
<1>4. \A e : e \in Range(r.entries) <=> \E n \in 1 .. k : e = r.entries[n]
  BY <1>1 DEF Range
<1>5. Range(names) = NamedBy(r)
  <2>1. \A c : c \in Range(names) <=> \E n \in 1 .. k : c = names[n]
    BY <1>3 DEF Range
  <2>2. \A c : c \in NamedBy(r) <=> \E n \in 1 .. k : c = r.entries[n][1]
    BY <1>4 DEF NamedBy
  <2>3. \A c : c \in Range(names) <=> c \in NamedBy(r)
    BY <1>3, <2>1, <2>2
  <2> QED BY <2>3
<1>6. IsFiniteSet(NamedBy(r)) /\ (NoDuplicates(names) <=> Cardinality(NamedBy(r)) = k)
  BY <1>3, <1>5, OnceIsInjective DEF NoDuplicates
<1>7. AllMatch(r) <=> \A e \in Range(r.entries) : e[1] \in Columns /\ e[2][1] = Schema[e[1]].kind
  BY <1>1, <1>4 DEF AllMatch, Known, MatchesType
<1>8. \A e \in Range(r.entries) : e = <<e[1], e[2]>> /\ e[2] \in AllValues
  BY <1>1, <1>4
<1>9. ASSUME NEW c \in NamedBy(r)
      PROVE  \E n \in 1 .. k : r.entries[n][1] = c /\ ValueOf(r, c) = r.entries[n][2]
  <2>1. \E n \in 1 .. k : r.entries[n][1] = c
    BY <1>4 DEF NamedBy
  <2> DEFINE m == CHOOSE n \in 1 .. k : r.entries[n][1] = c
  <2>2. m \in 1 .. k /\ r.entries[m][1] = c
    BY <2>1
  <2>3. ValueOf(r, c) = r.entries[m][2]
    BY <1>1 DEF ValueOf
  <2> HIDE DEF m
  <2> QED BY <2>2, <2>3
<1>10. ASSUME NEW c \in NamedBy(r) PROVE <<c, ValueOf(r, c)>> \in Range(r.entries)
  <2>1. PICK n \in 1 .. k : r.entries[n][1] = c /\ ValueOf(r, c) = r.entries[n][2]
    BY <1>9
  <2>2. r.entries[n] = <<r.entries[n][1], r.entries[n][2]>>
    BY <1>1
  <2> QED BY <1>4, <2>1, <2>2
<1>11. ASSUME NoDuplicates(names), NEW e \in Range(r.entries) PROVE ValueOf(r, e[1]) = e[2]
  <2>1. PICK m \in 1 .. k : e = r.entries[m]
    BY <1>4
  <2>2. e[1] \in NamedBy(r)
    BY DEF NamedBy
  <2>3. PICK n \in 1 .. k : r.entries[n][1] = e[1] /\ ValueOf(r, e[1]) = r.entries[n][2]
    BY <1>9, <2>2
  <2>4. names[m] = names[n]
    BY <1>3, <2>1, <2>3
  <2>5. m = n
    BY <1>3, <1>11, <2>4 DEF NoDuplicates, IsInjective
  <2> QED BY <2>1, <2>3, <2>5
<1> QED BY <1>1, <1>5, <1>6, <1>7, <1>8, <1>10, <1>11 DEF k, names

\* The row that an insert gives.
RowOf(r) == IF r.named THEN [c \in Columns |-> ValueOf(r, c)] ELSE Values(r)
Resolves(r) == IF r.named THEN NamedInsertResolves(r) ELSE RowResolves(Values(r))
CanStore(r) == \A c \in Columns : Encodable(c, RowOf(r)[c])

InsertMeans(r) ==
  /\ Len(r.entries) = Len(Schema)
  /\ IF r.named
       THEN /\ Cardinality(NamedBy(r)) = Len(r.entries)
            /\ \A e \in Range(r.entries) : Holds(e[1], e[2])
     ELSE \A c \in Columns : Holds(c, r.entries[c][2])

(* A value is one that a column can have exactly if it can be encoded for   *)
(* it.                                                                      *)
LEMMA HoldsIsEncodable ==
  \A c, v : Holds(c, v) <=> c \in Columns /\ Encodable(c, v)
BY DEF Holds, Encodable, MatchesType

(* A row is stored if every column is given a value that it can hold. *)
LEMMA InsertAccepted ==
  ASSUME NEW r, IsRequest(r), r.call = "insert"
  PROVE  /\ Resolves(r) /\ CanStore(r) <=> InsertMeans(r)
         /\ Resolves(r) /\ CanStore(r) => IsRow(RowOf(r))
<1>1. r.entries \in Entries /\ r.named \in BOOLEAN
  BY DEF IsRequest
<1>2. /\ Len(Schema) \in Nat /\ Columns = 1 .. Len(Schema)
      /\ IsFiniteSet(Columns) /\ Cardinality(Columns) = Len(Schema)
  BY ColumnTypes, FS_Interval
<1>3. CASE ~r.named
  <2> DEFINE values == Values(r)
  <2>1. /\ Len(r.entries) \in Nat /\ DOMAIN r.entries = 1 .. Len(r.entries)
        /\ \A n \in 1 .. Len(r.entries) : r.entries[n] \in ColumnNames \X AllValues
    BY <1>1 DEF Entries
  <2>2. values = [n \in 1 .. Len(r.entries) |-> r.entries[n][2]]
    BY <2>1 DEF Values
  <2>3. Resolves(r) <=> RowResolves(values)
    BY <1>3 DEF Resolves
  <2>4. RowOf(r) = values
    BY <1>3 DEF RowOf
  <2> HIDE DEF values
  <2>5. /\ Len(values) = Len(r.entries)
        /\ \A n \in 1 .. Len(r.entries) : values[n] = r.entries[n][2] /\ values[n] \in AllValues
    BY <2>1, <2>2
  <2>6. Resolves(r) /\ CanStore(r) <=>
          Len(r.entries) = Len(Schema) /\ \A c \in Columns : Encodable(c, values[c])
    BY <2>3, <2>4, <2>5 DEF RowResolves, CanStore, Encodable
  <2>7. InsertMeans(r) <=>
          Len(r.entries) = Len(Schema) /\ \A c \in Columns : Encodable(c, r.entries[c][2])
    BY <1>3, HoldsIsEncodable DEF InsertMeans
  <2>8. ASSUME Len(r.entries) = Len(Schema)
        PROVE  /\ \A c \in Columns : values[c] = r.entries[c][2]
               /\ values \in [Columns -> AllValues]
    BY <1>2, <2>2, <2>5, <2>8
  <2> QED BY <2>4, <2>6, <2>7, <2>8 DEF IsRow
<1>4. CASE r.named
  <2>1. /\ Len(r.entries) \in Nat /\ Range(Names(r)) = NamedBy(r) /\ IsFiniteSet(NamedBy(r))
        /\ NoDuplicates(Names(r)) <=> Cardinality(NamedBy(r)) = Len(r.entries)
        /\ AllMatch(r) <=> \A e \in Range(r.entries) :
                             e[1] \in Columns /\ e[2][1] = Schema[e[1]].kind
        /\ \A e \in Range(r.entries) : e = <<e[1], e[2]>> /\ e[2] \in AllValues
        /\ \A c \in NamedBy(r) : <<c, ValueOf(r, c)>> \in Range(r.entries)
        /\ NoDuplicates(Names(r)) => \A e \in Range(r.entries) : ValueOf(r, e[1]) = e[2]
    BY <1>1, EntriesNamed
  <2>2. Resolves(r) <=> NoDuplicates(Names(r)) /\ AllMatch(r) /\ Columns \subseteq NamedBy(r)
    BY <1>4, <2>1 DEF Resolves, NamedInsertResolves
  <2>3. RowOf(r) = [c \in Columns |-> ValueOf(r, c)]
    BY <1>4 DEF RowOf
  <2>4. CanStore(r) <=> \A c \in Columns : Encodable(c, ValueOf(r, c))
    BY <2>3 DEF CanStore
  <2>5. InsertMeans(r) <=>
          /\ Len(r.entries) = Len(Schema) /\ Cardinality(NamedBy(r)) = Len(r.entries)
          /\ \A e \in Range(r.entries) : Holds(e[1], e[2])
    BY <1>4 DEF InsertMeans
  <2>6. ASSUME Resolves(r), CanStore(r) PROVE InsertMeans(r) /\ IsRow(RowOf(r))
    <3>1. NamedBy(r) = Columns
      BY <2>1, <2>2, <2>6 DEF NamedBy
    <3>2. Len(r.entries) = Len(Schema)
      BY <1>2, <2>1, <2>2, <2>6, <3>1
    <3>3. \A e \in Range(r.entries) : e[1] \in Columns /\ ValueOf(r, e[1]) = e[2]
      BY <2>1, <2>2, <2>6
    <3>4. \A e \in Range(r.entries) : Holds(e[1], e[2])
      BY <2>4, <2>6, <3>3, HoldsIsEncodable
    <3>5. \A c \in Columns : ValueOf(r, c) \in AllValues
      <4> SUFFICES ASSUME NEW c \in Columns PROVE ValueOf(r, c) \in AllValues
        OBVIOUS
      <4>1. PICK e \in Range(r.entries) : e = <<c, ValueOf(r, c)>>
        BY <2>1, <3>1
      <4> QED BY <2>1, <4>1
    <3>6. RowOf(r) \in [Columns -> AllValues] /\ \A c \in Columns : RowOf(r)[c] = ValueOf(r, c)
      BY <2>3, <3>5
    <3> QED BY <2>1, <2>2, <2>4, <2>5, <2>6, <3>2, <3>4, <3>6 DEF IsRow
  <2>7. ASSUME InsertMeans(r) PROVE Resolves(r) /\ CanStore(r)
    <3>1. \A e \in Range(r.entries) : /\ e[1] \in Columns /\ Encodable(e[1], e[2])
                                      /\ e[2][1] = Schema[e[1]].kind
      BY <2>5, <2>7 DEF Holds, Encodable, MatchesType
    <3>2. NamedBy(r) \in SUBSET Columns
      BY <3>1 DEF NamedBy
    <3>3. NamedBy(r) = Columns
      BY <1>2, <2>5, <2>7, <3>2, FS_Subset
    <3>4. \A c \in Columns : Encodable(c, ValueOf(r, c))
      <4> SUFFICES ASSUME NEW c \in Columns PROVE Encodable(c, ValueOf(r, c))
        OBVIOUS
      <4>1. PICK e \in Range(r.entries) : e = <<c, ValueOf(r, c)>>
        BY <2>1, <3>3
      <4> QED BY <3>1, <4>1
    <3> QED BY <2>1, <2>2, <2>4, <2>5, <2>7, <3>1, <3>3, <3>4
  <2> QED BY <2>6, <2>7
<1> QED BY <1>1, <1>3, <1>4

-----------------------------------------------------------------------------
(* Inserts, updates and deletes, step by step.                             *)

\* A record has taken a slot that was free.
InsertedTo(t, r, slot) ==
  [s \in SlotIds(Slots) |-> IF s = slot THEN EncodeRow(RowOf(r)) ELSE EncodeRow(t[s + 1])]

HasInserted(t, r, p, slot) ==
  /\ slot \in SlotIds(Slots) \ UsedBy(t)
  /\ PageHolds(p, UsedBy(t) \cup {slot}, InsertedTo(t, r, slot))

InsertChecked ==
  request.call = "insert" =>
    /\ stage \in {"check", "insert", "answered", "refused"}
    /\ stage = "insert" => Resolves(request) /\ rows = RowOf(request)
    /\ stage = "refused" => ~(Resolves(request) /\ CanStore(request))
    /\ stage = "answered" =>
         /\ Resolves(request) /\ CanStore(request)
         /\ HasInserted(table, request, page, answer)

(* The row of an accepted insert is in the slot that it answers. *)
LEMMA InsertIsChecked ==
  /\ Init => InsertChecked
  /\ Given /\ StagesFit /\ PageKept /\ InsertChecked /\ [Next]_vars => InsertChecked'
<1>1. Init => InsertChecked
  BY DEF Init, InsertChecked
<1> SUFFICES ASSUME Given, StagesFit, PageKept, InsertChecked, [Next]_vars,
                    request.call = "insert"
             PROVE  InsertChecked'
  BY <1>1, GivenStays DEF InsertChecked
<1>2. UNCHANGED <<request, table>>
  BY GivenStays
<1>3. /\ stage \in {"check", "insert", "answered", "refused"}
      /\ stage = "insert" => Resolves(request) /\ rows = RowOf(request)
      /\ stage = "refused" => ~(Resolves(request) /\ CanStore(request))
      /\ stage = "answered" => /\ Resolves(request) /\ CanStore(request)
                               /\ HasInserted(table, request, page, answer)
  BY DEF InsertChecked
<1>4. InsertResolves <=> Resolves(request)
  BY DEF InsertResolves, Resolves
<1>5. CASE ResolveInsert
  <2>1. stage' = "insert" /\ Resolves(request) /\ rows' = RowOf(request)
    BY <1>4, <1>5 DEF ResolveInsert, Stage, RowOf
  <2> QED BY <1>2, <2>1 DEF InsertChecked
<1>6. CASE RefuseInsert
  <2>1. stage' = "refused" /\ ~Resolves(request)
    BY <1>4, <1>6 DEF RefuseInsert, Refuse, End
  <2> QED BY <1>2, <2>1 DEF InsertChecked
<1>7. CASE Insert
  <2>1. /\ stage = "insert" /\ \A c \in Columns : Encodable(c, rows[c])
        /\ FreeSlots(page, Slots) # {}
        /\ page' = InsertRecord(page, Slots, RowSize, EncodeRow(rows))
        /\ stage' = "answered" /\ answer' = FirstFreeSlot(page, Slots)
    BY <1>7 DEF Insert, End
  <2>2. Resolves(request) /\ rows = RowOf(request) /\ CanStore(request)
    BY <1>3, <2>1 DEF CanStore
  <2>3. IsRow(RowOf(request))
    BY <2>2, InsertAccepted DEF Given
  <2>4. IsRecord(EncodeRow(RowOf(request)))
    BY <2>3, RowEncoded DEF IsRecord
  <2>5. Intact
    BY <2>1 DEF PageKept, Written
  <2> DEFINE slot == FirstFreeSlot(page, Slots)
             data == EncodeRow(RowOf(request))
             after == InsertedTo(table, request, slot)
  <2>6. /\ UsedBy(table) \in SUBSET SlotIds(Slots) /\ UsedBy(table) # SlotIds(Slots)
        /\ slot \in SlotIds(Slots) \ UsedBy(table)
    <3>1. FreeSlots(page, Slots) = SlotIds(Slots) \ UsedBy(table)
      BY <2>5 DEF Intact, PageHolds
    <3>2. FirstFreeSlot(page, Slots) \in FreeSlots(page, Slots)
      BY <2>1, PageLayout, FirstFree
    <3> QED BY <2>1, <3>1, <3>2 DEF UsedBy
  <2>7. /\ after[slot] = data
        /\ \A s \in UsedBy(table) : after[s] = RecordsOf(table)[s]
    BY <2>6 DEF InsertedTo, RecordsOf
  <2> HIDE DEF after, data
  <2>8. IsRecord(data) /\ PageHolds(page, UsedBy(table), RecordsOf(table))
    BY <2>4, <2>5 DEF data, Intact
  <2>9. PageHolds(InsertRecord(page, Slots, RowSize, data), UsedBy(table) \cup {slot}, after)
    BY <2>6, <2>7, <2>8, PageTakesRecord
  <2>10. HasInserted(table, request, page', slot)
    BY <2>1, <2>2, <2>6, <2>9 DEF HasInserted, data, after
  <2> HIDE DEF slot
  <2>11. answer' = slot
    BY <2>1 DEF slot
  <2> QED BY <1>2, <2>1, <2>2, <2>10, <2>11 DEF InsertChecked
<1>8. CASE RefuseRow
  <2>1. stage' = "refused" /\ ~CanStore(request)
    BY <1>3, <1>8 DEF RefuseRow, Refuse, End, CanStore
  <2> QED BY <1>2, <2>1 DEF InsertChecked
<1>9. CASE UNCHANGED vars
  BY <1>2, <1>3, <1>9 DEF vars, InsertChecked
<1>10. ~SelectStep
  BY <1>3 DEF SelectStep, RefuseSelect, CheckSelect, Lookup, Scan, RefuseFilter, ApplyOrderBy,
              ApplyLimit, Project, Ask, Stage
<1>11. ~(ResolveWrite \/ RefuseWrite \/ UpdateWhere \/ DeleteWhere \/ RefuseWhere)
  BY <1>3 DEF ResolveWrite, RefuseWrite, UpdateWhere, DeleteWhere, RefuseWhere, Ask
<1>12. ~(ScanWithPredicate \/ RefusePredicate \/ ScanWithFilter \/ RefuseCompound
           \/ CreateTable \/ RefuseSchema)
  BY DEF ScanWithPredicate, RefusePredicate, ScanWithFilter, RefuseCompound, CreateTable,
         RefuseSchema, Ask
<1> QED BY <1>5, <1>6, <1>7, <1>8, <1>9, <1>10, <1>11, <1>12 DEF Next, SelectStep

\* The row that an update makes of another.
Changed(r, row) == [c \in Columns |-> IF c \in NamedBy(r) THEN ValueOf(r, c) ELSE row[c]]
CanGive(r) == \A c \in NamedBy(r) : Encodable(c, ValueOf(r, c))

ChangedTo(t, r, slots) ==
  [s \in SlotIds(Slots) |-> IF s \in slots THEN EncodeRow(Changed(r, ShownRow(t[s + 1])))
                            ELSE EncodeRow(t[s + 1])]

(* A changed row is a row, and the record of it is what an update stores.   *)
LEMMA RowIsChanged ==
  ASSUME Given, request.call = "update", AssignmentsResolve(request),
         NEW row, IsRow(row)
  PROVE  /\ Rewritten(EncodeRow(row)) = EncodeRow(Changed(request, ShownRow(row)))
         /\ CanGive(request) => IsRow(Changed(request, ShownRow(row)))
<1>1. request.entries \in Entries
  BY DEF Given, IsRequest
<1>2. /\ Range(Names(request)) = NamedBy(request)
      /\ AllMatch(request) <=> \A e \in Range(request.entries) :
                                 e[1] \in Columns /\ e[2][1] = Schema[e[1]].kind
      /\ \A e \in Range(request.entries) : e = <<e[1], e[2]>> /\ e[2] \in AllValues
      /\ \A c \in NamedBy(request) : <<c, ValueOf(request, c)>> \in Range(request.entries)
  BY <1>1, EntriesNamed
<1>3. \A c \in NamedBy(request) : ValueOf(request, c) \in AllValues
  <2> SUFFICES ASSUME NEW c \in NamedBy(request) PROVE ValueOf(request, c) \in AllValues
    OBVIOUS
  <2>1. PICK e \in Range(request.entries) : e = <<c, ValueOf(request, c)>>
    BY <1>2
  <2> QED BY <1>2, <2>1
<1>4. Assigned(ShownRow(row)) = Changed(request, ShownRow(row))
  BY <1>2 DEF Assigned, Changed
<1>5. Rewritten(EncodeRow(row)) = EncodeRow(Changed(request, ShownRow(row)))
  BY <1>4, RowsReadBack DEF Rewritten
<1>6. ASSUME CanGive(request) PROVE IsRow(Changed(request, ShownRow(row)))
  <2> DEFINE shown == ShownRow(row)
  <2>1. shown \in [Columns -> AllValues] /\ \A c \in Columns : Encodable(c, shown[c])
    BY ShownRowEncoded DEF IsRow
  <2> HIDE DEF shown
  <2> DEFINE new == Changed(request, shown)
  <2>2. /\ new \in [Columns -> AllValues]
        /\ \A c \in Columns : new[c] = IF c \in NamedBy(request) THEN ValueOf(request, c) ELSE shown[c]
    BY <1>3, <2>1 DEF Changed
  <2>3. \A c \in Columns : Encodable(c, new[c])
    BY <1>6, <2>1, <2>2 DEF CanGive
  <2> HIDE DEF new
  <2>4. IsRow(new)
    BY <2>2, <2>3 DEF IsRow
  <2> QED BY <2>4 DEF new, shown
<1> QED BY <1>5, <1>6

WritePlanned(r) == ColumnsKnown(r.filter) /\ (r.call = "update" => AssignmentsResolve(r))
FoundBy == Satisfying(request.filter)

WriteAccepted ==
  /\ WritePlanned(request)
  /\ FilterAccepted(request.filter)
  /\ request.call = "update" => CanGive(request) \/ FoundBy = {}

HasWritten ==
  /\ answer = Cardinality(FoundBy)
  /\ request.call = "update" =>
       PageHolds(page, UsedBy(table), ChangedTo(table, request, SlotsOf(FoundBy)))
  /\ request.call = "delete" =>
       PageHolds(page, UsedBy(table) \ SlotsOf(FoundBy), RecordsOf(table))

IsWrite(r) == r.call \in {"update", "delete"}

WriteChecked ==
  IsWrite(request) =>
    /\ stage \in {"check", "update", "delete", "answered", "refused"}
    /\ stage \in {"update", "delete"} => WritePlanned(request)
    /\ stage = "refused" => ~WriteAccepted
    /\ stage = "answered" => WriteAccepted /\ HasWritten

(* What a filter finds is a matter of the table and the request. *)
LEMMA FoundStays ==
  UNCHANGED <<table, request>> => UNCHANGED FoundBy /\ (WriteAccepted' <=> WriteAccepted)
<1>1. UNCHANGED <<table, request>> => UNCHANGED FoundBy
  BY DEF FoundBy, Satisfying, Places, AreTrue, Says
<1> QED BY <1>1 DEF WriteAccepted

(* An update or a delete finds the slots of the rows that satisfy its       *)
(* filter.                                                                  *)
LEMMA FoundByFilter ==
  ASSUME Given, StagesFit, PageKept, WriteChecked, stage \in {"update", "delete"},
         FilterAccepted(request.filter)
  PROVE  /\ Intact /\ IsWrite(request) /\ WritePlanned(request)
         /\ Matching(request.filter) = SlotsOf(FoundBy) /\ FoundBy \in SUBSET Places
         /\ SlotsOf(FoundBy) \in SUBSET UsedBy(table)
         /\ Cardinality(SlotsOf(FoundBy)) = Cardinality(FoundBy)
         /\ SlotsOf(FoundBy) = {} <=> FoundBy = {}
<1>1. Intact /\ IsWrite(request) /\ request.call = stage
  BY DEF PageKept, Written, StagesFit, IsWrite
<1>2. WritePlanned(request) /\ IsFilter(request.filter)
  BY <1>1 DEF WriteChecked, IsWrite, Given, IsRequest
<1>3. Meaningful(request.filter)
  BY <1>2, AcceptedIsMeaningful DEF WritePlanned
<1>4. Matching(request.filter) = SlotsOf(FoundBy) /\ FoundBy \in SUBSET Places
  BY <1>1, <1>2, <1>3, MatchingIsSatisfying DEF FoundBy
<1> QED BY <1>1, <1>2, <1>4, SlotsOfPlaces

(* update_where. *)
LEMMA UpdateWrites ==
  ASSUME Given, StagesFit, PageKept, WriteChecked, UpdateWhere
  PROVE  WriteAccepted /\ stage' = "answered" /\ HasWritten'
<1>1. /\ stage = "update" /\ FilterAccepted(request.filter)
      /\ ~CanAssign => Matching(request.filter) = {}
      /\ page' = UpdateSlots(Matching(request.filter))
      /\ answer' = Cardinality(Matching(request.filter)) /\ stage' = "answered"
      /\ UNCHANGED <<table, request>>
  BY DEF UpdateWhere, End
<1>2. /\ Intact /\ IsWrite(request) /\ WritePlanned(request)
      /\ Matching(request.filter) = SlotsOf(FoundBy) /\ FoundBy \in SUBSET Places
      /\ SlotsOf(FoundBy) \in SUBSET UsedBy(table)
      /\ Cardinality(SlotsOf(FoundBy)) = Cardinality(FoundBy)
      /\ SlotsOf(FoundBy) = {} <=> FoundBy = {}
  BY <1>1, FoundByFilter
<1>3. request.call = "update" /\ AssignmentsResolve(request) /\ request.entries \in Entries
  BY <1>1, <1>2 DEF StagesFit, WritePlanned, Given, IsRequest
<1>4. CanAssign <=> CanGive(request)
  BY <1>3, EntriesNamed DEF CanAssign, CanGive
<1>5. WriteAccepted
  BY <1>1, <1>2, <1>4 DEF WriteAccepted
<1> DEFINE slots == SlotsOf(FoundBy)
           used == UsedBy(table)
           records == RecordsOf(table)
           changed == ChangedTo(table, request, slots)
<1>6. ASSUME NEW s \in used
      PROVE  /\ s \in SlotIds(Slots) /\ IsRow(table[s + 1]) /\ records[s] = EncodeRow(table[s + 1])
             /\ Rewritten(records[s]) = EncodeRow(Changed(request, ShownRow(table[s + 1])))
             /\ CanGive(request) => IsRecord(Rewritten(records[s]))
  <2>1. s \in SlotIds(Slots) /\ IsRow(table[s + 1])
    BY <1>2, SlotsRead
  <2>2. records[s] = EncodeRow(table[s + 1])
    BY <2>1 DEF RecordsOf
  <2>3. /\ Rewritten(EncodeRow(table[s + 1])) = EncodeRow(Changed(request, ShownRow(table[s + 1])))
        /\ CanGive(request) => IsRow(Changed(request, ShownRow(table[s + 1])))
    BY <1>3, <2>1, RowIsChanged
  <2>4. CanGive(request) => IsRecord(EncodeRow(Changed(request, ShownRow(table[s + 1]))))
    BY <2>3, RowEncoded DEF IsRecord
  <2> QED BY <2>1, <2>2, <2>3, <2>4
<1>7. \A s \in slots : IsRecord(Rewritten(records[s]))
  BY <1>2, <1>5, <1>6, <1>3 DEF WriteAccepted
<1>8. PageHolds(page, used, records) /\ used \in SUBSET SlotIds(Slots)
  BY <1>2 DEF Intact, UsedBy
<1>9. \A s \in used : changed[s] = UpdatedTo(records, slots)[s]
  BY <1>6 DEF ChangedTo, UpdatedTo
<1> HIDE DEF changed, records
<1>10. PageHolds(UpdateSlots(slots), used, UpdatedTo(records, slots))
  BY <1>2, <1>7, <1>8, PageIsUpdated
<1>11. PageHolds(UpdateSlots(slots), used, changed)
  BY <1>9, <1>10, SamePage
<1>12. FoundBy' = FoundBy
  BY <1>1, FoundStays
<1>13. PageHolds(page', UsedBy(table'), ChangedTo(table', request', SlotsOf(FoundBy')))
  BY <1>1, <1>2, <1>11, <1>12 DEF changed
<1>14. answer' = Cardinality(FoundBy') /\ request'.call = "update"
  BY <1>1, <1>2, <1>3, <1>12
<1> QED BY <1>1, <1>5, <1>13, <1>14 DEF HasWritten

(* delete_where. *)
LEMMA DeleteWrites ==
  ASSUME Given, StagesFit, PageKept, WriteChecked, DeleteWhere
  PROVE  WriteAccepted /\ stage' = "answered" /\ HasWritten'
<1>1. /\ stage = "delete" /\ FilterAccepted(request.filter)
      /\ page' = DeleteSlots(Matching(request.filter))
      /\ answer' = Cardinality(Matching(request.filter)) /\ stage' = "answered"
      /\ UNCHANGED <<table, request>>
  BY DEF DeleteWhere, End
<1>2. /\ Intact /\ IsWrite(request) /\ WritePlanned(request)
      /\ Matching(request.filter) = SlotsOf(FoundBy) /\ FoundBy \in SUBSET Places
      /\ SlotsOf(FoundBy) \in SUBSET UsedBy(table)
      /\ Cardinality(SlotsOf(FoundBy)) = Cardinality(FoundBy)
  BY <1>1, FoundByFilter
<1>3. request.call = "delete"
  BY <1>1 DEF StagesFit
<1>4. WriteAccepted
  BY <1>1, <1>2, <1>3 DEF WriteAccepted
<1>5. PageHolds(page, UsedBy(table), RecordsOf(table)) /\ UsedBy(table) \in SUBSET SlotIds(Slots)
  BY <1>2 DEF Intact, UsedBy
<1>6. PageHolds(DeleteSlots(SlotsOf(FoundBy)), UsedBy(table) \ SlotsOf(FoundBy), RecordsOf(table))
  BY <1>2, <1>5, PageIsDeleted
<1>7. FoundBy' = FoundBy
  BY <1>1, FoundStays
<1>8. PageHolds(page', UsedBy(table') \ SlotsOf(FoundBy'), RecordsOf(table'))
  BY <1>1, <1>2, <1>6, <1>7
<1>9. answer' = Cardinality(FoundBy') /\ request'.call = "delete"
  BY <1>1, <1>2, <1>3, <1>7
<1> QED BY <1>1, <1>4, <1>8, <1>9 DEF HasWritten

(* An accepted update or delete changes the rows that its filter means. *)
LEMMA WriteIsChecked ==
  /\ Init => WriteChecked
  /\ Given /\ StagesFit /\ PageKept /\ WriteChecked /\ [Next]_vars => WriteChecked'
<1>1. Init => WriteChecked
  BY DEF Init, WriteChecked
<1> SUFFICES ASSUME Given, StagesFit, PageKept, WriteChecked, [Next]_vars, IsWrite(request)
             PROVE  WriteChecked'
  BY <1>1, GivenStays DEF WriteChecked
<1>2. UNCHANGED <<request, table>>
  BY GivenStays
<1>3. /\ stage \in {"check", "update", "delete", "answered", "refused"}
      /\ stage \in {"update", "delete"} => WritePlanned(request)
      /\ stage = "refused" => ~WriteAccepted
      /\ stage = "answered" => WriteAccepted /\ HasWritten
  BY DEF WriteChecked
<1>4. WriteAccepted' <=> WriteAccepted
  BY <1>2, FoundStays
<1>5. request.call \in {"update", "delete"}
  BY DEF IsWrite
<1>6. CASE ResolveWrite
  <2>1. stage' \in {"update", "delete"} /\ WritePlanned(request)
    BY <1>5, <1>6 DEF ResolveWrite, Stage, WritePlanned
  <2> QED BY <1>2, <2>1 DEF WriteChecked
<1>7. CASE RefuseWrite
  <2>1. stage' = "refused" /\ ~WriteAccepted
    BY <1>7 DEF RefuseWrite, Refuse, End, WriteAccepted, WritePlanned
  <2> QED BY <1>2, <1>4, <2>1 DEF WriteChecked
<1>8. CASE UpdateWhere
  <2>1. WriteAccepted /\ stage' = "answered" /\ HasWritten'
    BY <1>8, UpdateWrites
  <2> QED BY <1>2, <1>4, <2>1 DEF WriteChecked
<1>9. CASE DeleteWhere
  <2>1. WriteAccepted /\ stage' = "answered" /\ HasWritten'
    BY <1>9, DeleteWrites
  <2> QED BY <1>2, <1>4, <2>1 DEF WriteChecked
<1>10. CASE RefuseWhere
  <2>1. /\ stage \in {"update", "delete"} /\ stage' = "refused"
        /\ FilterAccepted(request.filter) =>
             stage = "update" /\ ~CanAssign /\ Matching(request.filter) # {}
    BY <1>10 DEF RefuseWhere, Refuse, End
  <2>2. ASSUME FilterAccepted(request.filter) PROVE ~WriteAccepted
    <3>1. FoundBy # {}
      BY <2>1, <2>2, FoundByFilter
    <3>2. request.call = "update" /\ request.entries \in Entries
      BY <2>1, <2>2 DEF StagesFit, Given, IsRequest
    <3>3. ~CanGive(request)
      BY <2>1, <2>2, <3>2, EntriesNamed DEF CanAssign, CanGive
    <3> QED BY <3>1, <3>2, <3>3 DEF WriteAccepted
  <2>3. ~WriteAccepted
    BY <2>2 DEF WriteAccepted
  <2> QED BY <1>2, <1>4, <2>1, <2>3 DEF WriteChecked
<1>11. CASE UNCHANGED vars
  <2>1. stage' = stage /\ (HasWritten' <=> HasWritten)
    BY <1>2, <1>11, FoundStays DEF HasWritten, vars
  <2> QED BY <1>2, <1>3, <1>4, <2>1 DEF WriteChecked
<1>12. ~SelectStep
  BY <1>3, <1>5 DEF SelectStep, RefuseSelect, CheckSelect, Lookup, Scan, RefuseFilter,
                    ApplyOrderBy, ApplyLimit, Project, Ask, Stage
<1>13. ~(ResolveInsert \/ RefuseInsert \/ Insert \/ RefuseRow)
  BY <1>3, <1>5 DEF ResolveInsert, RefuseInsert, Insert, RefuseRow, Ask
<1>14. ~(ScanWithPredicate \/ RefusePredicate \/ ScanWithFilter \/ RefuseCompound
           \/ CreateTable \/ RefuseSchema)
  BY <1>5 DEF ScanWithPredicate, RefusePredicate, ScanWithFilter, RefuseCompound, CreateTable,
              RefuseSchema, Ask
<1> QED BY <1>6, <1>7, <1>8, <1>9, <1>10, <1>11, <1>12, <1>13, <1>14 DEF Next, SelectStep

-----------------------------------------------------------------------------
(* What lists of values are for.                                           *)

(* Assignments are accepted if they name columns, each once and with a      *)
(* value of its type, and stored if it holds that value.                    *)
LEMMA AssignmentsMean ==
  ASSUME NEW r, r.entries \in Entries
  PROVE  /\ AssignmentsResolve(r) <=>
              /\ Range(r.entries) # {}
              /\ Cardinality(NamedBy(r)) = Len(r.entries)
              /\ \A e \in Range(r.entries) : e[1] \in Columns /\ e[2][1] = Schema[e[1]].kind
         /\ AssignmentsResolve(r) =>
              (CanGive(r) <=> \A e \in Range(r.entries) : Holds(e[1], e[2]))
<1>1. /\ Len(r.entries) \in Nat
      /\ NoDuplicates(Names(r)) <=> Cardinality(NamedBy(r)) = Len(r.entries)
      /\ AllMatch(r) <=> \A e \in Range(r.entries) :
                           e[1] \in Columns /\ e[2][1] = Schema[e[1]].kind
      /\ \A c \in NamedBy(r) : <<c, ValueOf(r, c)>> \in Range(r.entries)
      /\ NoDuplicates(Names(r)) => \A e \in Range(r.entries) : ValueOf(r, e[1]) = e[2]
  BY EntriesNamed
<1>2. r.entries = <<>> <=> Range(r.entries) = {}
  <2>1. DOMAIN r.entries = 1 .. Len(r.entries)
    BY DEF Entries
  <2>2. r.entries # <<>> => 1 \in DOMAIN r.entries
    BY <2>1 DEF Entries
  <2>3. r.entries = <<>> => DOMAIN r.entries = {}
    OBVIOUS
  <2> QED BY <2>2, <2>3 DEF Range
<1>3. AssignmentsResolve(r) <=>
        /\ Range(r.entries) # {}
        /\ Cardinality(NamedBy(r)) = Len(r.entries)
        /\ \A e \in Range(r.entries) : e[1] \in Columns /\ e[2][1] = Schema[e[1]].kind
  BY <1>1, <1>2 DEF AssignmentsResolve
<1>4. ASSUME AssignmentsResolve(r)
      PROVE  CanGive(r) <=> \A e \in Range(r.entries) : Holds(e[1], e[2])
  <2>1. /\ \A e \in Range(r.entries) : ValueOf(r, e[1]) = e[2] /\ e[1] \in Columns
        /\ \A e \in Range(r.entries) : e[1] \in NamedBy(r)
        /\ \A c \in NamedBy(r) : \E e \in Range(r.entries) : e[1] = c
    BY <1>1, <1>3, <1>4 DEF AssignmentsResolve, NamedBy
  <2>2. CanGive(r) <=> \A e \in Range(r.entries) : Encodable(e[1], e[2])
    BY <2>1 DEF CanGive
  <2> QED BY <2>1, <2>2, HoldsIsEncodable
<1> QED BY <1>3, <1>4

\* All that is known of the requests that write.
WritesKnown == Given /\ StagesFit /\ PageKept /\ InsertChecked /\ WriteChecked

(* What is known of the writes is inductive. *)
LEMMA WritesAreKnown ==
  /\ Init => WritesKnown
  /\ WritesKnown /\ [Next]_vars => WritesKnown'
BY GivenStays, StagesStayFit, PageIsKept, InsertIsChecked, WriteIsChecked DEF WritesKnown

(* An insert is accepted exactly if every column is given one value that it *)
(* can hold, an update exactly if its filter means something and its values *)
(* are of the types of columns that they name once, and fit them unless     *)
(* there is no row to change (normalize_insert_input,                       *)
(* normalize_assignments, encode_row).                                      *)
THEOREM ListsAreResolved == Spec => []ListsResolve
<1>1. WritesKnown => ListsResolve
  <2> SUFFICES ASSUME WritesKnown PROVE ListsResolve
    OBVIOUS
  <2> DEFINE named == Range(request.entries)
             once == Cardinality({e[1] : e \in named}) = Len(request.entries)
             typed == \A e \in named : e[1] \in Columns /\ e[2][1] = Schema[e[1]].kind
             held == \A e \in named : Holds(e[1], e[2])
  <2>1. IsRequest(request)
    BY DEF WritesKnown, Given
  <2>2. ASSUME request.call = "insert", stage \in {"refused", "answered"}
        PROVE  Answered <=> InsertMeans(request)
    <3>1. Resolves(request) /\ CanStore(request) <=> InsertMeans(request)
      BY <2>1, <2>2, InsertAccepted
    <3> QED BY <2>2, <3>1 DEF WritesKnown, InsertChecked, Answered
  <2>3. InsertMeans(request) <=>
          /\ Len(request.entries) = Len(Schema)
          /\ IF request.named THEN once /\ held
             ELSE \A c \in Columns : Holds(c, request.entries[c][2])
    BY DEF InsertMeans, NamedBy
  <2>4. ASSUME request.call = "update", stage \in {"refused", "answered"}
        PROVE  Answered <=> /\ Meaningful(request.filter)
                            /\ named # {} /\ once /\ typed
                            /\ held \/ FoundBy = {}
    <3>1. Answered <=> WriteAccepted
      BY <2>4 DEF WritesKnown, WriteChecked, IsWrite, Answered
    <3>2. IsFilter(request.filter) /\ request.entries \in Entries
      BY <2>1, <2>4 DEF IsRequest
    <3>3. ColumnsKnown(request.filter) /\ FilterAccepted(request.filter) <=> Meaningful(request.filter)
      BY <3>2, AcceptedIsMeaningful
    <3>4. /\ AssignmentsResolve(request) <=> named # {} /\ once /\ typed
          /\ AssignmentsResolve(request) => (CanGive(request) <=> held)
      BY <3>2, AssignmentsMean DEF NamedBy
    <3> HIDE DEF named, once, typed, held
    <3> QED BY <2>4, <3>1, <3>3, <3>4 DEF WriteAccepted, WritePlanned
  <2> HIDE DEF named, once, typed, held
  <2> QED BY <2>2, <2>3, <2>4 DEF ListsResolve, FoundBy, named, once, typed, held
<1> QED BY <1>1, WritesAreKnown, PTL DEF Spec

-----------------------------------------------------------------------------
(* What a write leaves in the page.                                        *)

\* A page shows the rows that it should have, by slot.
Shows(p, expected) ==
  /\ \A s \in 0 .. Slots - 1 :
       IF expected[s] = NoRow THEN SlotIsFree(p, s)
       ELSE ~SlotIsFree(p, s) /\ DecodeRecord(Record(p, Slots, RowSize, s)) = expected[s]
  /\ LET h == DecodeHeader(p) IN
       /\ HeaderValid(h, Slots)
       /\ h.num_free_slots = Cardinality({s \in 0 .. Slots - 1 : expected[s] = NoRow})
       /\ h.next_free_page = RECORD_PAGE_FULL <=> h.num_free_slots = 0

(* A page shows what its records mean. *)
LEMMA PageShows ==
  ASSUME NEW p, NEW used \in SUBSET SlotIds(Slots), NEW records, PageHolds(p, used, records),
         NEW expected,
         \A s \in used : expected[s] # NoRow /\ DecodeRecord(records[s]) = expected[s],
         \A s \in SlotIds(Slots) \ used : expected[s] = NoRow
  PROVE  Shows(p, expected)
<1>1. /\ HeaderValid(DecodeHeader(p), Slots)
      /\ DecodeHeader(p).num_free_slots = Cardinality(FreeSlots(p, Slots))
      /\ DecodeHeader(p).next_free_page = RECORD_PAGE_FULL <=> FreeSlots(p, Slots) = {}
      /\ FreeSlots(p, Slots) = SlotIds(Slots) \ used
      /\ \A s \in used : Record(p, Slots, RowSize, s) = records[s]
  BY DEF PageHolds, HeaderCounts
<1>2. SlotIds(Slots) = 0 .. Slots - 1 /\ IsFiniteSet(SlotIds(Slots))
  BY PageLayout, FS_Interval
<1>3. FreeSlots(p, Slots) = {s \in 0 .. Slots - 1 : expected[s] = NoRow}
  BY <1>1, <1>2
<1>4. Cardinality(FreeSlots(p, Slots)) = 0 <=> FreeSlots(p, Slots) = {}
  BY <1>1, <1>2, FS_Subset, FS_EmptySet
<1>5. \A s \in 0 .. Slots - 1 : SlotIsFree(p, s) <=> s \notin used
  BY <1>1, <1>2 DEF FreeSlots
<1>6. \A s \in 0 .. Slots - 1 :
        IF expected[s] = NoRow THEN SlotIsFree(p, s)
        ELSE ~SlotIsFree(p, s) /\ DecodeRecord(Record(p, Slots, RowSize, s)) = expected[s]
  BY <1>1, <1>2, <1>5
<1> QED BY <1>1, <1>3, <1>4, <1>6 DEF Shows

\* The parts of Expected.
OldRows ==
  [s \in 0 .. Slots - 1 |-> IF s + 1 \in Places THEN ShownRow(table[s + 1]) ELSE NoRow]
GivenFor(c) ==
  CHOOSE v \in {e[2] : e \in Range(request.entries)} : <<c, v>> \in Range(request.entries)
InColumn(c) == IF ~request.named THEN request.entries[c][2] ELSE GivenFor(c)
ChangedRow(i) ==
  [c \in Columns |-> IF \E e \in Range(request.entries) : e[1] = c
                       THEN Shown(GivenFor(c)) ELSE Shown(table[i][c])]

(* The value that a list gives a column. *)
LEMMA GivenIsValue ==
  ASSUME request.entries \in Entries, NoDuplicates(Names(request)), NEW c \in NamedBy(request)
  PROVE  GivenFor(c) = ValueOf(request, c)
<1> DEFINE named == Range(request.entries)
<1>1. /\ \A e \in named : e = <<e[1], e[2]>>
      /\ \A d \in NamedBy(request) : <<d, ValueOf(request, d)>> \in named
      /\ \A e \in named : ValueOf(request, e[1]) = e[2]
  BY EntriesNamed
<1> HIDE DEF named
<1>2. <<c, ValueOf(request, c)>> \in named
  BY <1>1
<1>3. ValueOf(request, c) \in {e[2] : e \in named}
  <2>1. PICK e \in named : e = <<c, ValueOf(request, c)>>
    BY <1>2
  <2>2. ValueOf(request, c) = e[2]
    BY <2>1
  <2> QED BY <2>2
<1>4. \A v : <<c, v>> \in named => v = ValueOf(request, c)
  <2> SUFFICES ASSUME NEW v, <<c, v>> \in named PROVE v = ValueOf(request, c)
    OBVIOUS
  <2>1. PICK e \in named : e = <<c, v>>
    OBVIOUS
  <2>2. e[1] = c /\ e[2] = v
    BY <2>1
  <2> QED BY <1>1, <2>2
<1> QED BY <1>2, <1>3, <1>4 DEF GivenFor, named

(* The rows that the table has. *)
LEMMA OldRowsAre ==
  ASSUME Given
  PROVE  /\ UsedBy(table) \in SUBSET SlotIds(Slots) /\ SlotIds(Slots) = 0 .. Slots - 1
         /\ \A s \in UsedBy(table) :
              /\ s + 1 \in Places /\ OldRows[s] = ShownRow(table[s + 1]) /\ OldRows[s] # NoRow
              /\ DecodeRecord(EncodeRow(table[s + 1])) = OldRows[s]
              /\ IsRow(table[s + 1])
         /\ \A s \in SlotIds(Slots) \ UsedBy(table) : OldRows[s] = NoRow
<1>1. UsedBy(table) \in SUBSET SlotIds(Slots) /\ SlotIds(Slots) = 0 .. Slots - 1 /\ Slots \in Nat
  BY PageLayout DEF UsedBy
<1>2. ASSUME NEW s \in UsedBy(table)
      PROVE  /\ s + 1 \in Places /\ OldRows[s] = ShownRow(table[s + 1]) /\ OldRows[s] # NoRow
             /\ DecodeRecord(EncodeRow(table[s + 1])) = OldRows[s]
             /\ IsRow(table[s + 1])
  <2>1. s + 1 \in Places /\ IsRow(table[s + 1])
    BY PlacesOfSlots, PageOfHolds DEF Given
  <2>2. OldRows[s] = ShownRow(table[s + 1])
    BY <1>1, <2>1 DEF OldRows
  <2>3. ShownRow(table[s + 1]) # NoRow
    BY <2>1, ShownRowEncoded, TableAssumption
  <2> QED BY <2>1, <2>2, <2>3, RowsReadBack
<1>3. ASSUME NEW s \in SlotIds(Slots) \ UsedBy(table) PROVE OldRows[s] = NoRow
  <2>1. s \in 0 .. Slots - 1 /\ s \in Int
    BY <1>1
  <2>2. s + 1 \notin Places
    <3>1. PICK i \in Int : i = s + 1 /\ i - 1 = s
      BY <2>1
    <3>2. i \in Places => i - 1 \in UsedBy(table)
      BY PlacesOfSlots
    <3> QED BY <3>1, <3>2
  <2> QED BY <2>1, <2>2 DEF OldRows
<1> QED BY <1>1, <1>2, <1>3

(* Nothing was written. *)
LEMMA UnwrittenShows ==
  ASSUME Given, Intact
  PROVE  Shows(page, OldRows)
<1>1. PageHolds(page, UsedBy(table), RecordsOf(table))
  BY DEF Intact
<1>2. \A s \in UsedBy(table) : OldRows[s] # NoRow /\ DecodeRecord(RecordsOf(table)[s]) = OldRows[s]
  BY OldRowsAre DEF RecordsOf
<1> QED BY <1>1, <1>2, OldRowsAre, PageShows

(* An insert. *)
LEMMA InsertShows ==
  ASSUME WritesKnown, request.call = "insert", stage = "answered"
  PROVE  /\ Shows(page, [OldRows EXCEPT ![answer] = [c \in Columns |-> Shown(InColumn(c))]])
         /\ answer + 1 \notin Places
<1>1. Given /\ IsRequest(request) /\ request.entries \in Entries /\ request.named \in BOOLEAN
  BY DEF WritesKnown, Given, IsRequest
<1>2. Resolves(request) /\ CanStore(request) /\ HasInserted(table, request, page, answer)
  BY DEF WritesKnown, InsertChecked
<1>3. IsRow(RowOf(request))
  BY <1>1, <1>2, InsertAccepted
<1>4. \A c \in Columns : InColumn(c) = RowOf(request)[c]
  <2>1. CASE ~request.named
    <3>1. /\ Len(Values(request)) = Len(Schema)
          /\ DOMAIN Values(request) = DOMAIN request.entries
          /\ \A n \in DOMAIN request.entries : Values(request)[n] = request.entries[n][2]
      BY <1>2, <2>1 DEF Resolves, RowResolves, Values
    <3>2. request.entries \in Seq(ColumnNames \X AllValues)
      BY <1>1 DEF Entries
    <3>3. DOMAIN request.entries = 1 .. Len(request.entries)
      BY <3>2
    <3>4. Values(request) \in Seq(AllValues)
      BY <3>2 DEF Values
    <3>5. DOMAIN Values(request) = 1 .. Len(Values(request))
      BY <3>4
    <3>6. Columns = 1 .. Len(Schema)
      BY ColumnTypes
    <3> QED BY <2>1, <3>1, <3>5, <3>6 DEF InColumn, RowOf
  <2>2. CASE request.named
    <3>1. NoDuplicates(Names(request)) /\ Columns \subseteq NamedBy(request)
      BY <1>1, <1>2, <2>2, EntriesNamed DEF Resolves, NamedInsertResolves
    <3>2. \A c \in Columns : GivenFor(c) = ValueOf(request, c)
      BY <1>1, <3>1, GivenIsValue
    <3> QED BY <2>2, <3>2 DEF InColumn, RowOf
  <2> QED BY <1>1, <2>1, <2>2
<1>5. [c \in Columns |-> Shown(InColumn(c))] = ShownRow(RowOf(request))
  BY <1>4 DEF ShownRow
<1>6. /\ answer \in SlotIds(Slots) \ UsedBy(table)
      /\ PageHolds(page, UsedBy(table) \cup {answer}, InsertedTo(table, request, answer))
  BY <1>2 DEF HasInserted
<1> DEFINE expected == [OldRows EXCEPT ![answer] = ShownRow(RowOf(request))]
           records == InsertedTo(table, request, answer)
           used == UsedBy(table) \cup {answer}
<1>7. used \in SUBSET SlotIds(Slots)
  BY <1>1, <1>6, OldRowsAre
<1>8. /\ expected[answer] = ShownRow(RowOf(request))
      /\ \A s \in SlotIds(Slots) \ {answer} : expected[s] = OldRows[s]
  BY <1>1, <1>6, OldRowsAre DEF OldRows
<1>9. /\ records[answer] = EncodeRow(RowOf(request))
      /\ \A s \in UsedBy(table) : records[s] = EncodeRow(table[s + 1])
  BY <1>1, <1>6, OldRowsAre DEF InsertedTo
<1> HIDE DEF expected, records
<1>10. expected[answer] # NoRow /\ DecodeRecord(records[answer]) = expected[answer]
  BY <1>3, <1>8, <1>9, ShownRowEncoded, RowsReadBack, TableAssumption
<1>11. \A s \in used : expected[s] # NoRow /\ DecodeRecord(records[s]) = expected[s]
  BY <1>1, <1>6, <1>8, <1>9, <1>10, OldRowsAre
<1>12. \A s \in SlotIds(Slots) \ used : expected[s] = NoRow
  BY <1>1, <1>8, OldRowsAre
<1>13. PageHolds(page, used, records)
  BY <1>6 DEF records
<1> HIDE DEF used
<1>14. Shows(page, expected)
  BY <1>7, <1>11, <1>12, <1>13, PageShows
<1>15. answer + 1 \notin Places
  <2>1. answer \in Int
    BY <1>6, PageLayout
  <2>2. PICK i \in Int : i = answer + 1 /\ i - 1 = answer
    BY <2>1
  <2>3. i \in Places => i - 1 \in UsedBy(table)
    BY <1>1, PlacesOfSlots
  <2> QED BY <1>6, <2>2, <2>3
<1> QED BY <1>5, <1>14, <1>15 DEF expected

(* An update. *)
LEMMA UpdateShows ==
  ASSUME WritesKnown, request.call = "update", stage = "answered"
  PROVE  Shows(page, [s \in DOMAIN OldRows |->
                        IF s + 1 \in FoundBy THEN ChangedRow(s + 1) ELSE OldRows[s]])
<1>1. Given /\ IsRequest(request) /\ request.entries \in Entries /\ IsFilter(request.filter)
  BY DEF WritesKnown, Given, IsRequest
<1>2. WriteAccepted /\ PageHolds(page, UsedBy(table), ChangedTo(table, request, SlotsOf(FoundBy)))
  BY DEF WritesKnown, WriteChecked, IsWrite, HasWritten
<1>3. AssignmentsResolve(request) /\ (CanGive(request) \/ FoundBy = {})
  BY <1>2 DEF WriteAccepted, WritePlanned
<1>4. FoundBy \in SUBSET Places
  BY DEF FoundBy, Satisfying
<1> DEFINE expected == [s \in DOMAIN OldRows |->
                          IF s + 1 \in FoundBy THEN ChangedRow(s + 1) ELSE OldRows[s]]
           used == UsedBy(table)
           records == ChangedTo(table, request, SlotsOf(FoundBy))
<1>5. /\ used \in SUBSET SlotIds(Slots)
      /\ \A s \in SlotIds(Slots) :
           expected[s] = IF s + 1 \in FoundBy THEN ChangedRow(s + 1) ELSE OldRows[s]
  BY <1>1, OldRowsAre DEF OldRows
<1>6. \A s \in SlotIds(Slots) : s \in SlotsOf(FoundBy) <=> s + 1 \in FoundBy
  BY <1>1, <1>4, SlotsOfPlaces
<1>7. ASSUME NEW s \in used, s + 1 \in FoundBy
      PROVE  expected[s] # NoRow /\ DecodeRecord(records[s]) = expected[s]
  <2>1. s \in SlotIds(Slots) /\ IsRow(table[s + 1])
    BY <1>1, <1>5, OldRowsAre
  <2>2. records[s] = EncodeRow(Changed(request, ShownRow(table[s + 1])))
    BY <1>6, <1>7, <2>1 DEF ChangedTo
  <2>3. CanGive(request)
    BY <1>3, <1>7
  <2> DEFINE row == table[s + 1]
             new == Changed(request, ShownRow(row))
  <2>4. IsRow(new)
    BY <1>1, <1>3, <2>1, <2>3, RowIsChanged
  <2>5. ShownRow(new) = ChangedRow(s + 1)
    <3>1. \A c : (\E e \in Range(request.entries) : e[1] = c) <=> c \in NamedBy(request)
      BY DEF NamedBy
    <3>2. ASSUME NEW c \in Columns
          PROVE  Shown(new[c]) = IF c \in NamedBy(request) THEN Shown(GivenFor(c)) ELSE Shown(row[c])
      <4>1. /\ Shown(Shown(row[c])) = Shown(row[c]) /\ ShownRow(row)[c] = Shown(row[c])
        BY <2>1, ShownValue DEF IsRow, ShownRow
      <4>2. new[c] = IF c \in NamedBy(request) THEN ValueOf(request, c) ELSE Shown(row[c])
        BY <4>1 DEF Changed
      <4>3. c \in NamedBy(request) => GivenFor(c) = ValueOf(request, c)
        BY <1>1, <1>3, GivenIsValue DEF AssignmentsResolve
      <4> HIDE DEF new, row
      <4> QED BY <4>1, <4>2, <4>3
    <3> HIDE DEF new
    <3>3. ShownRow(new) = [c \in Columns |-> Shown(new[c])]
      BY DEF ShownRow
    <3>4. ChangedRow(s + 1) =
            [c \in Columns |-> IF c \in NamedBy(request) THEN Shown(GivenFor(c)) ELSE Shown(row[c])]
      BY <3>1 DEF ChangedRow
    <3> HIDE DEF row
    <3> QED BY <3>2, <3>3, <3>4
  <2> HIDE DEF new
  <2>6. ShownRow(new) # NoRow /\ DecodeRecord(EncodeRow(new)) = ShownRow(new)
    BY <2>4, ShownRowEncoded, RowsReadBack, TableAssumption
  <2>7. records[s] = EncodeRow(new) /\ expected[s] = ShownRow(new)
    BY <1>5, <1>7, <2>1, <2>2, <2>5 DEF new
  <2> HIDE DEF records, expected
  <2> QED BY <2>6, <2>7
<1>8. ASSUME NEW s \in used, s + 1 \notin FoundBy
      PROVE  expected[s] # NoRow /\ DecodeRecord(records[s]) = expected[s]
  <2>1. /\ s \in SlotIds(Slots) /\ OldRows[s] # NoRow
        /\ DecodeRecord(EncodeRow(table[s + 1])) = OldRows[s]
    BY <1>1, OldRowsAre
  <2>2. records[s] = EncodeRow(table[s + 1])
    BY <1>6, <1>8, <2>1 DEF ChangedTo
  <2> HIDE DEF records
  <2> QED BY <1>5, <1>8, <2>1, <2>2
<1>9. ASSUME NEW s \in SlotIds(Slots) \ used PROVE expected[s] = NoRow
  <2>1. s + 1 \notin FoundBy
    <3>1. s \notin SlotsOf(FoundBy)
      BY <1>1, <1>4, SlotsOfPlaces
    <3> QED BY <1>6, <3>1
  <2> QED BY <1>1, <1>5, <2>1, OldRowsAre
<1> HIDE DEF expected, records
<1>10. PageHolds(page, used, records)
  BY <1>2 DEF records
<1> HIDE DEF used
<1>11. /\ \A s \in used : expected[s] # NoRow /\ DecodeRecord(records[s]) = expected[s]
       /\ \A s \in SlotIds(Slots) \ used : expected[s] = NoRow
  BY <1>7, <1>8, <1>9
<1>12. Shows(page, expected)
  BY <1>5, <1>10, <1>11, PageShows
<1> QED BY <1>12 DEF expected

(* A delete. *)
LEMMA DeleteShows ==
  ASSUME WritesKnown, request.call = "delete", stage = "answered"
  PROVE  Shows(page, [s \in DOMAIN OldRows |->
                        IF s + 1 \in FoundBy THEN NoRow ELSE OldRows[s]])
<1>1. Given
  BY DEF WritesKnown
<1>2. PageHolds(page, UsedBy(table) \ SlotsOf(FoundBy), RecordsOf(table))
  BY DEF WritesKnown, WriteChecked, IsWrite, HasWritten
<1>3. FoundBy \in SUBSET Places
  BY DEF FoundBy, Satisfying
<1> DEFINE expected == [s \in DOMAIN OldRows |-> IF s + 1 \in FoundBy THEN NoRow ELSE OldRows[s]]
           used == UsedBy(table) \ SlotsOf(FoundBy)
<1>4. /\ used \in SUBSET SlotIds(Slots)
      /\ \A s \in SlotIds(Slots) :
           expected[s] = IF s + 1 \in FoundBy THEN NoRow ELSE OldRows[s]
  BY <1>1, OldRowsAre DEF OldRows
<1>5. \A s \in SlotIds(Slots) : s \in SlotsOf(FoundBy) <=> s + 1 \in FoundBy
  BY <1>1, <1>3, SlotsOfPlaces
<1> HIDE DEF expected
<1>6. ASSUME NEW s \in used
      PROVE  expected[s] # NoRow /\ DecodeRecord(RecordsOf(table)[s]) = expected[s]
  <2>1. /\ s \in SlotIds(Slots) /\ OldRows[s] # NoRow
        /\ DecodeRecord(EncodeRow(table[s + 1])) = OldRows[s]
    BY <1>1, OldRowsAre
  <2>2. RecordsOf(table)[s] = EncodeRow(table[s + 1])
    BY <2>1 DEF RecordsOf
  <2> QED BY <1>4, <1>5, <2>1, <2>2
<1>7. \A s \in SlotIds(Slots) \ used : expected[s] = NoRow
  BY <1>1, <1>4, <1>5, OldRowsAre
<1> HIDE DEF used
<1>8. Shows(page, expected)
  BY <1>2, <1>4, <1>6, <1>7, PageShows DEF used
<1> QED BY <1>8 DEF expected

(* After a request the page shows the rows that it means: an insert has     *)
(* taken a free slot, an update has changed the rows that satisfy its       *)
(* filter, and nothing else of them than it names, a delete has removed     *)
(* those, a refused request has changed nothing, and the header counts the  *)
(* free slots (Table::insert, update_where, delete_where, encode_row,       *)
(* decode_record and the record file's update of bytes and bits).           *)
THEOREM WritesAreAsNamed == Spec => []WritesChangeWhatTheyName
<1>1. WritesKnown => WritesChangeWhatTheyName
  <2> SUFFICES ASSUME WritesKnown PROVE WritesChangeWhatTheyName
    OBVIOUS
  <2>1. Expected =
          IF ~Answered THEN OldRows
          ELSE CASE request.call = "insert" ->
                      [OldRows EXCEPT ![answer] = [c \in Columns |-> Shown(InColumn(c))]]
                 [] request.call = "update" ->
                      [s \in DOMAIN OldRows |->
                         IF s + 1 \in FoundBy THEN ChangedRow(s + 1) ELSE OldRows[s]]
                 [] request.call = "delete" ->
                      [s \in DOMAIN OldRows |-> IF s + 1 \in FoundBy THEN NoRow ELSE OldRows[s]]
                 [] OTHER -> OldRows
    BY Zenon DEF Expected, OldRows, GivenFor, InColumn, ChangedRow, FoundBy
  <2>2. Shows(page, Expected)
    <3>1. CASE ~Answered \/ request.call \notin {"insert", "update", "delete"}
      <4>1. Given /\ Intact
        BY <3>1 DEF WritesKnown, PageKept, Written, Answered
      <4>2. Expected = OldRows
        BY <2>1, <3>1
      <4> QED BY <4>1, <4>2, UnwrittenShows
    <3>2. CASE Answered /\ request.call = "insert"
      <4>1. Expected = [OldRows EXCEPT ![answer] = [c \in Columns |-> Shown(InColumn(c))]]
        BY <2>1, <3>2
      <4> QED BY <3>2, <4>1, InsertShows DEF Answered
    <3>3. CASE Answered /\ request.call = "update"
      <4>1. Expected = [s \in DOMAIN OldRows |->
                          IF s + 1 \in FoundBy THEN ChangedRow(s + 1) ELSE OldRows[s]]
        BY <2>1, <3>3
      <4> QED BY <3>3, <4>1, UpdateShows DEF Answered
    <3>4. CASE Answered /\ request.call = "delete"
      <4>1. Expected = [s \in DOMAIN OldRows |-> IF s + 1 \in FoundBy THEN NoRow ELSE OldRows[s]]
        BY <2>1, <3>4
      <4> QED BY <3>4, <4>1, DeleteShows DEF Answered
    <3> QED BY <3>1, <3>2, <3>3, <3>4
  <2>3. Answered /\ request.call = "insert" => ~(answer + 1 \in Places)
    BY InsertShows DEF Answered
  <2>4. Answered /\ request.call \in {"update", "delete"} =>
          answer = Cardinality(Satisfying(request.filter))
    BY DEF WritesKnown, WriteChecked, IsWrite, HasWritten, FoundBy, Answered
  <2> HIDE DEF Expected
  <2> QED BY <2>2, <2>3, <2>4 DEF WritesChangeWhatTheyName, Shows
<1> QED BY <1>1, WritesAreKnown, PTL DEF Spec

-----------------------------------------------------------------------------
(* Scans of the record layer.                                              *)

\* What a scan returns for slots of a table.
RowsFor(t, slots) == [n \in 1 .. Cardinality(slots) |-> ShownRow(t[Ascending(slots)[n] + 1])]

(* A scan returns the rows of its slots. *)
LEMMA RowsAreRead ==
  ASSUME Given, Intact, NEW slots \in SUBSET UsedBy(table)
  PROVE  RowsAt(slots) = RowsFor(table, slots)
<1>1. /\ UsedBy(table) \in SUBSET SlotIds(Slots)
      /\ \A s \in UsedBy(table) : DecodeRecord(RecordAt(s)) = ShownRow(table[s + 1])
  BY SlotsRead
<1>2. \A n \in 1 .. Cardinality(slots) : Ascending(slots)[n] \in slots
  BY <1>1, AscendingLists
<1>3. \A n \in 1 .. Cardinality(slots) :
        DecodeRecord(RecordAt(Ascending(slots)[n])) = ShownRow(table[Ascending(slots)[n] + 1])
  BY <1>1, <1>2
<1> QED BY <1>3 DEF RowsAt, RowsFor

(* Those of the rows at some places are the rows at these places. *)
LEMMA RowsOfPlaces ==
  ASSUME Given, NEW found \in SUBSET Places
  PROVE  Range(RowsFor(table, SlotsOf(found))) = {ShownRow(table[i]) : i \in found}
<1> DEFINE slots == SlotsOf(found)
           k == Cardinality(slots)
           list == Ascending(slots)
<1>1. /\ slots \in SUBSET SlotIds(Slots)
      /\ \A i \in found : i - 1 \in slots /\ i - 1 + 1 = i
      /\ \A s \in slots : s + 1 \in found
  <2>1. slots \in SUBSET UsedBy(table) /\ \A s \in SlotIds(Slots) : s \in slots <=> s + 1 \in found
    BY SlotsOfPlaces
  <2>2. \A i \in found : i - 1 + 1 = i
    BY PlacesOfSlots
  <2> QED BY <2>1, <2>2 DEF UsedBy, SlotsOf
<1> HIDE DEF slots
<1>2. /\ \A n \in 1 .. k : list[n] \in slots
      /\ \A s \in slots : \E n \in 1 .. k : list[n] = s
  BY <1>1, AscendingLists
<1> HIDE DEF k, list
<1>3. RowsFor(table, slots) = [n \in 1 .. k |-> ShownRow(table[list[n] + 1])]
  BY DEF RowsFor, k, list
<1>4. \A row : row \in Range(RowsFor(table, slots)) <=>
                 \E n \in 1 .. k : row = ShownRow(table[list[n] + 1])
  BY <1>3 DEF Range
<1>5. \A row : (\E n \in 1 .. k : row = ShownRow(table[list[n] + 1])) <=>
                 \E s \in slots : row = ShownRow(table[s + 1])
  BY <1>2
<1>6. \A row : (\E s \in slots : row = ShownRow(table[s + 1])) <=>
                 \E i \in found : row = ShownRow(table[i])
  BY <1>1
<1>7. \A row : row \in Range(RowsFor(table, slots)) <=> \E i \in found : row = ShownRow(table[i])
  BY <1>4, <1>5, <1>6
<1> QED BY <1>7 DEF slots

\* The slots whose bytes match.
PredicateHits(t, p) == {s \in UsedBy(t) : PredicateMatches(p, EncodeRow(t[s + 1]))}
FilterHits(t, f) == {s \in UsedBy(t) : FilterMatches(f, EncodeRow(t[s + 1]))}

(* A scan looks at the bytes of the rows. *)
LEMMA HitsAreRead ==
  ASSUME Given, Intact, NEW p, NEW f
  PROVE  /\ {s \in Used : PredicateMatches(p, RecordAt(s))} = PredicateHits(table, p)
         /\ {s \in Used : FilterMatches(f, RecordAt(s))} = FilterHits(table, f)
<1>1. Used = UsedBy(table) /\ \A s \in UsedBy(table) : RecordAt(s) = EncodeRow(table[s + 1])
  BY SlotsRead
<1> QED BY <1>1 DEF PredicateHits, FilterHits

ScanChecked ==
  /\ request.call = "predicate" =>
       /\ stage \in {"check", "answered", "refused"}
       /\ stage = "refused" => ~PredicateValid(request.predicate, RowSize)
       /\ stage = "answered" =>
            /\ PredicateValid(request.predicate, RowSize)
            /\ answer = RowsFor(table, PredicateHits(table, request.predicate))
  /\ request.call = "filter" =>
       /\ stage \in {"check", "answered", "refused"}
       /\ stage = "refused" => ~FilterValid(request.filter, RowSize)
       /\ stage = "answered" =>
            /\ FilterValid(request.filter, RowSize)
            /\ answer = RowsFor(table, FilterHits(table, request.filter))

(* A scan answers with what its predicate or its clauses match. *)
LEMMA ScanIsChecked ==
  /\ Init => ScanChecked
  /\ Given /\ PageKept /\ ScanChecked /\ [Next]_vars => ScanChecked'
<1>1. Init => ScanChecked
  BY DEF Init, ScanChecked
<1> SUFFICES ASSUME Given, PageKept, ScanChecked, [Next]_vars,
                    request.call \in {"predicate", "filter"}
             PROVE  ScanChecked'
  BY <1>1, GivenStays DEF ScanChecked
<1>2. UNCHANGED <<request, table>>
  BY GivenStays
<1>3. Intact
  BY DEF PageKept, Written
<1>4. stage \in {"check", "answered", "refused"}
  BY DEF ScanChecked
<1>5. CASE ScanWithPredicate
  <2>1. /\ request.call = "predicate" /\ stage' = "answered"
        /\ PredicateValid(request.predicate, RowSize)
        /\ answer' = RowsAt({s \in Used : PredicateMatches(request.predicate, RecordAt(s))})
    BY <1>5 DEF ScanWithPredicate, Ask, End
  <2>2. answer' = RowsAt(PredicateHits(table, request.predicate))
    BY <1>3, <2>1, HitsAreRead
  <2>3. answer' = RowsFor(table, PredicateHits(table, request.predicate))
    BY <1>3, <2>2, RowsAreRead DEF PredicateHits
  <2> QED BY <1>2, <2>1, <2>3 DEF ScanChecked
<1>6. CASE RefusePredicate
  <2>1. /\ request.call = "predicate" /\ stage' = "refused"
        /\ ~PredicateValid(request.predicate, RowSize)
    BY <1>6 DEF RefusePredicate, Ask, Refuse, End
  <2> QED BY <1>2, <2>1 DEF ScanChecked
<1>7. CASE ScanWithFilter
  <2>1. /\ request.call = "filter" /\ stage' = "answered"
        /\ FilterValid(request.filter, RowSize)
        /\ answer' = RowsAt({s \in Used : FilterMatches(request.filter, RecordAt(s))})
    BY <1>7 DEF ScanWithFilter, Ask, End
  <2>2. answer' = RowsAt(FilterHits(table, request.filter))
    BY <1>3, <2>1, HitsAreRead
  <2>3. answer' = RowsFor(table, FilterHits(table, request.filter))
    BY <1>3, <2>2, RowsAreRead DEF FilterHits
  <2> QED BY <1>2, <2>1, <2>3 DEF ScanChecked
<1>8. CASE RefuseCompound
  <2>1. /\ request.call = "filter" /\ stage' = "refused" /\ ~FilterValid(request.filter, RowSize)
    BY <1>8 DEF RefuseCompound, Ask, Refuse, End
  <2> QED BY <1>2, <2>1 DEF ScanChecked
<1>9. CASE UNCHANGED vars
  BY <1>2, <1>9 DEF vars, ScanChecked
<1>10. ~SelectStep
  BY <1>4 DEF SelectStep, RefuseSelect, CheckSelect, Lookup, Scan, RefuseFilter, ApplyOrderBy,
              ApplyLimit, Project, Ask, Stage
<1>11. ~(ResolveInsert \/ RefuseInsert \/ ResolveWrite \/ RefuseWrite)
  BY DEF ResolveInsert, RefuseInsert, ResolveWrite, RefuseWrite, Ask
<1>12. ~(Insert \/ RefuseRow \/ UpdateWhere \/ DeleteWhere \/ RefuseWhere)
  BY <1>4 DEF Insert, RefuseRow, UpdateWhere, DeleteWhere, RefuseWhere
<1>13. ~(CreateTable \/ RefuseSchema)
  BY DEF CreateTable, RefuseSchema, Ask
<1> QED BY <1>5, <1>6, <1>7, <1>8, <1>9, <1>10, <1>11, <1>12, <1>13 DEF Next, SelectStep

(* A field that lies where a column does is compared like the column. *)
LEMMA FieldMeans ==
  ASSUME NEW row, IsRow(row), NEW offset, NEW type, NEW c \in ColumnAt(offset, type),
         NEW v \in AllValues, Comparable(offset, type, v), NEW op \in Operators
  PROVE  Compare(type.kind, FieldOf(EncodeRow(row), Field(offset, type)), op, v[2])
           <=> Related(row[c], op, v)
<1>1. c \in Columns /\ Schema[c] = type /\ Field(offset, type) = FieldOfColumn(c)
  BY DEF ColumnAt, FieldOfColumn
<1>2. v[1] = Schema[c].kind /\ (v[1] = "Char" => Len(v[2]) = Schema[c].len)
  BY <1>1 DEF Comparable
<1>3. PICK len \in Nat : len = Schema[c].len
  BY <1>1, ColumnTypes
<1>4. Encodable(c, v)
  BY <1>2, <1>3 DEF Encodable, MatchesType
<1>5. ScanValue(c, v)[2] = v[2]
  <2>1. CASE v[1] = "Char"
    <3>1. PICK text \in Seq(Bytes) : text = v[2] /\ Len(text) = len
      BY <1>2, <1>3, <2>1, ValueKinds
    <3>2. /\ Padded(text, len) \in Seq(Bytes) /\ Len(Padded(text, len)) = len
          /\ \A n \in 1 .. len : Padded(text, len)[n] = Digit(text, n)
      BY <1>3, <3>1, PaddedDigits
    <3>3. \A n \in 1 .. len : Digit(text, n) = text[n]
      BY <3>1 DEF Digit
    <3>4. \A n \in 1 .. len : Padded(text, len)[n] = text[n]
      BY <3>2, <3>3
    <3>5. Padded(text, len) = text
      BY <3>1, <3>2, <3>4, SeqEqual
    <3> QED BY <1>3, <2>1, <3>1, <3>5 DEF ScanValue
  <2>2. CASE v[1] # "Char"
    BY <2>2 DEF ScanValue
  <2> QED BY <2>1, <2>2
<1>6. Compare(Schema[c].kind, FieldOf(EncodeRow(row), FieldOfColumn(c)), op, ScanValue(c, v)[2])
        <=> Related(row[c], op, v)
  BY <1>1, <1>4, FieldCompared
<1> QED BY <1>1, <1>5, <1>6

\* A comparison of a field with a value, and that it compares nothing.
Compares(offset, type, op, v, record) ==
  op # "NoOp" => Compare(type.kind, FieldOf(record, Field(offset, type)), op, v[2])
Proper(offset, type, op, v) == op = "NoOp" \/ Comparable(offset, type, v)
OnColumn(offset, type, op) == op = "NoOp" \/ ColumnAt(offset, type) # {}

(* A proper comparison of a column hits the rows that it means. *)
LEMMA ComparisonHits ==
  ASSUME NEW i, IsRow(table[i]), NEW offset, NEW type, NEW op \in Operators, NEW v,
         op # "NoOp" => v \in AllValues, Proper(offset, type, op, v), OnColumn(offset, type, op)
  PROVE  Compares(offset, type, op, v, EncodeRow(table[i]))
           <=> \A c \in ColumnAt(offset, type) : Related(table[i][c], op, v)
<1>1. CASE op = "NoOp"
  BY <1>1 DEF Compares, Related
<1>2. CASE op # "NoOp"
  <2>1. v \in AllValues /\ Comparable(offset, type, v) /\ ColumnAt(offset, type) # {}
    BY <1>2 DEF Proper, OnColumn
  <2>2. \A c \in ColumnAt(offset, type) :
          Compare(type.kind, FieldOf(EncodeRow(table[i]), Field(offset, type)), op, v[2])
            <=> Related(table[i][c], op, v)
    <3> SUFFICES ASSUME NEW c \in ColumnAt(offset, type)
                 PROVE  Compare(type.kind, FieldOf(EncodeRow(table[i]), Field(offset, type)), op, v[2])
                          <=> Related(table[i][c], op, v)
      OBVIOUS
    <3>1. PICK row : row = table[i] /\ IsRow(row)
      OBVIOUS
    <3>2. Compare(type.kind, FieldOf(EncodeRow(row), Field(offset, type)), op, v[2])
            <=> Related(row[c], op, v)
      BY <2>1, <3>1, FieldMeans
    <3> QED BY <3>1, <3>2
  <2> QED BY <1>2, <2>1, <2>2 DEF Compares
<1> QED BY <1>1, <1>2

(* A predicate is valid if it compares nothing, or a field in the record    *)
(* with a value of its kind and length.                                     *)
LEMMA PredicateIsProper ==
  ASSUME NEW p, p \in [offset : Nat, type : FieldTypes, op : Operators,
                       value : AllValues \cup {NoValue}]
  PROVE  /\ PredicateValid(p, RowSize) <=> Proper(p.offset, p.type, p.op, p.value)
         /\ PredicateValid(p, RowSize) /\ p.op # "NoOp" => p.value \in AllValues
         /\ \A record : PredicateMatches(p, record)
                          <=> Compares(p.offset, p.type, p.op, p.value, record)
<1>1. p.type.kind \in {"Int32", "Float32", "Char"}
  BY DEF FieldTypes, Int32, Float32
<1>2. NoValue[1] = "none"
  BY DEF NoValue
<1>3. PredicateValid(p, RowSize) <=> Proper(p.offset, p.type, p.op, p.value)
  BY <1>1, <1>2 DEF PredicateValid, Proper, Comparable
<1>4. PredicateValid(p, RowSize) /\ p.op # "NoOp" => p.value \in AllValues
  BY DEF PredicateValid
<1>5. \A record : PredicateMatches(p, record)
                    <=> Compares(p.offset, p.type, p.op, p.value, record)
  BY DEF PredicateMatches, Compares
<1> QED BY <1>3, <1>4, <1>5

(* Places whose bytes are hit. *)
LEMMA HitsArePlaces ==
  ASSUME Given, NEW found \in SUBSET Places, NEW hits \in SUBSET UsedBy(table),
         \A s \in UsedBy(table) : s \in hits <=> s + 1 \in found
  PROVE  hits = SlotsOf(found)
<1>1. /\ SlotsOf(found) \in SUBSET UsedBy(table)
      /\ \A s \in SlotIds(Slots) : s \in SlotsOf(found) <=> s + 1 \in found
  BY SlotsOfPlaces
<1> QED BY <1>1 DEF UsedBy

(* scan_with_predicate. *)
LEMMA PredicateReturns ==
  ASSUME Given, NEW p, p \in [offset : Nat, type : FieldTypes, op : Operators,
                              value : AllValues \cup {NoValue}],
         PredicateValid(p, RowSize), OnColumn(p.offset, p.type, p.op)
  PROVE  Range(RowsFor(table, PredicateHits(table, p))) =
           {ShownRow(table[i]) : i \in PlacesWith(p.offset, p.type, p.op, p.value)}
<1> DEFINE found == PlacesWith(p.offset, p.type, p.op, p.value)
<1>1. found \in SUBSET Places
  BY DEF PlacesWith
<1>2. ASSUME NEW s \in UsedBy(table) PROVE s \in PredicateHits(table, p) <=> s + 1 \in found
  <2>1. s + 1 \in Places /\ IsRow(table[s + 1])
    BY PlacesOfSlots, PageOfHolds DEF Given
  <2>2. PICK i \in Places : i = s + 1 /\ IsRow(table[i])
    BY <2>1
  <2>3. p.op \in Operators
    OBVIOUS
  <2>4. /\ p.op # "NoOp" => p.value \in AllValues
        /\ Proper(p.offset, p.type, p.op, p.value)
        /\ PredicateMatches(p, EncodeRow(table[i]))
             <=> Compares(p.offset, p.type, p.op, p.value, EncodeRow(table[i]))
    BY PredicateIsProper
  <2>5. Compares(p.offset, p.type, p.op, p.value, EncodeRow(table[i]))
          <=> \A c \in ColumnAt(p.offset, p.type) : Related(table[i][c], p.op, p.value)
    <3> HIDE DEF found
    <3>1. PICK offset, type, v : offset = p.offset /\ type = p.type /\ v = p.value
      OBVIOUS
    <3>2. PICK op \in Operators :
            offset = p.offset /\ type = p.type /\ op = p.op /\ v = p.value
      BY <2>3, <3>1
    <3>3. /\ op # "NoOp" => v \in AllValues
          /\ Proper(offset, type, op, v) /\ OnColumn(offset, type, op)
      BY <2>4, <3>2
    <3>4. Compares(offset, type, op, v, EncodeRow(table[i]))
            <=> \A c \in ColumnAt(offset, type) : Related(table[i][c], op, v)
      BY <2>2, <3>3, ComparisonHits
    <3> QED BY <3>2, <3>4
  <2>6. i \in found <=> \A c \in ColumnAt(p.offset, p.type) : Related(table[i][c], p.op, p.value)
    BY <2>2 DEF PlacesWith
  <2>7. s \in PredicateHits(table, p) <=> PredicateMatches(p, EncodeRow(table[i]))
    BY <2>2 DEF PredicateHits
  <2> HIDE DEF found
  <2> QED BY <2>2, <2>4, <2>5, <2>6, <2>7
<1> HIDE DEF found
<1>3. PredicateHits(table, p) \in SUBSET UsedBy(table)
  BY DEF PredicateHits
<1>4. PredicateHits(table, p) = SlotsOf(found)
  BY <1>1, <1>2, <1>3, HitsArePlaces
<1> QED BY <1>1, <1>4, RowsOfPlaces DEF found

\* The clauses of a list.
ClausesOf(f) == {f[n] : n \in 1 .. Len(f) - 1}
ClauseProper(c) == Proper(c.lhs.offset, c.lhs.type, c.op, c.rhs)
ClauseOnColumn(c) == OnColumn(c.lhs.offset, c.lhs.type, c.op)
PlacesOfClause(c) == PlacesWith(c.lhs.offset, c.lhs.type, c.op, c.rhs)
PlacesOfAll(f) == {j \in Places : \A c \in ClausesOf(f) : j \in PlacesOfClause(c)}

(* A list of clauses has something to look at in every clause, and the And  *)
(* behind them.                                                             *)
LEMMA CompoundNodes ==
  ASSUME NEW f, IsCompound(f)
  PROVE  /\ Len(f) \in Nat \ {0} /\ DOMAIN f = 1 .. Len(f)
         /\ \A n \in 1 .. Len(f) - 1 :
              /\ IsClause(f[n]) /\ f[n].kind = "value" /\ f[n].op \in Operators
              /\ f[n].rhs \in AllValues
              /\ f[n].lhs \in [offset : Nat, type : FieldTypes]
         /\ ~IsClause(f[Len(f)]) /\ f[Len(f)].kind = "and"
         /\ f[Len(f)].children = 1 .. Len(f) - 1
<1>1. f \in Seq(Range(f)) /\ f # <<>>
  BY DEF IsCompound
<1>2. Len(f) \in Nat \ {0} /\ DOMAIN f = 1 .. Len(f)
  <2>1. PICK S : f \in Seq(S)
    BY <1>1
  <2> QED BY <1>1, <2>1
<1> QED BY <1>2 DEF IsCompound, IsClause

(* It is valid if there are clauses and all are. *)
LEMMA CompoundIsProper ==
  ASSUME NEW f, IsCompound(f)
  PROVE  FilterValid(f, RowSize) <=>
           ClausesOf(f) # {} /\ \A c \in ClausesOf(f) : ClauseProper(c)
<1>1. PICK k \in Nat \ {0} : k = Len(f)
  BY CompoundNodes
<1>2. \A n \in 1 .. k - 1 : n \in 1 .. k /\ n # k
  OBVIOUS
<1>3. \A n \in 1 .. k : n \in 1 .. k - 1 \/ n = k
  OBVIOUS
<1>4. ASSUME NEW n \in 1 .. k - 1 PROVE ClauseValid(f[n], RowSize) <=> ClauseProper(f[n])
  <2>1. /\ f[n].kind = "value" /\ f[n].op \in Operators /\ f[n].rhs \in AllValues
        /\ f[n].lhs \in [offset : Nat, type : FieldTypes]
    BY <1>1, CompoundNodes
  <2>2. f[n].lhs.type.kind \in {"Int32", "Float32"} => f[n].lhs.type.len = 4
    BY <2>1 DEF FieldTypes, Int32, Float32
  <2> QED BY <2>1, <2>2 DEF ClauseValid, FieldValid, ValueValid, ClauseProper, Proper, Comparable
<1>5. FilterValid(f, RowSize) <=>
        1 .. k - 1 # {} /\ \A n \in 1 .. k - 1 : ClauseValid(f[n], RowSize)
  <2>1. ASSUME NEW n \in 1 .. k - 1 PROVE IsClause(f[n])
    BY <1>1, CompoundNodes
  <2>2. ~IsClause(f[k]) /\ f[k].children = 1 .. k - 1 /\ DOMAIN f = 1 .. k /\ k \in 1 .. k
    BY <1>1, CompoundNodes
  <2> QED BY <1>2, <1>3, <2>1, <2>2 DEF FilterValid
<1>6. /\ ClausesOf(f) # {} <=> 1 .. k - 1 # {}
      /\ (\A c \in ClausesOf(f) : ClauseProper(c)) <=> \A n \in 1 .. k - 1 : ClauseProper(f[n])
  BY <1>1 DEF ClausesOf
<1> QED BY <1>4, <1>5, <1>6

(* It matches bytes that every clause matches. *)
LEMMA CompoundMatches ==
  ASSUME NEW f, IsCompound(f), NEW record
  PROVE  FilterMatches(f, record) <=>
           \A c \in ClausesOf(f) : Compares(c.lhs.offset, c.lhs.type, c.op, c.rhs, record)
<1>1. PICK k \in Nat \ {0} : k = Len(f) /\ DOMAIN f = 1 .. k
  BY CompoundNodes
<1>2. \A n \in 1 .. k : n \in 1 .. k - 1 \/ n = k
  OBVIOUS
<1>3. Nested(f)
  BY <1>1, <1>2, CompoundNodes DEF Nested
<1> DEFINE T == MatchingNodes(f, record)[Len(f)]
<1>4. /\ \A n \in 1 .. k : n \in T <=> NodeMatches(f[n], record, T)
      /\ FilterMatches(f, record) <=> k \in T
  BY <1>1, <1>3, MatchingNodesAre
<1> HIDE DEF T
<1>5. k \in T <=> \A n \in 1 .. k - 1 : n \in T
  <2>1. f[k].kind = "and" /\ ~IsClause(f[k]) /\ f[k].children = 1 .. k - 1 /\ k \in 1 .. k
    BY <1>1, CompoundNodes
  <2>2. NodeMatches(f[k], record, T) <=> 1 .. k - 1 \subseteq T
    BY <2>1 DEF NodeMatches
  <2> QED BY <1>4, <2>1, <2>2
<1>6. ASSUME NEW n \in 1 .. k - 1
      PROVE  n \in T <=> Compares(f[n].lhs.offset, f[n].lhs.type, f[n].op, f[n].rhs, record)
  <2>1. /\ IsClause(f[n]) /\ f[n].kind = "value" /\ n \in 1 .. k
        /\ f[n].lhs \in [offset : Nat, type : FieldTypes]
    BY <1>1, CompoundNodes
  <2>2. NodeMatches(f[n], record, T) <=> ClauseMatches(f[n], record)
    BY <2>1 DEF NodeMatches, IsClause
  <2>3. Field(f[n].lhs.offset, f[n].lhs.type) = f[n].lhs
    BY <2>1 DEF Field
  <2>4. ClauseMatches(f[n], record)
          <=> Compares(f[n].lhs.offset, f[n].lhs.type, f[n].op, f[n].rhs, record)
    BY <2>1, <2>3 DEF ClauseMatches, Compares
  <2> QED BY <1>4, <2>1, <2>2, <2>4
<1>7. (\A c \in ClausesOf(f) : Compares(c.lhs.offset, c.lhs.type, c.op, c.rhs, record))
        <=> \A n \in 1 .. k - 1 :
              Compares(f[n].lhs.offset, f[n].lhs.type, f[n].op, f[n].rhs, record)
  BY <1>1 DEF ClausesOf
<1> QED BY <1>4, <1>5, <1>6, <1>7

(* scan_with_filter. *)
LEMMA CompoundReturns ==
  ASSUME Given, NEW f, IsCompound(f), FilterValid(f, RowSize),
         \A c \in ClausesOf(f) : ClauseOnColumn(c)
  PROVE  Range(RowsFor(table, FilterHits(table, f))) = {ShownRow(table[i]) : i \in PlacesOfAll(f)}
<1> DEFINE found == PlacesOfAll(f)
<1>1. found \in SUBSET Places
  BY DEF PlacesOfAll
<1>2. ASSUME NEW s \in UsedBy(table) PROVE s \in FilterHits(table, f) <=> s + 1 \in found
  <2>1. s + 1 \in Places /\ IsRow(table[s + 1])
    BY PlacesOfSlots, PageOfHolds DEF Given
  <2>2. PICK i \in Places : i = s + 1 /\ IsRow(table[i])
    BY <2>1
  <2>3. ASSUME NEW c \in ClausesOf(f)
        PROVE  Compares(c.lhs.offset, c.lhs.type, c.op, c.rhs, EncodeRow(table[i]))
                 <=> i \in PlacesOfClause(c)
    <3>1. PICK offset, type, op, v :
            offset = c.lhs.offset /\ type = c.lhs.type /\ op = c.op /\ v = c.rhs
      OBVIOUS
    <3>2. op \in Operators /\ v \in AllValues
      BY <3>1, CompoundNodes DEF ClausesOf
    <3>3. Proper(offset, type, op, v) /\ OnColumn(offset, type, op)
      BY <3>1, CompoundIsProper DEF ClauseProper, ClauseOnColumn
    <3>4. Compares(offset, type, op, v, EncodeRow(table[i]))
            <=> \A d \in ColumnAt(offset, type) : Related(table[i][d], op, v)
      BY <2>2, <3>2, <3>3, ComparisonHits
    <3>5. i \in PlacesWith(offset, type, op, v)
            <=> \A d \in ColumnAt(offset, type) : Related(table[i][d], op, v)
      BY <2>2 DEF PlacesWith
    <3> QED BY <3>1, <3>4, <3>5 DEF PlacesOfClause
  <2>4. FilterMatches(f, EncodeRow(table[i])) <=>
          \A c \in ClausesOf(f) : Compares(c.lhs.offset, c.lhs.type, c.op, c.rhs, EncodeRow(table[i]))
    BY CompoundMatches
  <2>5. i \in found <=> \A c \in ClausesOf(f) : i \in PlacesOfClause(c)
    BY <2>2 DEF PlacesOfAll
  <2>6. s \in FilterHits(table, f) <=> FilterMatches(f, EncodeRow(table[i]))
    BY <2>2 DEF FilterHits
  <2> HIDE DEF found
  <2> QED BY <2>2, <2>3, <2>4, <2>5, <2>6
<1> HIDE DEF found
<1>3. FilterHits(table, f) \in SUBSET UsedBy(table)
  BY DEF FilterHits
<1>4. FilterHits(table, f) = SlotsOf(found)
  BY <1>1, <1>2, <1>3, HitsArePlaces
<1> QED BY <1>1, <1>4, RowsOfPlaces DEF found

ScansKnown == Given /\ StagesFit /\ PageKept /\ ScanChecked

(* What is known of the scans is inductive. *)
LEMMA ScansAreKnown ==
  /\ Init => ScansKnown
  /\ ScansKnown /\ [Next]_vars => ScansKnown'
BY GivenStays, StagesStayFit, PageIsKept, ScanIsChecked DEF ScansKnown

(* The scans of the record layer refuse exactly the comparisons that leave  *)
(* the record or do not fit their field, and return the rows that the       *)
(* others mean (scan_with_predicate, scan_with_filter).                     *)
THEOREM ScansMean == Spec => []PredicatesMean
<1>1. ScansKnown => PredicatesMean
  <2> SUFFICES ASSUME ScansKnown PROVE PredicatesMean
    OBVIOUS
  <2>1. Given /\ IsRequest(request)
    BY DEF ScansKnown, Given
  <2>2. ASSUME request.call = "predicate"
        PROVE  LET p == request.predicate
                   good == p.op = "NoOp" \/ Comparable(p.offset, p.type, p.value)
               IN
               /\ Refused => ~good
               /\ Answered => good
               /\ Answered /\ (p.op = "NoOp" \/ ColumnAt(p.offset, p.type) # {}) =>
                    Range(answer) =
                      {ShownRow(table[i]) : i \in PlacesWith(p.offset, p.type, p.op, p.value)}
    <3> DEFINE p == request.predicate
    <3>1. p \in [offset : Nat, type : FieldTypes, op : Operators, value : AllValues \cup {NoValue}]
      BY <2>1, <2>2 DEF IsRequest
    <3>2. /\ Refused => ~PredicateValid(p, RowSize)
          /\ Answered => /\ PredicateValid(p, RowSize)
                         /\ answer = RowsFor(table, PredicateHits(table, p))
      BY <2>2 DEF ScansKnown, ScanChecked, Refused, Answered
    <3> HIDE DEF p
    <3>3. PredicateValid(p, RowSize) <=> p.op = "NoOp" \/ Comparable(p.offset, p.type, p.value)
      BY <3>1, PredicateIsProper DEF Proper
    <3>4. ASSUME Answered, p.op = "NoOp" \/ ColumnAt(p.offset, p.type) # {}
          PROVE  Range(answer) =
                   {ShownRow(table[i]) : i \in PlacesWith(p.offset, p.type, p.op, p.value)}
      <4>1. OnColumn(p.offset, p.type, p.op)
        BY <3>4 DEF OnColumn
      <4> QED BY <2>1, <3>1, <3>2, <3>4, <4>1, PredicateReturns
    <3> QED BY <3>2, <3>3, <3>4 DEF p
  <2>3. ASSUME request.call = "filter"
        PROVE  LET clauses == {request.filter[n] : n \in 1 .. Len(request.filter) - 1}
                   good(f) == f.op = "NoOp" \/ Comparable(f.lhs.offset, f.lhs.type, f.rhs)
                   atColumns == \A f \in clauses :
                                  f.op = "NoOp" \/ ColumnAt(f.lhs.offset, f.lhs.type) # {}
                   meant(f) == PlacesWith(f.lhs.offset, f.lhs.type, f.op, f.rhs)
               IN
               /\ Refused => clauses = {} \/ \E f \in clauses : ~good(f)
               /\ Answered => clauses # {} /\ \A f \in clauses : good(f)
               /\ Answered /\ atColumns =>
                    Range(answer) = {ShownRow(table[i]) :
                                       i \in {j \in Places : \A f \in clauses : j \in meant(f)}}
    <3> DEFINE f == request.filter
    <3>1. IsCompound(f)
      BY <2>1, <2>3 DEF IsRequest
    <3>2. /\ Refused => ~FilterValid(f, RowSize)
          /\ Answered => FilterValid(f, RowSize) /\ answer = RowsFor(table, FilterHits(table, f))
      BY <2>3 DEF ScansKnown, ScanChecked, Refused, Answered
    <3> HIDE DEF f
    <3>3. FilterValid(f, RowSize) <=>
            ClausesOf(f) # {} /\ \A c \in ClausesOf(f) : ClauseProper(c)
      BY <3>1, CompoundIsProper
    <3>4. ASSUME Answered, \A c \in ClausesOf(f) : ClauseOnColumn(c)
          PROVE  Range(answer) = {ShownRow(table[i]) : i \in PlacesOfAll(f)}
      BY <2>1, <3>1, <3>2, <3>4, CompoundReturns
    <3>5. /\ Refused => ClausesOf(f) = {} \/ \E c \in ClausesOf(f) : ~ClauseProper(c)
          /\ Answered => ClausesOf(f) # {} /\ \A c \in ClausesOf(f) : ClauseProper(c)
          /\ Answered /\ (\A c \in ClausesOf(f) : ClauseOnColumn(c)) =>
               Range(answer) = {ShownRow(table[i]) : i \in PlacesOfAll(f)}
      BY <3>2, <3>3, <3>4
    <3> QED BY <3>5, Zenon DEF ClausesOf, ClauseProper, Proper, ClauseOnColumn, OnColumn,
                              PlacesOfAll, PlacesOfClause, f
  <2> QED BY <2>2, <2>3, Zenon DEF PredicatesMean
<1> QED BY <1>1, ScansAreKnown, PTL DEF Spec

-----------------------------------------------------------------------------
(* What a select finds.                                                    *)

(* An index has the rows that the filter means: it is asked for one value   *)
(* of an Int32 column.                                                      *)
LEMMA IndexFinds ==
  ASSUME Given, Intact, IsSelect, LooksUpIndex(request), ColumnsKnown(request.filter)
  PROVE  {s \in Used : DecodeRecord(RecordAt(s))[request.filter[1].column] = request.filter[1].rhs}
           = SlotsOf(FoundBy)
<1> DEFINE f == request.filter
           c == f[1].column
           v == f[1].rhs
           hits == {s \in Used : DecodeRecord(RecordAt(s))[c] = v}
<1>1. IsFilter(f)
  BY DEF Given, IsSelect, IsRequest
<1>2. /\ Len(f) = 1 /\ f[1].kind = "value" /\ f[1].op = "Eq" /\ v[1] = "Int32"
      /\ c \in Columns /\ Schema[c] = Int32
  BY DEF LooksUpIndex, Given, IndexedBy, IsSelect
<1>3. DOMAIN f = 1 .. 1 /\ f # NoFilter /\ v \in AllValues
  <2>1. DOMAIN f = 1 .. 1 /\ IsNode(f[1], 1)
    BY <1>1, <1>2, NodesOfFilter
  <2>2. v \in AllValues
    BY <1>2, <2>1 DEF IsNode
  <2>3. DOMAIN NoFilter = {}
    BY DEF NoFilter
  <2>4. 1 \in DOMAIN f
    BY <2>1
  <2> QED BY <2>1, <2>2, <2>3, <2>4
<1> HIDE DEF f
<1>4. FoundBy = {i \in Places : SaysOf(f, i)}
  BY <1>3, Zenon DEF FoundBy, Satisfying, SaysOf, f
<1>5. ASSUME NEW i \in Places
      PROVE  SaysOf(f, i) <=> Says(f[1], i)
  <2> DEFINE S == {n \in 1 .. 1 : Says(f[n], i)}
  <2>1. ASSUME NEW n \in DOMAIN f
        PROVE  n \in S <=> CASE IsClause(f[n]) -> Says(f[n], i)
                              [] f[n].kind = "not" -> \A m \in f[n].children : m \notin S
                              [] f[n].kind = "and" -> \A m \in f[n].children : m \in S
                              [] f[n].kind = "or" -> \E m \in f[n].children : m \in S
    <3>1. n = 1 /\ f[n].kind = "value" /\ (n \in S <=> Says(f[n], i))
      BY <1>2, <1>3
    <3> HIDE DEF S
    <3> QED BY <3>1 DEF IsClause
  <2>2. S \in SUBSET (DOMAIN f) /\ (1 \in S <=> Says(f[1], i))
    BY <1>3
  <2> HIDE DEF S
  <2>3. AreTrue(S, f, i)
    BY <2>1 DEF AreTrue
  <2>4. SaysOf(f, i) <=> 1 \in S
    BY <1>1, <1>2, <2>2, <2>3, OneTruth DEF SaysOf, f
  <2> QED BY <2>2, <2>4
<1>6. ASSUME NEW s \in UsedBy(table)
      PROVE  /\ s + 1 \in Places /\ s \in Used
             /\ DecodeRecord(RecordAt(s))[c] = v <=> Says(f[1], s + 1)
  <2>1. s + 1 \in Places /\ s \in Used /\ IsRow(table[s + 1])
        /\ DecodeRecord(RecordAt(s)) = ShownRow(table[s + 1])
    BY SlotsRead, PlacesOfSlots
  <2>2. PICK x \in AllValues : x = table[s + 1][c] /\ x[1] = "Int32"
    BY <1>2, <2>1, FieldReads DEF Int32
  <2>3. Shown(x) = x /\ Shown(v) = v
    BY <1>2, <2>2 DEF Shown
  <2>4. DecodeRecord(RecordAt(s))[c] = x
    BY <1>2, <2>1, <2>2, <2>3 DEF ShownRow
  <2>5. Says(f[1], s + 1) <=> Related(x, "Eq", v)
    BY <1>2, <2>2 DEF Says
  <2>6. Related(x, "Eq", v) <=> x = v
    BY <2>3 DEF Related
  <2> QED BY <2>1, <2>4, <2>5, <2>6
<1>7. \A s \in UsedBy(table) : s \in hits <=> s + 1 \in FoundBy
  BY <1>4, <1>5, <1>6
<1>8. hits \in SUBSET UsedBy(table) /\ FoundBy \in SUBSET Places
  BY <1>4, SlotsRead
<1> HIDE DEF hits
<1>9. hits = SlotsOf(FoundBy)
  BY <1>7, <1>8, HitsArePlaces
<1> QED BY <1>9 DEF hits, c, v, f

\* The n-th key of a select: its order, and that two rows do not differ in it.
AheadIn(n, i, j) == Ahead(i, j, request.order_by[n])
EqualIn(n, i, j) == Equal(i, j, request.order_by[n])
Keys == DOMAIN request.order_by

(* Every key orders the rows that differ in it. *)
LEMMA KeysOrder ==
  ASSUME Given, IsSelect, SelectPlanned(request), NEW n \in Keys,
         NEW i \in Places, NEW j \in Places, NEW l \in Places
  PROVE  /\ EqualIn(n, i, j) \/ AheadIn(n, i, j) \/ AheadIn(n, j, i)
         /\ AheadIn(n, i, j) => ~EqualIn(n, i, j) /\ ~EqualIn(n, j, i) /\ ~AheadIn(n, j, i)
         /\ EqualIn(n, i, i) /\ (EqualIn(n, i, j) => EqualIn(n, j, i))
         /\ EqualIn(n, i, j) /\ EqualIn(n, j, l) => EqualIn(n, i, l)
         /\ AheadIn(n, i, j) /\ AheadIn(n, j, l) => AheadIn(n, i, l)
         /\ AheadIn(n, i, j) /\ EqualIn(n, j, l) => AheadIn(n, i, l)
         /\ EqualIn(n, i, j) /\ AheadIn(n, j, l) => AheadIn(n, i, l)
         /\ KeyBefore(ShownRow(table[i]), ShownRow(table[j]), request.order_by[n]) <=> AheadIn(n, i, j)
<1> DEFINE key == request.order_by[n]
           c == key[1]
<1>1. c \in Columns
  BY DEF SelectPlanned, PlanResolves, Known, Keys
<1>2. IsRow(table[i]) /\ IsRow(table[j]) /\ IsRow(table[l])
  BY PlacesOfSlots
<1>3. PICK x \in AllValues : x = table[i][c] /\ x[1] = Schema[c].kind
  BY <1>1, <1>2, FieldReads
<1>4. PICK y \in AllValues : y = table[j][c] /\ y[1] = Schema[c].kind
  BY <1>1, <1>2, FieldReads
<1>5. PICK z \in AllValues : z = table[l][c] /\ z[1] = Schema[c].kind
  BY <1>1, <1>2, FieldReads
<1>6. /\ EqualIn(n, i, j) <=> Alike(x, y)
      /\ EqualIn(n, j, i) <=> Alike(y, x)
      /\ EqualIn(n, j, l) <=> Alike(y, z)
      /\ EqualIn(n, i, l) <=> Alike(x, z)
      /\ EqualIn(n, i, i)
  BY <1>3, <1>4, <1>5 DEF EqualIn, Equal, Alike
<1>7. /\ Alike(x, y) \/ Under(x, y) \/ Under(y, x)
      /\ Under(x, y) => ~Alike(x, y) /\ ~Under(y, x)
  BY <1>3, <1>4, UnderOrders
<1>8. /\ Under(y, x) => ~Alike(y, x) /\ ~Under(x, y)
      /\ Alike(x, y) <=> Alike(y, x)
  <2>1. Under(y, x) => ~Alike(y, x) /\ ~Under(x, y)
    BY <1>3, <1>4, UnderOrders
  <2> QED BY <2>1 DEF Alike
<1>9. Alike(x, y) /\ Alike(y, z) => Alike(x, z)
  BY DEF Alike
<1>10. /\ Under(x, y) /\ Under(y, z) => Under(x, z)
       /\ Alike(x, y) => (Under(x, z) <=> Under(y, z)) /\ (Under(z, x) <=> Under(z, y))
  BY <1>3, <1>4, <1>5, UnderTransitive
<1>11. Under(z, y) /\ Under(y, x) => Under(z, x)
  <2>1. z[1] = y[1] /\ y[1] = x[1]
    BY <1>3, <1>4, <1>5
  <2> QED BY <2>1, UnderTransitive
<1>12. Alike(y, z) => (Under(y, x) <=> Under(z, x)) /\ (Under(x, y) <=> Under(x, z))
  <2>1. y[1] = z[1] /\ z[1] = x[1]
    BY <1>3, <1>4, <1>5
  <2> QED BY <2>1, UnderTransitive
<1>13. /\ Less(Schema[c].kind, Shown(x)[2], Shown(y)[2]) <=> Under(x, y)
       /\ Less(Schema[c].kind, Shown(y)[2], Shown(x)[2]) <=> Under(y, x)
  <2>1. Less(x[1], Shown(x)[2], Shown(y)[2]) <=> Under(x, y)
    BY <1>3, <1>4, ShownLess
  <2>2. Less(y[1], Shown(y)[2], Shown(x)[2]) <=> Under(y, x)
    BY <1>3, <1>4, ShownLess
  <2> QED BY <1>3, <1>4, <2>1, <2>2
<1>14. ShownRow(table[i])[c] = Shown(x) /\ ShownRow(table[j])[c] = Shown(y)
  BY <1>1, <1>3, <1>4 DEF ShownRow
<1> HIDE DEF c
<1>15. CASE key[2] = "Asc"
  <2>1. /\ AheadIn(n, i, j) <=> Under(x, y)
        /\ AheadIn(n, j, i) <=> Under(y, x)
        /\ AheadIn(n, j, l) <=> Under(y, z)
        /\ AheadIn(n, i, l) <=> Under(x, z)
    BY <1>3, <1>4, <1>5, <1>15 DEF AheadIn, Ahead, c
  <2>2. KeyBefore(ShownRow(table[i]), ShownRow(table[j]), key) <=> Under(x, y)
    BY <1>13, <1>14, <1>15 DEF KeyBefore, c
  <2> HIDE DEF key
  <2> QED BY <1>6, <1>7, <1>8, <1>9, <1>10, <1>12, <2>1, <2>2 DEF key
<1>16. CASE key[2] # "Asc"
  <2>1. /\ AheadIn(n, i, j) <=> Under(y, x)
        /\ AheadIn(n, j, i) <=> Under(x, y)
        /\ AheadIn(n, j, l) <=> Under(z, y)
        /\ AheadIn(n, i, l) <=> Under(z, x)
    BY <1>3, <1>4, <1>5, <1>16 DEF AheadIn, Ahead, c
  <2>2. KeyBefore(ShownRow(table[i]), ShownRow(table[j]), key) <=> Under(y, x)
    BY <1>13, <1>14, <1>16 DEF KeyBefore, c
  <2> HIDE DEF key
  <2> QED BY <1>6, <1>7, <1>8, <1>9, <1>10, <1>11, <1>12, <2>1, <2>2 DEF key
<1> QED BY <1>15, <1>16

\* The first key in which two rows differ, what it decides, and rows that differ
\* in none.
Decides(n, i, j) == n \in Keys /\ ~EqualIn(n, i, j) /\ \A m \in 1 .. n - 1 : EqualIn(m, i, j)
Precedes(i, j) == \E n \in Keys : AheadIn(n, i, j) /\ \A m \in 1 .. n - 1 : EqualIn(m, i, j)
SameKeys(i, j) == \A n \in Keys : EqualIn(n, i, j)

SelectFits == Given /\ IsSelect /\ SelectPlanned(request)

(* If two rows differ, a first key decides. *)
LEMMA FirstKeyDecides ==
  ASSUME SelectFits, NEW i \in Places, NEW j \in Places
  PROVE  /\ Keys = 1 .. Len(request.order_by) /\ Len(request.order_by) \in Nat
         /\ SameKeys(i, j) \/ \E n \in Keys : Decides(n, i, j)
         /\ \A n \in Keys : Decides(n, i, j) => (Precedes(i, j) <=> AheadIn(n, i, j))
<1>1. Keys = 1 .. Len(request.order_by) /\ Len(request.order_by) \in Nat
  BY DEF SelectFits, Given, IsSelect, IsRequest, Keys
<1>2. ASSUME ~SameKeys(i, j) PROVE \E n \in Keys : Decides(n, i, j)
  <2> DEFINE T == {n \in Keys : ~EqualIn(n, i, j)}
  <2>1. T \in SUBSET Nat /\ T # {}
    BY <1>1, <1>2 DEF SameKeys
  <2>2. PICK n \in T : \A m \in T : n <= m
    BY <2>1, LeastNumber
  <2>3. \A m \in 1 .. n - 1 : m \in Keys /\ ~(n <= m)
    BY <1>1, <2>1
  <2>4. \A m \in 1 .. n - 1 : EqualIn(m, i, j)
    BY <2>2, <2>3
  <2> QED BY <2>4 DEF Decides
<1>3. ASSUME NEW n \in Keys, Decides(n, i, j) PROVE Precedes(i, j) <=> AheadIn(n, i, j)
  <2>1. ASSUME NEW m \in Keys, AheadIn(m, i, j), \A l \in 1 .. m - 1 : EqualIn(l, i, j)
        PROVE  m = n
    <3>1. ~EqualIn(m, i, j)
      BY <2>1, KeysOrder DEF SelectFits
    <3>2. ~(m < n) /\ ~(n < m)
      BY <1>1, <1>3, <2>1, <3>1 DEF Decides
    <3> QED BY <1>1, <3>2
  <2>2. Precedes(i, j) => AheadIn(n, i, j)
    BY <2>1 DEF Precedes
  <2>3. AheadIn(n, i, j) => Precedes(i, j)
    BY <1>3 DEF Precedes, Decides
  <2> QED BY <2>2, <2>3
<1> QED BY <1>1, <1>2, <1>3

(* So rows that differ in a key are ordered. *)
LEMMA RowsOrder ==
  ASSUME SelectFits, NEW i \in Places, NEW j \in Places
  PROVE  /\ SameKeys(i, j) \/ Precedes(i, j) \/ Precedes(j, i)
         /\ Precedes(i, j) => ~SameKeys(i, j) /\ ~SameKeys(j, i) /\ ~Precedes(j, i)
         /\ SameKeys(i, i) /\ (SameKeys(i, j) => SameKeys(j, i))
<1>1. \A n \in Keys :
        /\ EqualIn(n, i, j) \/ AheadIn(n, i, j) \/ AheadIn(n, j, i)
        /\ AheadIn(n, i, j) => ~EqualIn(n, i, j) /\ ~EqualIn(n, j, i) /\ ~AheadIn(n, j, i)
        /\ AheadIn(n, j, i) => ~EqualIn(n, j, i)
        /\ EqualIn(n, i, i) /\ (EqualIn(n, i, j) <=> EqualIn(n, j, i))
  BY KeysOrder DEF SelectFits
<1>2. Keys = 1 .. Len(request.order_by) /\ Len(request.order_by) \in Nat
  BY FirstKeyDecides
<1>3. \A n \in Keys : \A m \in 1 .. n - 1 : m \in Keys
  BY <1>2
<1>4. SameKeys(i, i) /\ (SameKeys(i, j) <=> SameKeys(j, i))
  BY <1>1 DEF SameKeys
<1>5. SameKeys(i, j) => ~Precedes(i, j) /\ ~Precedes(j, i)
  BY <1>1 DEF SameKeys, Precedes
<1>6. CASE ~SameKeys(i, j)
  <2>1. PICK n \in Keys : Decides(n, i, j)
    BY <1>6, FirstKeyDecides
  <2>2. Decides(n, j, i)
    BY <1>1, <1>3, <2>1 DEF Decides
  <2>3. (Precedes(i, j) <=> AheadIn(n, i, j)) /\ (Precedes(j, i) <=> AheadIn(n, j, i))
    BY <2>1, <2>2, FirstKeyDecides
  <2>4. ~EqualIn(n, i, j)
    BY <2>1 DEF Decides
  <2> QED BY <1>1, <1>4, <1>6, <2>3, <2>4
<1> QED BY <1>4, <1>5, <1>6

(* The order of rows is transitive, and the same for rows with the same     *)
(* keys.                                                                    *)
LEMMA RowsOrderTransitive ==
  ASSUME SelectFits, NEW i \in Places, NEW j \in Places, NEW l \in Places
  PROVE  /\ Precedes(i, j) /\ Precedes(j, l) => Precedes(i, l)
         /\ Precedes(i, j) /\ SameKeys(j, l) => Precedes(i, l)
         /\ SameKeys(i, j) /\ Precedes(j, l) => Precedes(i, l)
         /\ SameKeys(i, j) /\ SameKeys(j, l) => SameKeys(i, l)
<1>1. \A n \in Keys :
        /\ EqualIn(n, i, j) /\ EqualIn(n, j, l) => EqualIn(n, i, l)
        /\ AheadIn(n, i, j) /\ AheadIn(n, j, l) => AheadIn(n, i, l)
        /\ AheadIn(n, i, j) /\ EqualIn(n, j, l) => AheadIn(n, i, l)
        /\ EqualIn(n, i, j) /\ AheadIn(n, j, l) => AheadIn(n, i, l)
  BY KeysOrder DEF SelectFits
<1>2. Keys = 1 .. Len(request.order_by) /\ Len(request.order_by) \in Nat
  BY FirstKeyDecides
<1>3. \A n \in Keys : \A m \in 1 .. n - 1 : m \in Keys
  BY <1>2
<1>4. ASSUME Precedes(i, j), Precedes(j, l) PROVE Precedes(i, l)
  <2>1. PICK a \in Keys : AheadIn(a, i, j) /\ \A m \in 1 .. a - 1 : EqualIn(m, i, j)
    BY <1>4 DEF Precedes
  <2>2. PICK b \in Keys : AheadIn(b, j, l) /\ \A m \in 1 .. b - 1 : EqualIn(m, j, l)
    BY <1>4 DEF Precedes
  <2>3. a \in Nat /\ b \in Nat /\ a >= 1 /\ b >= 1
    BY <1>2
  <2>4. CASE a < b
    <3>1. EqualIn(a, j, l) /\ \A m \in 1 .. a - 1 : EqualIn(m, j, l)
      BY <2>2, <2>3, <2>4
    <3> QED BY <1>1, <1>3, <2>1, <3>1 DEF Precedes
  <2>5. CASE b < a
    <3>1. EqualIn(b, i, j) /\ \A m \in 1 .. b - 1 : EqualIn(m, i, j)
      BY <2>1, <2>3, <2>5
    <3> QED BY <1>1, <1>3, <2>2, <3>1 DEF Precedes
  <2>6. CASE a = b
    BY <1>1, <1>3, <2>1, <2>2, <2>6 DEF Precedes
  <2> QED BY <2>3, <2>4, <2>5, <2>6
<1>5. ASSUME Precedes(i, j), SameKeys(j, l) PROVE Precedes(i, l)
  BY <1>1, <1>3, <1>5 DEF Precedes, SameKeys
<1>6. ASSUME SameKeys(i, j), Precedes(j, l) PROVE Precedes(i, l)
  BY <1>1, <1>3, <1>6 DEF Precedes, SameKeys
<1>7. ASSUME SameKeys(i, j), SameKeys(j, l) PROVE SameKeys(i, l)
  BY <1>1, <1>7 DEF SameKeys
<1> QED BY <1>4, <1>5, <1>6, <1>7

\* The rows that a select finds, in the order of its answer.
EarlierPairs == {p \in FoundBy \X FoundBy : Earlier(p[1], p[2])}
Listed == InOrder(FoundBy, EarlierPairs)

(* Keys and places order the rows that a select finds. *)
LEMMA EarlierOrders ==
  ASSUME SelectFits
  PROVE  /\ FoundBy \in SUBSET Places
         /\ \A i, j \in Places : Earlier(i, j) <=> Precedes(i, j) \/ (i < j /\ SameKeys(i, j))
         /\ \A i, j \in FoundBy : <<i, j>> \in EarlierPairs <=> Earlier(i, j)
         /\ Orders(EarlierPairs, FoundBy)
<1>1. FoundBy \in SUBSET Places
  BY DEF FoundBy, Satisfying
<1>2. \A i, j \in Places : Earlier(i, j) <=> Precedes(i, j) \/ (i < j /\ SameKeys(i, j))
  BY DEF Earlier, Precedes, SameKeys, AheadIn, EqualIn, Keys
<1>3. \A i, j \in FoundBy : <<i, j>> \in EarlierPairs <=> Earlier(i, j)
  <2> HIDE DEF Earlier, FoundBy
  <2> QED BY DEF EarlierPairs
<1>4. \A i \in Places : i \in Int
  BY PlacesOfSlots DEF SelectFits
<1>5. \A i \in FoundBy : <<i, i>> \notin EarlierPairs
  <2> SUFFICES ASSUME NEW i \in FoundBy PROVE <<i, i>> \notin EarlierPairs
    OBVIOUS
  <2>1. i \in Places /\ ~(i < i)
    BY <1>1, <1>4
  <2>2. ~Precedes(i, i)
    BY <2>1, RowsOrder
  <2> QED BY <1>2, <1>3, <2>1, <2>2
<1>6. ASSUME NEW i \in FoundBy, NEW j \in FoundBy, NEW l \in FoundBy,
             <<i, j>> \in EarlierPairs, <<j, l>> \in EarlierPairs
      PROVE  <<i, l>> \in EarlierPairs
  <2>1. /\ i \in Places /\ j \in Places /\ l \in Places
        /\ i \in Int /\ j \in Int /\ l \in Int
    BY <1>1, <1>4
  <2>2. /\ Precedes(i, j) \/ (i < j /\ SameKeys(i, j))
        /\ Precedes(j, l) \/ (j < l /\ SameKeys(j, l))
    BY <1>2, <1>3, <1>6, <2>1
  <2>3. /\ Precedes(i, j) /\ Precedes(j, l) => Precedes(i, l)
        /\ Precedes(i, j) /\ SameKeys(j, l) => Precedes(i, l)
        /\ SameKeys(i, j) /\ Precedes(j, l) => Precedes(i, l)
        /\ SameKeys(i, j) /\ SameKeys(j, l) => SameKeys(i, l)
    BY <2>1, RowsOrderTransitive
  <2>4. Precedes(i, l) \/ (i < l /\ SameKeys(i, l))
    BY <2>1, <2>2, <2>3
  <2> QED BY <1>2, <1>3, <2>1, <2>4
<1>7. ASSUME NEW i \in FoundBy, NEW j \in FoundBy
      PROVE  i = j \/ <<i, j>> \in EarlierPairs \/ <<j, i>> \in EarlierPairs
  <2>1. i \in Places /\ j \in Places /\ i \in Int /\ j \in Int
    BY <1>1, <1>4
  <2>2. /\ SameKeys(i, j) \/ Precedes(i, j) \/ Precedes(j, i)
        /\ SameKeys(i, j) => SameKeys(j, i)
    BY <2>1, RowsOrder
  <2> QED BY <1>2, <1>3, <2>1, <2>2
<1> QED BY <1>1, <1>2, <1>3, <1>5, <1>6, <1>7 DEF Orders


(* The list has, place by place, the rows of the answer. *)
LEMMA ListedPlaces ==
  ASSUME SelectFits
  PROVE  /\ IsFiniteSet(FoundBy) /\ Cardinality(FoundBy) \in Nat
         /\ Listed \in [1 .. Cardinality(FoundBy) -> FoundBy]
         /\ \A n \in 1 .. Cardinality(FoundBy) : Listed[n] = Place(n)
<1>1. IsFiniteSet(FoundBy) /\ Orders(EarlierPairs, FoundBy)
  BY EarlierOrders, SlotsOfPlaces DEF SelectFits
<1>2. /\ Cardinality(FoundBy) \in Nat
      /\ Listed \in [1 .. Cardinality(FoundBy) -> FoundBy]
      /\ \A n \in 1 .. Cardinality(FoundBy) : Rank(FoundBy, EarlierPairs, Listed[n]) = n - 1
  BY <1>1, InOrderLists DEF Listed
<1>3. ASSUME NEW n \in 1 .. Cardinality(FoundBy) PROVE Listed[n] = Place(n)
  <2> DEFINE Count(i) == Cardinality({j \in FoundBy : Earlier(j, i)})
  <2>1. ASSUME NEW i \in FoundBy PROVE Count(i) = Rank(FoundBy, EarlierPairs, i)
    <3>1. \A j \in FoundBy : <<j, i>> \in EarlierPairs <=> Earlier(j, i)
      BY EarlierOrders
    <3> HIDE DEF FoundBy, EarlierPairs
    <3>2. {j \in FoundBy : Earlier(j, i)} = {j \in FoundBy : <<j, i>> \in EarlierPairs}
      BY <3>1
    <3> QED BY <3>2 DEF Rank, Behind
  <2>2. Place(n) = CHOOSE i \in FoundBy : Count(i) = n - 1
    BY DEF Place, FoundBy
  <2> HIDE DEF Count
  <2>3. Listed[n] \in FoundBy /\ Count(Listed[n]) = n - 1
    BY <1>2, <2>1
  <2>4. Place(n) \in FoundBy /\ Count(Place(n)) = n - 1
    BY <2>2, <2>3
  <2>5. Rank(FoundBy, EarlierPairs, Listed[n]) = Rank(FoundBy, EarlierPairs, Place(n))
    BY <2>1, <2>3, <2>4
  <2> QED BY <1>1, <2>3, <2>4, <2>5, RanksAscend
<1> QED BY <1>1, <1>2, <1>3

(* Rows are compared as their keys say. *)
LEMMA RowsCompared ==
  ASSUME SelectFits, NEW i \in Places, NEW j \in Places
  PROVE  RowBefore(ShownRow(table[i]), ShownRow(table[j]), request.order_by) <=> Precedes(i, j)
<1> DEFINE x == ShownRow(table[i])
           y == ShownRow(table[j])
<1>1. Keys = 1 .. Len(request.order_by) /\ Len(request.order_by) \in Nat
  BY FirstKeyDecides
<1>2. \A n \in Keys : \A m \in 1 .. n - 1 : m \in Keys
  BY <1>1
<1>3. \A n \in Keys : /\ KeyBefore(x, y, request.order_by[n]) <=> AheadIn(n, i, j)
                      /\ KeyBefore(y, x, request.order_by[n]) <=> AheadIn(n, j, i)
                      /\ EqualIn(n, i, j) \/ AheadIn(n, i, j) \/ AheadIn(n, j, i)
                      /\ AheadIn(n, i, j) => ~EqualIn(n, i, j) /\ ~AheadIn(n, j, i)
                      /\ AheadIn(n, j, i) => ~EqualIn(n, i, j)
  BY KeysOrder DEF SelectFits
<1> HIDE DEF x, y
<1>4. ASSUME Precedes(i, j) PROVE RowBefore(x, y, request.order_by)
  <2>1. PICK n \in Keys : AheadIn(n, i, j) /\ \A m \in 1 .. n - 1 : EqualIn(m, i, j)
    BY <1>4 DEF Precedes
  <2>2. /\ KeyBefore(x, y, request.order_by[n])
        /\ \A m \in 1 .. n - 1 : ~KeyBefore(y, x, request.order_by[m])
    BY <1>2, <1>3, <2>1
  <2> QED BY <2>2 DEF RowBefore, Keys
<1>5. ASSUME RowBefore(x, y, request.order_by) PROVE Precedes(i, j)
  <2>1. PICK n \in Keys : /\ KeyBefore(x, y, request.order_by[n])
                          /\ \A m \in 1 .. n - 1 : ~KeyBefore(y, x, request.order_by[m])
    BY <1>5 DEF RowBefore, Keys
  <2>2. AheadIn(n, i, j) /\ \A m \in 1 .. n - 1 : ~AheadIn(m, j, i)
    BY <1>2, <1>3, <2>1
  <2>3. ~SameKeys(i, j)
    BY <1>3, <2>2 DEF SameKeys
  <2>4. PICK l \in Keys : Decides(l, i, j)
    BY <2>3, FirstKeyDecides
  <2>5. ~EqualIn(l, i, j) /\ \A m \in 1 .. l - 1 : EqualIn(m, i, j)
    BY <2>4 DEF Decides
  <2>6. CASE n < l
    <3>1. EqualIn(n, i, j)
      BY <1>1, <2>5, <2>6
    <3> QED BY <1>3, <2>2, <3>1
  <2>7. CASE l < n
    <3>1. ~AheadIn(l, j, i)
      BY <1>1, <2>2, <2>7
    <3>2. AheadIn(l, i, j)
      BY <1>3, <2>5, <3>1
    <3> QED BY <2>4, <3>2, FirstKeyDecides
  <2>8. CASE l = n
    BY <2>2, <2>4, <2>8, FirstKeyDecides
  <2> QED BY <1>1, <2>6, <2>7, <2>8
<1> QED BY <1>4, <1>5 DEF x, y

\* The rows that a select finds, in order.
Ordered == [n \in 1 .. Cardinality(FoundBy) |-> ShownRow(table[Listed[n]])]

(* A stable sort of the rows found, in the order of the table, puts them in *)
(* order.                                                                   *)
LEMMA SortOrders ==
  ASSUME SelectFits, rows = RowsFor(table, SlotsOf(FoundBy))
  PROVE  [n \in DOMAIN rows |-> rows[Sorted[n]]] = Ordered
<1> DEFINE slots == SlotsOf(FoundBy)
           k == Cardinality(FoundBy)
           list == Ascending(slots)
<1>1. FoundBy \in SUBSET Places /\ Orders(EarlierPairs, FoundBy)
  BY EarlierOrders
<1>2. /\ slots \in SUBSET SlotIds(Slots) /\ Cardinality(slots) = k
      /\ IsFiniteSet(FoundBy) /\ k \in Nat
      /\ \A s \in slots : s \in Int /\ s + 1 \in FoundBy
      /\ \A i \in FoundBy : i - 1 \in slots /\ i - 1 + 1 = i
  <2>1. /\ slots \in SUBSET UsedBy(table) /\ Cardinality(slots) = k /\ IsFiniteSet(FoundBy)
        /\ \A s \in SlotIds(Slots) : s \in slots <=> s + 1 \in FoundBy
    BY <1>1, SlotsOfPlaces DEF SelectFits
  <2>2. \A i \in FoundBy : i - 1 + 1 = i
    BY <1>1, PlacesOfSlots DEF SelectFits
  <2>3. SlotIds(Slots) \in SUBSET Int
    BY PageLayout
  <2>4. k \in Nat
    BY <2>1, FS_CardinalityType
  <2> QED BY <2>1, <2>2, <2>3, <2>4 DEF UsedBy, SlotsOf
<1> HIDE DEF slots
<1>3. /\ list \in [1 .. k -> slots]
      /\ \A s \in slots : \E a \in 1 .. k : list[a] = s
      /\ \A a, b \in 1 .. k : a < b <=> list[a] < list[b]
  BY <1>2, AscendingLists
<1>4. rows = [a \in 1 .. k |-> ShownRow(table[list[a] + 1])]
  BY <1>2 DEF RowsFor, slots
<1> HIDE DEF k, list
<1>5. PICK P : P = [a \in 1 .. k |-> list[a] + 1]
  OBVIOUS
<1>6. /\ P \in [1 .. k -> FoundBy]
      /\ \A a, b \in 1 .. k : a < b <=> P[a] < P[b]
  <2>1. \A a \in 1 .. k : list[a] \in slots
    BY <1>3
  <2>2. \A a \in 1 .. k : P[a] = list[a] + 1 /\ list[a] \in Int /\ P[a] \in FoundBy
    BY <1>2, <1>5, <2>1
  <2> QED BY <1>3, <1>5, <2>2
<1>7. DOMAIN rows = 1 .. k /\ \A a \in 1 .. k : rows[a] = ShownRow(table[P[a]])
  BY <1>4, <1>5
<1> DEFINE before == {p \in (DOMAIN rows) \X (DOMAIN rows) :
                        \/ RowBefore(rows[p[1]], rows[p[2]], request.order_by)
                        \/ p[1] < p[2] /\ ~RowBefore(rows[p[2]], rows[p[1]], request.order_by)}
<1>8. ASSUME NEW a \in 1 .. k, NEW b \in 1 .. k
      PROVE  <<a, b>> \in before <=> <<P[a], P[b]>> \in EarlierPairs
  <2>1. P[a] \in FoundBy /\ P[b] \in FoundBy /\ P[a] \in Places /\ P[b] \in Places
    BY <1>1, <1>6
  <2>2. /\ RowBefore(rows[a], rows[b], request.order_by) <=> Precedes(P[a], P[b])
        /\ RowBefore(rows[b], rows[a], request.order_by) <=> Precedes(P[b], P[a])
    BY <1>7, <2>1, RowsCompared
  <2>3. <<a, b>> \in before <=> \/ RowBefore(rows[a], rows[b], request.order_by)
                                \/ a < b /\ ~RowBefore(rows[b], rows[a], request.order_by)
    BY <1>7
  <2>4. <<P[a], P[b]>> \in EarlierPairs <=>
          Precedes(P[a], P[b]) \/ (P[a] < P[b] /\ SameKeys(P[a], P[b]))
    BY <2>1, EarlierOrders
  <2>5. /\ SameKeys(P[a], P[b]) \/ Precedes(P[a], P[b]) \/ Precedes(P[b], P[a])
        /\ Precedes(P[b], P[a]) => ~SameKeys(P[a], P[b])
    BY <2>1, RowsOrder
  <2>6. a < b <=> P[a] < P[b]
    BY <1>6
  <2> HIDE DEF before
  <2> QED BY <2>2, <2>3, <2>4, <2>5, <2>6
<1>9. Sorted = InOrder(1 .. k, before)
  BY <1>7 DEF Sorted
<1> HIDE DEF before
<1>10. \A a, b \in 1 .. k : P[a] = P[b] => a = b
  <2> SUFFICES ASSUME NEW a \in 1 .. k, NEW b \in 1 .. k, P[a] = P[b] PROVE a = b
    OBVIOUS
  <2>1. P[a] \in Int /\ ~(P[a] < P[a])
    BY <1>1, <1>6, PlacesOfSlots DEF SelectFits
  <2>2. ~(a < b) /\ ~(b < a)
    BY <1>6, <2>1
  <2> QED BY <1>2, <2>2
<1>11. Orders(before, 1 .. k)
  <2>1. \A a \in 1 .. k : <<a, a>> \notin before
    BY <1>1, <1>6, <1>8 DEF Orders
  <2>2. ASSUME NEW a \in 1 .. k, NEW b \in 1 .. k, NEW c \in 1 .. k,
               <<a, b>> \in before, <<b, c>> \in before
        PROVE  <<a, c>> \in before
    <3>1. P[a] \in FoundBy /\ P[b] \in FoundBy /\ P[c] \in FoundBy
      BY <1>6
    <3>2. <<P[a], P[b]>> \in EarlierPairs /\ <<P[b], P[c]>> \in EarlierPairs
      BY <1>8, <2>2
    <3>3. <<P[a], P[c]>> \in EarlierPairs
      BY <1>1, <3>1, <3>2 DEF Orders
    <3> QED BY <1>8, <3>3
  <2>3. ASSUME NEW a \in 1 .. k, NEW b \in 1 .. k
        PROVE  a = b \/ <<a, b>> \in before \/ <<b, a>> \in before
    <3>1. P[a] \in FoundBy /\ P[b] \in FoundBy
      BY <1>6
    <3>2. P[a] = P[b] \/ <<P[a], P[b]>> \in EarlierPairs \/ <<P[b], P[a]>> \in EarlierPairs
      BY <1>1, <3>1 DEF Orders
    <3> QED BY <1>8, <1>10, <3>2
  <2> QED BY <2>1, <2>2, <2>3 DEF Orders
<1>12. /\ Sorted \in [1 .. k -> 1 .. k]
       /\ \A m, n \in 1 .. k : m < n => <<Sorted[m], Sorted[n]>> \in before
  <2>1. IsFiniteSet(1 .. k) /\ Cardinality(1 .. k) = k
    BY <1>2, FS_Interval
  <2> QED BY <1>9, <1>11, <2>1, InOrderLists
<1>13. PICK L : L = [n \in 1 .. k |-> P[Sorted[n]]]
  OBVIOUS
<1>14. /\ L \in [1 .. k -> FoundBy]
       /\ \A m, n \in 1 .. k : m < n => <<L[m], L[n]>> \in EarlierPairs
  <2>1. \A n \in 1 .. k : Sorted[n] \in 1 .. k /\ L[n] = P[Sorted[n]] /\ P[Sorted[n]] \in FoundBy
    BY <1>6, <1>12, <1>13
  <2> QED BY <1>8, <1>12, <1>13, <2>1
<1>15. L = Listed
  BY <1>1, <1>2, <1>14, InOrderAlone DEF k, Listed
<1>16. ASSUME NEW n \in 1 .. k PROVE rows[Sorted[n]] = ShownRow(table[Listed[n]])
  <2>1. Sorted[n] \in 1 .. k /\ Listed[n] = P[Sorted[n]]
    BY <1>12, <1>13, <1>15
  <2> QED BY <1>7, <2>1
<1> QED BY <1>7, <1>16 DEF Ordered, k


\* What the steps make of them.
AnswerLength ==
  IF request.limit = NoLimit \/ Cardinality(FoundBy) < request.limit
    THEN Cardinality(FoundBy) ELSE request.limit
Cut == [n \in 1 .. AnswerLength |-> ShownRow(table[Listed[n]])]
ShownColumns == request.projection
Projected == [n \in 1 .. AnswerLength |-> [m \in DOMAIN ShownColumns |-> Cut[n][ShownColumns[m]]]]

SelectRows ==
  IsSelect =>
    /\ stage = "order" => rows = RowsFor(table, SlotsOf(FoundBy))
    /\ stage = "limit" => rows = Ordered
    /\ stage = "project" => rows = Cut
    /\ stage = "answered" => answer = Projected

(* The order of an answer is a matter of the table and the request. *)
LEMMA OrderStays ==
  UNCHANGED <<table, request>> => UNCHANGED <<FoundBy, Ordered, Cut, Projected>>
<1> SUFFICES ASSUME UNCHANGED <<table, request>>
             PROVE  UNCHANGED <<FoundBy, Ordered, Cut, Projected>>
  OBVIOUS
<1>1. UNCHANGED FoundBy
  BY FoundStays
<1>2. UNCHANGED EarlierPairs
  BY <1>1 DEF EarlierPairs, Earlier, Ahead, Equal
<1>3. UNCHANGED Listed
  BY <1>1, <1>2 DEF Listed
<1>4. UNCHANGED <<AnswerLength, ShownColumns>>
  BY <1>1 DEF AnswerLength, ShownColumns
<1>5. UNCHANGED <<Ordered, Cut>>
  BY <1>1, <1>3, <1>4 DEF Ordered, Cut
<1> QED BY <1>1, <1>4, <1>5 DEF Projected

(* The numbers of rows and the columns of an answer. *)
LEMMA AnswerFits ==
  ASSUME SelectFits
  PROVE  /\ Cardinality(FoundBy) \in Nat /\ AnswerLength \in Nat
         /\ AnswerLength <= Cardinality(FoundBy)
         /\ request.limit # NoLimit => request.limit \in Nat
         /\ \A m \in DOMAIN ShownColumns : ShownColumns[m] \in Columns
<1>1. /\ request.limit \in Nat \cup {NoLimit}
      /\ \A m \in DOMAIN request.projection : request.projection[m] \in Columns
  BY DEF SelectFits, Given, IsSelect, IsRequest, SelectPlanned, PlanResolves, Known
<1>2. Cardinality(FoundBy) \in Nat
  BY ListedPlaces
<1>3. AnswerLength \in Nat /\ AnswerLength <= Cardinality(FoundBy)
  BY <1>1, <1>2 DEF AnswerLength
<1>4. \A m \in DOMAIN ShownColumns : ShownColumns[m] \in Columns
  BY <1>1 DEF ShownColumns
<1> QED BY <1>1, <1>2, <1>3, <1>4

(* A scan and an index find the same rows. *)
LEMMA SelectFinds ==
  ASSUME SelectFits, Intact
  PROVE  /\ Lookup /\ LooksUpIndex(request) => rows' = RowsFor(table, SlotsOf(FoundBy))
         /\ Scan => rows' = RowsFor(table, SlotsOf(FoundBy))
<1>1. Given /\ IsSelect /\ ColumnsKnown(request.filter) /\ IsFilter(request.filter)
  BY DEF SelectFits, SelectPlanned, Given, IsSelect, IsRequest
<1>2. SlotsOf(FoundBy) \in SUBSET UsedBy(table)
  BY <1>1, EarlierOrders, SlotsOfPlaces
<1>3. RowsAt(SlotsOf(FoundBy)) = RowsFor(table, SlotsOf(FoundBy))
  BY <1>1, <1>2, RowsAreRead
<1>4. ASSUME Lookup, LooksUpIndex(request) PROVE rows' = RowsAt(SlotsOf(FoundBy))
  <2>1. rows' = RowsAt({s \in Used : DecodeRecord(RecordAt(s))[request.filter[1].column]
                                       = request.filter[1].rhs})
    BY <1>4 DEF Lookup, Stage
  <2> QED BY <1>1, <1>4, <2>1, IndexFinds
<1>5. ASSUME Scan PROVE rows' = RowsAt(SlotsOf(FoundBy))
  <2>1. FilterAccepted(request.filter) /\ rows' = RowsAt(Matching(request.filter))
    BY <1>5 DEF Scan, Stage
  <2>2. Meaningful(request.filter)
    BY <1>1, <2>1, AcceptedIsMeaningful
  <2>3. Matching(request.filter) = SlotsOf(FoundBy)
    BY <1>1, <2>2, MatchingIsSatisfying DEF FoundBy
  <2> QED BY <2>1, <2>3
<1> QED BY <1>3, <1>4, <1>5

(* Rows are cut after they are ordered, and projected after that. *)
LEMMA SelectAnswersRows ==
  ASSUME SelectFits
  PROVE  /\ rows = Ordered /\ ApplyLimit => rows' = Cut
         /\ rows = Cut /\ Project => answer' = Projected
<1>1. /\ Cardinality(FoundBy) \in Nat /\ AnswerLength \in Nat
      /\ AnswerLength <= Cardinality(FoundBy)
      /\ request.limit # NoLimit => request.limit \in Nat
  BY AnswerFits
<1>2. ASSUME rows = Ordered, ApplyLimit PROVE rows' = Cut
  <2>1. Len(rows) = Cardinality(FoundBy)
    BY <1>1, <1>2 DEF Ordered
  <2>2. \A n \in 1 .. Cardinality(FoundBy) : rows[n] = ShownRow(table[Listed[n]])
    BY <1>2 DEF Ordered
  <2>3. rows' = IF request.limit = NoLimit \/ Len(rows) <= request.limit THEN rows
                ELSE [n \in 1 .. request.limit |-> rows[n]]
    BY <1>2 DEF ApplyLimit, Stage
  <2>4. CASE request.limit = NoLimit \/ Cardinality(FoundBy) <= request.limit
    <3>1. AnswerLength = Cardinality(FoundBy)
      BY <1>1, <2>4 DEF AnswerLength
    <3> QED BY <1>2, <2>1, <2>3, <2>4, <3>1 DEF Ordered, Cut
  <2>5. CASE ~(request.limit = NoLimit \/ Cardinality(FoundBy) <= request.limit)
    <3>1. AnswerLength = request.limit /\ rows' = [n \in 1 .. request.limit |-> rows[n]]
      BY <1>1, <2>1, <2>3, <2>5 DEF AnswerLength
    <3>2. \A n \in 1 .. AnswerLength : rows[n] = ShownRow(table[Listed[n]])
      BY <1>1, <2>2
    <3> QED BY <3>1, <3>2 DEF Cut
  <2> QED BY <2>4, <2>5
<1>3. ASSUME rows = Cut, Project PROVE answer' = Projected
  <2>1. answer' = [n \in DOMAIN rows |->
                     [m \in DOMAIN ShownColumns |-> rows[n][ShownColumns[m]]]]
    BY <1>3 DEF Project, End, ShownColumns
  <2>2. DOMAIN rows = 1 .. AnswerLength
    BY <1>3 DEF Cut
  <2> QED BY <1>3, <2>1, <2>2 DEF Projected
<1> QED BY <1>2, <1>3

SelectKnown == Given /\ StagesFit /\ PageKept /\ SelectChecked /\ SelectRows

(* The steps of a select make the rows of its answer. *)
LEMMA SelectIsKnown ==
  /\ Init => SelectKnown
  /\ SelectKnown /\ [Next]_vars => SelectKnown'
<1>1. Init => SelectRows
  BY DEF Init, SelectRows
<1>2. ASSUME SelectKnown, [Next]_vars PROVE SelectRows'
  <2> SUFFICES ASSUME IsSelect PROVE SelectRows'
    BY <1>2, GivenStays DEF SelectKnown, SelectRows, IsSelect
  <2>1. UNCHANGED <<table, request>>
    BY <1>2, GivenStays DEF SelectKnown
  <2>2. UNCHANGED <<FoundBy, Ordered, Cut, Projected>>
    BY <2>1, OrderStays
  <2>3. (RowsFor(table, SlotsOf(FoundBy)))' = RowsFor(table, SlotsOf(FoundBy))
    BY <2>1, <2>2
  <2>4. Intact /\ stage \in SelectStages
        /\ (stage \notin {"check", "refused"} => SelectFits)
        /\ (stage = "lookup" => LooksUpIndex(request))
    BY <1>2 DEF SelectKnown, PageKept, Written, SelectChecked, SelectFits, IsSelect
  <2>5. CASE RefuseSelect \/ CheckSelect \/ RefuseFilter
    BY <2>5 DEF RefuseSelect, CheckSelect, RefuseFilter, Refuse, End, Stage, SelectRows
  <2>6. CASE Lookup \/ Scan
    <3>1. stage \in {"lookup", "scan"} /\ stage' = "order" /\ (Lookup => stage = "lookup")
      BY <2>6 DEF Lookup, Scan, Stage
    <3>2. rows' = RowsFor(table, SlotsOf(FoundBy))
      BY <2>4, <2>6, <3>1, SelectFinds
    <3> QED BY <2>3, <3>1, <3>2 DEF SelectRows
  <2>7. CASE ApplyOrderBy
    <3>1. stage = "order" /\ stage' = "limit" /\ rows' = [n \in DOMAIN rows |-> rows[Sorted[n]]]
      BY <2>7 DEF ApplyOrderBy, Stage
    <3>2. rows = RowsFor(table, SlotsOf(FoundBy))
      BY <1>2, <3>1 DEF SelectKnown, SelectRows
    <3>3. rows' = Ordered
      BY <2>4, <3>1, <3>2, SortOrders
    <3> QED BY <2>2, <3>1, <3>3 DEF SelectRows
  <2>8. CASE ApplyLimit
    <3>1. stage = "limit" /\ stage' = "project"
      BY <2>8 DEF ApplyLimit, Stage
    <3>2. rows = Ordered
      BY <1>2, <3>1 DEF SelectKnown, SelectRows
    <3>3. rows' = Cut
      BY <2>4, <2>8, <3>1, <3>2, SelectAnswersRows
    <3> QED BY <2>2, <3>1, <3>3 DEF SelectRows
  <2>9. CASE Project
    <3>1. stage = "project" /\ stage' = "answered"
      BY <2>9 DEF Project, End
    <3>2. rows = Cut
      BY <1>2, <3>1 DEF SelectKnown, SelectRows
    <3>3. answer' = Projected
      BY <2>4, <2>9, <3>1, <3>2, SelectAnswersRows
    <3> QED BY <2>2, <3>1, <3>3 DEF SelectRows
  <2>10. CASE UNCHANGED vars
    <3>1. SelectRows
      BY <1>2 DEF SelectKnown
    <3> QED BY <2>1, <2>2, <2>3, <2>10, <3>1 DEF SelectRows, IsSelect, vars
  <2> QED BY <1>2, <2>4, <2>5, <2>6, <2>7, <2>8, <2>9, <2>10, SelectTakesItsSteps
       DEF SelectStep
<1> QED BY <1>1, <1>2, GivenStays, StagesStayFit, PageIsKept, SelectIsChecked DEF SelectKnown

(* A select returns the rows that satisfy its filter, in the order of its   *)
(* keys and then of the table, cut to its limit and then projected, whether *)
(* they were found by a scan or by an index (execute_select).               *)
THEOREM SelectsAnswer == Spec => []SelectAnswers
<1>1. SelectKnown => SelectAnswers
  <2> SUFFICES ASSUME SelectKnown, Answered, IsSelect PROVE SelectAnswers
    BY DEF SelectAnswers
  <2>1. SelectFits /\ answer = Projected
    BY DEF SelectKnown, SelectChecked, SelectAccepted, SelectRows, SelectFits, Answered
  <2>2. /\ AnswerLength \in Nat /\ AnswerLength <= Cardinality(FoundBy)
        /\ Cardinality(FoundBy) \in Nat
        /\ \A m \in DOMAIN ShownColumns : ShownColumns[m] \in Columns
    BY <2>1, AnswerFits
  <2>3. DOMAIN answer = 1 .. AnswerLength /\ Len(answer) = AnswerLength
    BY <2>1, <2>2 DEF Projected
  <2>4. ASSUME NEW n \in 1 .. AnswerLength
        PROVE  answer[n] = [m \in DOMAIN ShownColumns |-> Shown(table[Place(n)][ShownColumns[m]])]
    <3>1. n \in 1 .. Cardinality(FoundBy)
      BY <2>2
    <3>2. Listed[n] = Place(n)
      BY <2>1, <3>1, ListedPlaces
    <3>3. Cut[n] = ShownRow(table[Place(n)])
      BY <3>2 DEF Cut
    <3>4. answer[n] = [m \in DOMAIN ShownColumns |-> ShownRow(table[Place(n)])[ShownColumns[m]]]
      BY <2>1, <3>3 DEF Projected
    <3>5. \A m \in DOMAIN ShownColumns :
            ShownRow(table[Place(n)])[ShownColumns[m]] = Shown(table[Place(n)][ShownColumns[m]])
      BY <2>2 DEF ShownRow
    <3> QED BY <3>4, <3>5
  <2>5. Len(answer) = IF request.limit = NoLimit \/ Cardinality(FoundBy) < request.limit
                        THEN Cardinality(FoundBy) ELSE request.limit
    BY <2>3 DEF AnswerLength
  <2> QED BY <2>3, <2>4, <2>5, Zenon DEF SelectAnswers, FoundBy, ShownColumns
<1> QED BY <1>1, SelectIsKnown, PTL DEF Spec

===============================================================================
