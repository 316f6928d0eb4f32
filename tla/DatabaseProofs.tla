--------------------------- MODULE DatabaseProofs ----------------------------
(***************************************************************************)
(* Proofs about Database, for every set of tables, indexes, rows and keys, *)
(* with every statement cut short by errors and kills anywhere: types,     *)
(* that rows a client was told of stay, and that a write which succeeds    *)
(* repairs the indexes of its table.  And for statements that are not cut  *)
(* short, where no client creates an index under a used name: that indexes *)
(* match tables and catalogs match files between two statements, and that  *)
(* a select through an index finds what a scan finds.                      *)
(***************************************************************************)
EXTENDS Database, FiniteSetTheorems, SequenceTheorems, TLAPS

(* The effects that statements are made of. *)
TableKinds == {"create_page_file", "create_record_file", "reject_record_size",
               "remove_table_file", "save_catalog", "save_indexes", "close_table"}
IndexKinds == {"drop_index_file", "delete_index_file", "create_index_file", "rebuild"}

Effects ==
  (TableKinds \X Tables) \cup (IndexKinds \X Indexes)
    \cup ({"insert_row"} \X Tables \X Keys)
    \cup ({"update_rows"} \X Tables \X Keys \X (Keys \cup {NoKey}))

\* Effects that write no table file, and the one that removes it.
QuietKinds == {"reject_record_size", "remove_table_file", "save_catalog", "save_indexes",
               "drop_index_file", "delete_index_file", "create_index_file", "rebuild"}

\* The rows of a table that its client relies on, unless a drop has lost changes.
Relied(t) == {row \in acked[t] : t \notin lost}
Kept == \A t \in Tables : Relied(t) \subseteq RowsOf(table_file[t])

TableFile == [Rids -> Keys \cup {NoKey}]
IndexFile == SUBSET (Keys \X Rids)

TypeInv ==
  /\ TypeOK
  /\ table_file \in [Tables -> TableFile \cup {Missing, Broken}]
  /\ index_file \in [Indexes -> IndexFile \cup {Missing, Broken}]
  /\ todo \in Seq(Effects)

-----------------------------------------------------------------------------
(* What a statement has before it.                                         *)

\* create_table, before it writes a table file: none is overwritten that has a
\* row that somebody relies on.
Creating ==
  /\ handle = NoHandle
  /\ request[1] \notin Writes
  /\ \E t \in Tables :
       \/ todo = <<<<"create_page_file", t>>, <<"create_record_file", t>>, <<"save_catalog", t>>>>
       \/ todo = <<<<"create_page_file", t>>, <<"reject_record_size", t>>>>
       \/ Relied(t) = {} /\ todo = <<<<"create_record_file", t>>, <<"save_catalog", t>>>>

\* A statement that writes no table file, or the rest of one; a table that it
\* removes has no row that somebody relies on.
Quiet ==
  /\ handle = NoHandle
  /\ request[1] \notin Writes
  /\ \A n \in DOMAIN todo :
       /\ todo[n][1] \in QuietKinds
       /\ todo[n][1] = "remove_table_file" => Relied(todo[n][2]) = {}

Pending(i) == \E n \in DOMAIN todo : todo[n] = <<"rebuild", i>>

\* The effects from the n-th on are rebuilds of indexes on the table t.
RebuildsFrom(k, t) ==
  \A n \in DOMAIN todo : n >= k =>
    todo[n][1] = "rebuild" /\ todo[n][2] \in Indexes /\ indexes[todo[n][2]] = t

AllPending(t) == \A i \in IndexesOn(t) : Pending(i)

\* A write before its change, between change and close, and behind the close.
Changing ==
  LET t == request[2] IN
  /\ handle = NoHandle
  /\ Len(todo) >= 2
  /\ todo[1][1] \in {"insert_row", "update_rows"}
  /\ todo[1][2] = t
  /\ todo[1][1] = "update_rows" => \A row \in acked[t] : row[2] # todo[1][3]
  /\ todo[2] = <<"close_table", t>>
  /\ RebuildsFrom(3, t)
  /\ AllPending(t)

Closing ==
  LET t == request[2] IN
  /\ handle \in TableFile
  /\ table_file[t] \in TableFile
  /\ Relied(t) \subseteq RowsOf(handle)
  /\ todo # <<>>
  /\ todo[1] = <<"close_table", t>>
  /\ RebuildsFrom(2, t)
  /\ AllPending(t)

Rebuilding ==
  LET t == request[2] IN
  /\ handle = NoHandle
  /\ todo # <<>>
  /\ t \notin lost => made \subseteq RowsOf(table_file[t])
  /\ RebuildsFrom(1, t)
  /\ \A i \in IndexesOn(t) : Pending(i) \/ index_file[i] = EntriesOf(table_file[t])

Writing ==
  /\ request[1] \in Writes
  /\ request[2] \in Tables
  /\ Changing \/ Closing \/ Rebuilding

StatementInv ==
  \/ todo = <<>> /\ handle = NoHandle
  \/ Creating
  \/ Quiet
  \/ Writing

(* The inductive invariant. *)
DatabaseInv ==
  /\ TypeInv
  /\ StatementInv
  /\ Kept
  /\ SuccessfulWritesRepairIndexes

-----------------------------------------------------------------------------
(* Lemmas about files, effects and sequences of them.                      *)

LEMMA FileFacts ==
  /\ \A file \in TableFile : Readable(file) /\ file # NoHandle
  /\ \A file \in TableFile \cup {Missing, Broken} : Readable(file) => file \in TableFile
  /\ \A file \in IndexFile : Readable(file)
  /\ ~Readable(Missing) /\ ~Readable(Broken) /\ Missing # Broken
  /\ EmptyTable \in TableFile
BY ContentAssumption DEF TableFile, IndexFile, Readable, EmptyTable

LEMMA DamageFacts ==
  /\ Whole \in Damages /\ Hurt \in Damages /\ Rejected \in Damages
  /\ \A d \in Damages, worst \in Damages : d .. worst \subseteq Damages
BY DEF Damages, Whole, Hurt, Rejected

LEMMA RowsTyped ==
  ASSUME NEW file \in TableFile \cup {Missing, Broken}
  PROVE  /\ RowsOf(file) \in SUBSET (Rids \X Keys)
         /\ EntriesOf(file) \in IndexFile
<1>1. Readable(file) => file \in [Rids -> Keys \cup {NoKey}]
  BY FileFacts DEF TableFile
<1>2. RowsOf(file) \in SUBSET (Rids \X Keys)
  BY <1>1 DEF RowsOf
<1>3. EntriesOf(file) \in SUBSET (Keys \X Rids)
  BY <1>2 DEF EntriesOf
<1> QED BY <1>2, <1>3 DEF IndexFile

(* The rows of files of which a change has come through in part. *)
LEMMA RowsMixed ==
  ASSUME NEW old \in TableFile, NEW new \in TableFile, NEW S \in SUBSET Rids,
         NEW rows, rows \subseteq RowsOf(old), rows \subseteq RowsOf(new)
  PROVE  LET mixed == [r \in Rids |-> IF r \in S THEN new[r] ELSE old[r]]
         IN  mixed \in TableFile /\ rows \subseteq RowsOf(mixed)
<1> DEFINE mixed == [r \in Rids |-> IF r \in S THEN new[r] ELSE old[r]]
<1>1. mixed \in TableFile
  BY DEF TableFile
<1>2. Readable(old) /\ Readable(new) /\ Readable(mixed)
  BY <1>1, FileFacts
<1> HIDE DEF mixed
<1>3. ASSUME NEW row \in rows PROVE row \in RowsOf(mixed)
  <2>1. PICK r \in Rids : old[r] # NoKey /\ row = <<r, old[r]>>
    BY <1>2 DEF RowsOf
  <2>2. PICK q \in Rids : new[q] # NoKey /\ row = <<q, new[q]>>
    BY <1>2 DEF RowsOf
  <2>3. q = r /\ new[r] = old[r]
    BY <2>1, <2>2
  <2>4. mixed[r] = old[r]
    BY <2>3 DEF mixed
  <2> QED BY <1>2, <2>1, <2>4 DEF RowsOf
<1> QED BY <1>1, <1>3 DEF mixed

LEMMA EffectFacts ==
  ASSUME NEW e \in Effects
  PROVE  /\ e[1] \in TableKinds => e[2] \in Tables
         /\ e[1] \in IndexKinds => e[2] \in Indexes
         /\ e[1] = "insert_row" => e[2] \in Tables /\ e[3] \in Keys
         /\ e[1] = "update_rows" =>
              e[2] \in Tables /\ e[3] \in Keys /\ e[4] \in Keys \cup {NoKey}
         /\ e[1] \in TableKinds \cup IndexKinds \cup {"insert_row", "update_rows"}
BY DEF Effects, TableKinds, IndexKinds

LEMMA TodoFacts ==
  ASSUME TypeInv
  PROVE  /\ Len(todo) \in Nat /\ DOMAIN todo = 1 .. Len(todo)
         /\ \A n \in 1 .. Len(todo) : todo[n] \in Effects
         /\ todo # <<>> =>
              /\ Len(todo) >= 1 /\ 1 \in DOMAIN todo
              /\ Head(todo) = todo[1] /\ todo[1] \in Effects
              /\ Tail(todo) \in Seq(Effects) /\ Len(Tail(todo)) = Len(todo) - 1
              /\ DOMAIN Tail(todo) = 1 .. Len(todo) - 1
              /\ \A n \in 1 .. Len(todo) - 1 : Tail(todo)[n] = todo[n + 1] /\ n + 1 \in DOMAIN todo
              /\ Tail(todo) = <<>> <=> Len(todo) = 1
<1>1. todo \in Seq(Effects)
  BY DEF TypeInv
<1>2. Len(todo) \in Nat /\ DOMAIN todo = 1 .. Len(todo) /\ \A n \in 1 .. Len(todo) : todo[n] \in Effects
  BY <1>1, LenProperties, ElementOfSeq
<1>3. ASSUME todo # <<>>
      PROVE  /\ Len(todo) >= 1 /\ 1 \in DOMAIN todo
             /\ Head(todo) = todo[1] /\ todo[1] \in Effects
             /\ Tail(todo) \in Seq(Effects) /\ Len(Tail(todo)) = Len(todo) - 1
             /\ DOMAIN Tail(todo) = 1 .. Len(todo) - 1
             /\ \A n \in 1 .. Len(todo) - 1 : Tail(todo)[n] = todo[n + 1] /\ n + 1 \in DOMAIN todo
             /\ Tail(todo) = <<>> <=> Len(todo) = 1
  <2>1. Len(todo) # 0
    BY <1>1, <1>3, EmptySeq
  <2>2. /\ Head(todo) = todo[1] /\ Tail(todo) \in Seq(Effects)
        /\ Len(Tail(todo)) = Len(todo) - 1
        /\ \A n \in 1 .. Len(Tail(todo)) : Tail(todo)[n] = todo[n + 1]
    BY <1>1, <1>3, HeadTailProperties
  <2>3. DOMAIN Tail(todo) = 1 .. Len(todo) - 1
    BY <2>2, LenProperties
  <2>4. Tail(todo) = <<>> <=> Len(todo) = 1
    <3>1. Tail(todo) = <<>> <=> Len(Tail(todo)) = 0
      BY <2>2, EmptySeq
    <3> QED BY <3>1, <2>2, <1>2
  <2> QED BY <1>2, <2>1, <2>2, <2>3, <2>4
<1> QED BY <1>2, <1>3

(* The effects for the indexes of a table name all of them and no others. *)
LEMMA IndexOrder ==
  ASSUME NEW t, NEW kind
  PROVE  LET s == ForIndexesOn(t, kind) IN
         /\ s \in Seq({kind} \X IndexesOn(t))
         /\ \A n \in 1 .. Len(s) : s[n][1] = kind /\ s[n][2] \in IndexesOn(t)
         /\ \A i \in IndexesOn(t) : \E n \in 1 .. Len(s) : s[n] = <<kind, i>>
         /\ \A a, b \in 1 .. Len(s) : s[a] = s[b] => a = b
<1> DEFINE S == IndexesOn(t)
           m == Cardinality(S)
           order == SetToSeq(S)
<1>1. IsFiniteSet(S) /\ m \in Nat /\ ExistsBijection(1 .. m, S)
  <2>1. S \in SUBSET Indexes
    BY DEF IndexesOn
  <2>2. IsFiniteSet(S)
    BY <2>1, ContentAssumption, FS_Subset
  <2> QED BY <2>2, FS_CardinalityType
<1>2. \E f \in [1 .. m -> S] : IsInjective(f)
  BY <1>1 DEF ExistsBijection, Bijection, Injection
<1>3. order \in [1 .. m -> S] /\ IsInjective(order)
  BY <1>2 DEF SetToSeq
<1>4. order \in Surjection(1 .. m, S)
  <2>1. order \in Injection(1 .. m, S)
    BY <1>3 DEF Injection
  <2>2. Cardinality(1 .. m) = m
    BY <1>1, FS_Interval
  <2> QED BY <1>1, <2>1, <2>2, FS_Injection
<1>5. \A i \in S : \E n \in 1 .. m : order[n] = i
  BY <1>4 DEF Surjection
<1> HIDE DEF S, m, order
<1>6. ForIndexesOn(t, kind) = [n \in 1 .. m |-> <<kind, order[n]>>]
  BY <1>3 DEF ForIndexesOn, order, S
<1>7. ForIndexesOn(t, kind) \in Seq({kind} \X S) /\ Len(ForIndexesOn(t, kind)) = m
  BY <1>1, <1>3, <1>6
<1>8. \A n \in 1 .. m : ForIndexesOn(t, kind)[n] = <<kind, order[n]>> /\ order[n] \in S
  BY <1>3, <1>6
<1>9. \A i \in S : \E n \in 1 .. m : ForIndexesOn(t, kind)[n] = <<kind, i>>
  BY <1>5, <1>8
<1>10. \A n \in 1 .. m : ForIndexesOn(t, kind)[n][1] = kind /\ ForIndexesOn(t, kind)[n][2] \in S
  BY <1>8
<1>11. \A a, b \in 1 .. m : ForIndexesOn(t, kind)[a] = ForIndexesOn(t, kind)[b] => a = b
  <2>1. \A a, b \in 1 .. m : order[a] = order[b] => a = b
    BY <1>3 DEF IsInjective
  <2> QED BY <1>8, <2>1
<1> QED BY <1>7, <1>9, <1>10, <1>11 DEF S

LEMMA WriteEffects ==
  ASSUME NEW t \in Tables, NEW change \in Effects
  PROVE  LET s == WriteAndRebuild(t, change) IN
         /\ s \in Seq(Effects) /\ Len(s) >= 2
         /\ s[1] = change /\ s[2] = <<"close_table", t>>
         /\ \A n \in 3 .. Len(s) : s[n][1] = "rebuild" /\ s[n][2] \in IndexesOn(t)
         /\ \A i \in IndexesOn(t) : \E n \in 3 .. Len(s) : s[n] = <<"rebuild", i>>
<1> DEFINE rest == ForIndexesOn(t, "rebuild")
           first == <<change, <<"close_table", t>>>>
           all == first \o rest
<1>1. {"rebuild"} \X IndexesOn(t) \subseteq Effects
  BY DEF Effects, IndexKinds, IndexesOn
<1>2. rest \in Seq({"rebuild"} \X IndexesOn(t))
  BY IndexOrder
<1>3. rest \in Seq(Effects) /\ Len(rest) \in Nat
  BY <1>1, <1>2, SeqMonotonic, LenProperties
<1>4. <<"close_table", t>> \in Effects
  BY DEF Effects, TableKinds
<1>5. first \in Seq(Effects) /\ Len(first) = 2
  BY <1>4
<1>6. first[1] = change /\ first[2] = <<"close_table", t>>
  OBVIOUS
<1>7. /\ \A n \in 1 .. Len(rest) : rest[n][1] = "rebuild" /\ rest[n][2] \in IndexesOn(t)
      /\ \A i \in IndexesOn(t) : \E n \in 1 .. Len(rest) : rest[n] = <<"rebuild", i>>
  BY IndexOrder
<1> HIDE DEF rest, first
<1>8. /\ all \in Seq(Effects)
      /\ Len(all) = 2 + Len(rest)
      /\ \A n \in 1 .. 2 + Len(rest) : all[n] = IF n <= 2 THEN first[n] ELSE rest[n - 2]
  <2>1. /\ all \in Seq(Effects)
        /\ Len(all) = Len(first) + Len(rest)
        /\ \A n \in 1 .. Len(first) + Len(rest) :
             all[n] = IF n <= Len(first) THEN first[n] ELSE rest[n - Len(first)]
    BY <1>3, <1>5, ConcatProperties
  <2> QED BY <1>5, <2>1
<1> HIDE DEF all
<1>9. all[1] = change /\ all[2] = <<"close_table", t>> /\ Len(all) >= 2
  BY <1>3, <1>6, <1>8
<1>10. \A n \in 3 .. Len(all) : all[n] = rest[n - 2] /\ n - 2 \in 1 .. Len(rest)
  BY <1>3, <1>8
<1>11. \A n \in 3 .. Len(all) : all[n][1] = "rebuild" /\ all[n][2] \in IndexesOn(t)
  BY <1>7, <1>10
<1>12. ASSUME NEW i \in IndexesOn(t) PROVE \E n \in 3 .. Len(all) : all[n] = <<"rebuild", i>>
  <2>1. PICK n \in 1 .. Len(rest) : rest[n] = <<"rebuild", i>>
    BY <1>7
  <2>2. n + 2 \in 3 .. Len(all) /\ all[n + 2] = rest[n]
    <3>1. n + 2 \in 1 .. 2 + Len(rest) /\ ~(n + 2 <= 2) /\ (n + 2) - 2 = n
      BY <1>3
    <3> QED BY <1>3, <1>8, <3>1
  <2> QED BY <2>1, <2>2
<1>13. WriteAndRebuild(t, change) = all
  BY DEF WriteAndRebuild, Rebuilds, all, first, rest
<1> QED BY <1>8, <1>9, <1>11, <1>12, <1>13

(* drop_table, from any effect on up to the removal of its file: every index *)
(* that the table still has is before the file, once.                        *)
RestOfDrop(s, t) ==
  /\ Len(s) >= 3
  /\ s[Len(s) - 2] = <<"remove_table_file", t>>
  /\ s[Len(s) - 1] = <<"save_catalog", t>>
  /\ s[Len(s)] = <<"save_indexes", t>>
  /\ \A n \in 1 .. Len(s) - 3 : s[n][1] = "drop_index_file" /\ s[n][2] \in IndexesOn(t)
  /\ \A i \in IndexesOn(t) : \E n \in 1 .. Len(s) - 3 : s[n] = <<"drop_index_file", i>>
  /\ \A m, n \in 1 .. Len(s) - 3 : s[m] = s[n] => m = n

LEMMA DropEffects ==
  ASSUME NEW t \in Tables
  PROVE  LET s == DropTableEffects(t) IN
         /\ s \in Seq(Effects)
         /\ \A n \in 1 .. Len(s) :
              /\ s[n][1] \in QuietKinds
              /\ s[n][1] = "remove_table_file" => s[n][2] = t
         /\ RestOfDrop(s, t)
<1> DEFINE first == ForIndexesOn(t, "drop_index_file")
           rest == <<<<"remove_table_file", t>>, <<"save_catalog", t>>, <<"save_indexes", t>>>>
           all == first \o rest
<1>1. {"drop_index_file"} \X IndexesOn(t) \subseteq Effects
  BY DEF Effects, IndexKinds, IndexesOn
<1>2. first \in Seq({"drop_index_file"} \X IndexesOn(t))
  BY IndexOrder
<1>3. first \in Seq(Effects) /\ Len(first) \in Nat
  BY <1>1, <1>2, SeqMonotonic, LenProperties
<1>4. /\ \A n \in 1 .. Len(first) : first[n][1] = "drop_index_file" /\ first[n][2] \in IndexesOn(t)
      /\ \A i \in IndexesOn(t) : \E n \in 1 .. Len(first) : first[n] = <<"drop_index_file", i>>
      /\ \A m, n \in 1 .. Len(first) : first[m] = first[n] => m = n
  BY IndexOrder
<1>5. /\ <<"remove_table_file", t>> \in Effects
      /\ <<"save_catalog", t>> \in Effects
      /\ <<"save_indexes", t>> \in Effects
  BY DEF Effects, TableKinds
<1>6. rest \in Seq(Effects) /\ Len(rest) = 3
  BY <1>5
<1>7. /\ rest[1] = <<"remove_table_file", t>>
      /\ rest[2] = <<"save_catalog", t>>
      /\ rest[3] = <<"save_indexes", t>>
  OBVIOUS
<1> HIDE DEF rest, first
<1>8. /\ all \in Seq(Effects)
      /\ Len(all) = Len(first) + 3
      /\ \A n \in 1 .. Len(first) + 3 :
           all[n] = IF n <= Len(first) THEN first[n] ELSE rest[n - Len(first)]
  <2>1. /\ all \in Seq(Effects)
        /\ Len(all) = Len(first) + Len(rest)
        /\ \A n \in 1 .. Len(first) + Len(rest) :
             all[n] = IF n <= Len(first) THEN first[n] ELSE rest[n - Len(first)]
    BY <1>3, <1>6, ConcatProperties
  <2> QED BY <1>6, <2>1
<1> HIDE DEF all
<1>9. ASSUME NEW n \in 1 .. Len(all)
      PROVE  all[n][1] \in QuietKinds /\ (all[n][1] = "remove_table_file" => all[n][2] = t)
  <2>1. CASE n <= Len(first)
    <3>1. all[n] = first[n] /\ n \in 1 .. Len(first)
      BY <1>3, <1>8, <2>1
    <3> QED BY <1>4, <3>1 DEF QuietKinds
  <2>2. CASE ~(n <= Len(first))
    <3>1. n - Len(first) \in 1 .. 3 /\ all[n] = rest[n - Len(first)]
      BY <1>3, <1>8, <2>2
    <3>2. all[n] \in {rest[1], rest[2], rest[3]}
      BY <3>1
    <3> QED BY <1>7, <3>2 DEF QuietKinds
  <2> QED BY <2>1, <2>2
<1>10. DropTableEffects(t) = all
  BY DEF DropTableEffects, all, first, rest
<1>11. RestOfDrop(all, t)
  <2>1. Len(all) - 3 = Len(first) /\ Len(all) >= 3
    BY <1>3, <1>8
  <2>2. \A n \in 1 .. Len(first) : all[n] = first[n]
    BY <1>3, <1>8
  <2>3. /\ all[Len(all) - 2] = rest[1] /\ all[Len(all) - 1] = rest[2] /\ all[Len(all)] = rest[3]
    <3>1. \A j \in 1 .. 3 :
            Len(first) + j \in 1 .. Len(first) + 3 /\ ~(Len(first) + j <= Len(first))
              /\ (Len(first) + j) - Len(first) = j
      BY <1>3
    <3>2. \A j \in 1 .. 3 : all[Len(first) + j] = rest[j]
      BY <1>8, <3>1
    <3>3. Len(all) - 2 = Len(first) + 1 /\ Len(all) - 1 = Len(first) + 2 /\ Len(all) = Len(first) + 3
      BY <1>3, <1>8
    <3> QED BY <3>2, <3>3
  <2>4. \A n \in 1 .. Len(first) : all[n][1] = "drop_index_file" /\ all[n][2] \in IndexesOn(t)
    BY <1>4, <2>2
  <2>5. \A i \in IndexesOn(t) : \E n \in 1 .. Len(first) : all[n] = <<"drop_index_file", i>>
    BY <1>4, <2>2
  <2>6. \A m, n \in 1 .. Len(first) : all[m] = all[n] => m = n
    BY <1>4, <2>2
  <2> QED BY <1>7, <2>1, <2>3, <2>4, <2>5, <2>6 DEF RestOfDrop
<1> QED BY <1>8, <1>9, <1>10, <1>11

-----------------------------------------------------------------------------
(* The initial state, and the steps with which statements begin.           *)

LEMMA InitInv == Init => DatabaseInv
<1> SUFFICES ASSUME Init PROVE DatabaseInv
  OBVIOUS
<1>1. TypeInv
  <2>1. TypeOK
    BY FileFacts, DamageFacts DEF Init, TypeOK, NoIndexes
  <2>2. todo \in Seq(Effects)
    BY DEF Init
  <2> QED BY <2>1, <2>2 DEF Init, TypeInv
<1>2. StatementInv
  BY DEF Init, StatementInv
<1>3. Kept
  BY DEF Init, Kept, Relied
<1>4. SuccessfulWritesRepairIndexes
  BY DEF Init, SuccessfulWritesRepairIndexes, Writes
<1> QED BY <1>1, <1>2, <1>3, <1>4 DEF DatabaseInv

LEMMA IdleFacts ==
  ASSUME DatabaseInv, Idle
  PROVE  handle = NoHandle
BY DEF DatabaseInv, StatementInv, Creating, Quiet, Writing, Changing, Closing, Rebuilding, Idle

(* A statement that has only begun has changed nothing; its client relies on *)
(* no more rows than before.                                                 *)
LEMMA BeginKeeps ==
  ASSUME DatabaseInv, NEW call, NEW t \in Tables, NEW k, NEW effects \in Seq(Effects),
         Begin(call, t, k, effects),
         UNCHANGED <<open, tables>>,
         indexes' \in [Indexes -> Tables \cup {NoTable}],
         acked' \in [Tables -> SUBSET (Rids \X Keys)], lost' \subseteq Tables,
         \A u \in Tables : acked'[u] \subseteq acked[u] /\ (u \notin lost' => u \notin lost \/ acked'[u] = {})
  PROVE  /\ TypeInv' /\ Kept' /\ SuccessfulWritesRepairIndexes'
         /\ handle' = NoHandle
<1>1. handle' = NoHandle
  BY IdleFacts DEF Begin
<1>2. TypeInv'
  <2>1. todo' \in Seq(Effects)
    BY DEF Begin
  <2>2. /\ request'[2] \in Tables \cup {NoTable}
        /\ answer' \in {"ok", "error", "running", "rows"} \X SUBSET (Rids \X Keys)
    BY DEF Begin
  <2>3. TypeOK'
    BY <1>1, <2>2 DEF DatabaseInv, TypeInv, TypeOK, Begin, catalogs, files
  <2> QED BY <2>1, <2>3 DEF DatabaseInv, TypeInv, Begin, files
<1>3. Kept'
  BY DEF DatabaseInv, Kept, Relied, Begin, files, RowsOf
<1>4. SuccessfulWritesRepairIndexes'
  BY DEF SuccessfulWritesRepairIndexes, Begin
<1> QED BY <1>1, <1>2, <1>3, <1>4

LEMMA Joined ==
  ASSUME NEW S, NEW a \in S, NEW b \in S, NEW c \in S
  PROVE  <<a>> \o <<b, c>> = <<a, b, c>> /\ <<a>> \o <<b>> = <<a, b>>
<1>1. /\ <<a>> \in Seq(S) /\ <<b>> \in Seq(S) /\ <<b, c>> \in Seq(S)
      /\ <<a, b>> \in Seq(S) /\ <<a, b, c>> \in Seq(S)
  OBVIOUS
<1>2. <<a>> \o <<b, c>> = <<a, b, c>>
  <2> DEFINE all == <<a>> \o <<b, c>>
  <2>1. /\ all \in Seq(S) /\ Len(all) = 1 + 2
        /\ \A i \in 1 .. 1 + 2 : all[i] = IF i <= 1 THEN <<a>>[i] ELSE <<b, c>>[i - 1]
    BY <1>1, ConcatProperties
  <2> HIDE DEF all
  <2>2. all[1] = a /\ all[2] = b /\ all[3] = c /\ Len(all) = 3
    BY <2>1
  <2>3. all = <<a, b, c>>
    BY <2>1, <2>2
  <2> QED BY <2>3 DEF all
<1>3. <<a>> \o <<b>> = <<a, b>>
  <2> DEFINE all == <<a>> \o <<b>>
  <2>1. /\ all \in Seq(S) /\ Len(all) = 1 + 1
        /\ \A i \in 1 .. 1 + 1 : all[i] = IF i <= 1 THEN <<a>>[i] ELSE <<b>>[i - 1]
    BY <1>1, ConcatProperties
  <2> HIDE DEF all
  <2>2. all[1] = a /\ all[2] = b /\ Len(all) = 2
    BY <2>1
  <2>3. all = <<a, b>>
    BY <2>1, <2>2
  <2> QED BY <2>3 DEF all
<1> QED BY <1>2, <1>3

LEMMA CreateEffects ==
  ASSUME NEW t \in Tables, NEW fits \in BOOLEAN
  PROVE  LET effects == <<<<"create_page_file", t>>>>
                          \o IF fits THEN <<<<"create_record_file", t>>, <<"save_catalog", t>>>>
                                     ELSE <<<<"reject_record_size", t>>>>
         IN \/ effects = <<<<"create_page_file", t>>, <<"create_record_file", t>>, <<"save_catalog", t>>>>
            \/ effects = <<<<"create_page_file", t>>, <<"reject_record_size", t>>>>
<1>1. /\ <<"create_page_file", t>> \in Effects
      /\ <<"create_record_file", t>> \in Effects
      /\ <<"save_catalog", t>> \in Effects
      /\ <<"reject_record_size", t>> \in Effects
  BY DEF Effects, TableKinds
<1>2. PICK a \in Effects : a = <<"create_page_file", t>>
  BY <1>1
<1>3. PICK b \in Effects : b = <<"create_record_file", t>>
  BY <1>1
<1>4. PICK c \in Effects : c = <<"save_catalog", t>>
  BY <1>1
<1>5. PICK d \in Effects : d = <<"reject_record_size", t>>
  BY <1>1
<1>6. <<a>> \o <<b, c>> = <<a, b, c>> /\ <<a>> \o <<d>> = <<a, d>>
  BY Joined
<1>7. CASE fits
  <2>1. <<a>> \o (IF fits THEN <<b, c>> ELSE <<d>>) = <<a, b, c>>
    BY <1>6, <1>7, Zenon
  <2> QED BY <1>2, <1>3, <1>4, <1>5, <2>1, Zenon
<1>8. CASE ~fits
  <2>1. <<a>> \o (IF fits THEN <<b, c>> ELSE <<d>>) = <<a, d>>
    BY <1>6, <1>8, Zenon
  <2> QED BY <1>2, <1>3, <1>4, <1>5, <2>1, Zenon
<1> QED BY <1>7, <1>8

LEMMA CreateTableInv ==
  ASSUME DatabaseInv, NEW t \in Tables, NEW fits \in BOOLEAN, CreateTable(t, fits)
  PROVE  DatabaseInv'
<1> DEFINE effects == <<<<"create_page_file", t>>>>
                        \o IF fits THEN <<<<"create_record_file", t>>, <<"save_catalog", t>>>>
                                   ELSE <<<<"reject_record_size", t>>>>
<1>1. \/ effects = <<<<"create_page_file", t>>, <<"create_record_file", t>>, <<"save_catalog", t>>>>
      \/ effects = <<<<"create_page_file", t>>, <<"reject_record_size", t>>>>
  BY CreateEffects
<1>2. effects \in Seq(Effects)
  <2>1. \A kind \in TableKinds : <<kind, t>> \in Effects
    BY DEF Effects
  <2>2. /\ <<"create_page_file", t>> \in Effects
        /\ <<"create_record_file", t>> \in Effects
        /\ <<"save_catalog", t>> \in Effects
        /\ <<"reject_record_size", t>> \in Effects
    BY <2>1 DEF TableKinds
  <2> QED BY <1>1, <2>2
<1>3. Begin("create_table", t, NoKey, effects) /\ UNCHANGED <<memory, acked, lost>>
  BY DEF CreateTable
<1> HIDE DEF effects
<1>4. /\ TypeInv' /\ Kept' /\ SuccessfulWritesRepairIndexes'
      /\ handle' = NoHandle
  BY <1>2, <1>3, BeginKeeps DEF memory, DatabaseInv, TypeInv, TypeOK
<1>5. Creating'
  BY <1>1, <1>3, <1>4 DEF Creating, Begin, Writes
<1> QED BY <1>4, <1>5 DEF DatabaseInv, StatementInv

LEMMA DropTableInv ==
  ASSUME DatabaseInv, NEW t \in Tables, DropTable(t)
  PROVE  DatabaseInv'
<1> DEFINE effects == DropTableEffects(t)
<1>1. /\ effects \in Seq(Effects)
      /\ \A n \in 1 .. Len(effects) :
           effects[n][1] \in QuietKinds /\ (effects[n][1] = "remove_table_file" => effects[n][2] = t)
  BY DropEffects
<1>2. Begin("drop_table", t, NoKey, effects) /\ UNCHANGED memory
  BY DEF DropTable
<1>3. DOMAIN effects = 1 .. Len(effects)
  BY <1>1, LenProperties
<1>4. /\ acked' \in [Tables -> SUBSET (Rids \X Keys)]
      /\ acked'[t] = {} /\ lost' \subseteq Tables /\ Relied(t)' = {}
      /\ \A u \in Tables : acked'[u] \subseteq acked[u] /\ (u \notin lost' => u \notin lost \/ acked'[u] = {})
  BY DEF DropTable, Relied, DatabaseInv, TypeInv, TypeOK
<1> HIDE DEF effects
<1>5. /\ TypeInv' /\ Kept' /\ SuccessfulWritesRepairIndexes'
      /\ handle' = NoHandle
  BY <1>1, <1>2, <1>4, BeginKeeps DEF memory, DatabaseInv, TypeInv, TypeOK
<1>6. Quiet'
  <2>1. todo' = effects /\ request'[1] = "drop_table"
    BY <1>2 DEF Begin
  <2> QED BY <1>1, <1>3, <1>4, <1>5, <2>1 DEF Quiet, Writes
<1> QED BY <1>5, <1>6 DEF DatabaseInv, StatementInv

LEMMA CreateIndexInv ==
  ASSUME DatabaseInv, NEW i \in Indexes, NEW t \in Tables, CreateIndex(i, t)
  PROVE  DatabaseInv'
<1> DEFINE effects == <<<<"create_index_file", i>>, <<"save_indexes", t>>, <<"rebuild", i>>>>
<1>1. effects \in Seq(Effects)
  <2>1. /\ <<"create_index_file", i>> \in Effects
        /\ <<"save_indexes", t>> \in Effects
        /\ <<"rebuild", i>> \in Effects
    BY DEF Effects, TableKinds, IndexKinds
  <2> QED BY <2>1
<1>2. Begin("create_index", t, NoKey, effects) /\ UNCHANGED <<memory, acked, lost>>
  BY DEF CreateIndex
<1>3. \A n \in DOMAIN effects :
        effects[n][1] \in {"create_index_file", "save_indexes", "rebuild"}
  OBVIOUS
<1> HIDE DEF effects
<1>4. /\ TypeInv' /\ Kept' /\ SuccessfulWritesRepairIndexes'
      /\ handle' = NoHandle
  BY <1>1, <1>2, BeginKeeps DEF memory, DatabaseInv, TypeInv, TypeOK
<1>5. Quiet'
  <2>1. todo' = effects /\ request'[1] = "create_index"
    BY <1>2 DEF Begin
  <2> QED BY <1>3, <1>4, <2>1 DEF Quiet, QuietKinds, Writes
<1> QED BY <1>4, <1>5 DEF DatabaseInv, StatementInv

LEMMA DropIndexInv ==
  ASSUME DatabaseInv, NEW i \in Indexes, DropIndex(i)
  PROVE  DatabaseInv'
<1> DEFINE t == indexes[i]
           effects == <<<<"delete_index_file", i>>, <<"save_indexes", t>>>>
<1>1. t \in Tables
  BY DEF DropIndex, DatabaseInv, TypeInv, TypeOK
<1>2. effects \in Seq(Effects)
  <2>1. <<"delete_index_file", i>> \in Effects /\ <<"save_indexes", t>> \in Effects
    BY <1>1 DEF Effects, TableKinds, IndexKinds
  <2> QED BY <2>1
<1>3. Begin("drop_index", t, NoKey, effects) /\ UNCHANGED <<open, tables, acked, lost>>
  BY DEF DropIndex
<1>4. \A n \in DOMAIN effects : effects[n][1] \in {"delete_index_file", "save_indexes"}
  OBVIOUS
<1>5. indexes' \in [Indexes -> Tables \cup {NoTable}]
  BY DEF DropIndex, DatabaseInv, TypeInv, TypeOK
<1> HIDE DEF effects, t
<1>6. /\ TypeInv' /\ Kept' /\ SuccessfulWritesRepairIndexes'
      /\ handle' = NoHandle
  BY <1>1, <1>2, <1>3, <1>5, BeginKeeps DEF DatabaseInv, TypeInv, TypeOK
<1>7. Quiet'
  <2>1. todo' = effects /\ request'[1] = "drop_index"
    BY <1>3 DEF Begin
  <2> QED BY <1>4, <1>6, <2>1 DEF Quiet, QuietKinds, Writes
<1> QED BY <1>6, <1>7 DEF DatabaseInv, StatementInv

(* A write has its rebuilds before it, and its change is to no row that its *)
(* client still relies on.                                                  *)
LEMMA WriteBegins ==
  ASSUME DatabaseInv, NEW t \in Tables, NEW change \in Effects, NEW call \in Writes, NEW k,
         change[1] \in {"insert_row", "update_rows"}, change[2] = t,
         Begin(call, t, k, WriteAndRebuild(t, change)),
         UNCHANGED <<memory, lost>>,
         acked' \in [Tables -> SUBSET (Rids \X Keys)],
         \A u \in Tables : acked'[u] \subseteq acked[u],
         change[1] = "update_rows" => \A row \in acked'[t] : row[2] # change[3]
  PROVE  DatabaseInv'
<1> DEFINE effects == WriteAndRebuild(t, change)
<1>1. /\ effects \in Seq(Effects) /\ Len(effects) >= 2
      /\ effects[1] = change /\ effects[2] = <<"close_table", t>>
      /\ \A n \in 3 .. Len(effects) : effects[n][1] = "rebuild" /\ effects[n][2] \in IndexesOn(t)
      /\ \A i \in IndexesOn(t) : \E n \in 3 .. Len(effects) : effects[n] = <<"rebuild", i>>
  BY WriteEffects
<1>2. Begin(call, t, k, effects)
  OBVIOUS
<1> HIDE DEF effects
<1>3. /\ TypeInv' /\ Kept' /\ SuccessfulWritesRepairIndexes'
      /\ handle' = NoHandle
  BY <1>1, <1>2, BeginKeeps DEF memory, DatabaseInv, TypeInv, TypeOK
<1>4. todo' = effects /\ request'[1] = call /\ request'[2] = t /\ indexes' = indexes
  BY <1>2 DEF Begin, memory
<1>5. DOMAIN effects = 1 .. Len(effects) /\ Len(effects) \in Nat
  BY <1>1, LenProperties
<1>6. RebuildsFrom(3, t)'
  <2>1. \A n \in DOMAIN effects : n >= 3 => n \in 3 .. Len(effects)
    BY <1>5
  <2> QED BY <1>1, <1>4, <2>1 DEF RebuildsFrom, IndexesOn
<1>7. AllPending(t)'
  <2>1. IndexesOn(t)' = IndexesOn(t)
    BY <1>4 DEF IndexesOn
  <2>2. 3 .. Len(effects) \subseteq DOMAIN effects
    BY <1>5
  <2> QED BY <1>1, <1>4, <2>1, <2>2 DEF AllPending, Pending
<1>8. Changing'
  BY <1>1, <1>3, <1>4, <1>6, <1>7 DEF Changing
<1> QED BY <1>3, <1>4, <1>8 DEF DatabaseInv, StatementInv, Writing

LEMMA InsertInv ==
  ASSUME DatabaseInv, NEW t \in Tables, NEW k \in Keys, Insert(t, k)
  PROVE  DatabaseInv'
<1> DEFINE change == <<"insert_row", t, k>>
<1>1. change \in Effects
  BY DEF Effects
<1>2. Begin("insert", t, k, WriteAndRebuild(t, change)) /\ UNCHANGED <<memory, acked, lost>>
  BY DEF Insert
<1>3. acked' \in [Tables -> SUBSET (Rids \X Keys)]
  BY <1>2 DEF DatabaseInv, TypeInv, TypeOK
<1>4. change[1] = "insert_row" /\ change[2] = t
  OBVIOUS
<1> HIDE DEF change
<1> QED BY <1>1, <1>2, <1>3, <1>4, WriteBegins DEF Writes

LEMMA UpdateInv ==
  ASSUME DatabaseInv, NEW t \in Tables, NEW k \in Keys, NEW new \in Keys, Update(t, k, new)
  PROVE  DatabaseInv'
<1> DEFINE change == <<"update_rows", t, k, new>>
<1>1. change \in Effects
  BY DEF Effects
<1>2. Begin("update", t, k, WriteAndRebuild(t, change)) /\ UNCHANGED <<memory, lost>>
  BY DEF Update
<1>3. /\ acked' \in [Tables -> SUBSET (Rids \X Keys)]
      /\ \A u \in Tables : acked'[u] \subseteq acked[u]
      /\ \A row \in acked'[t] : row[2] # k
  BY DEF Update, DatabaseInv, TypeInv, TypeOK
<1>4. change[1] = "update_rows" /\ change[2] = t /\ change[3] = k
  OBVIOUS
<1> HIDE DEF change
<1> QED BY <1>1, <1>2, <1>3, <1>4, WriteBegins DEF Writes

LEMMA DeleteInv ==
  ASSUME DatabaseInv, NEW t \in Tables, NEW k \in Keys, Delete(t, k)
  PROVE  DatabaseInv'
<1> DEFINE change == <<"update_rows", t, k, NoKey>>
<1>1. change \in Effects
  BY DEF Effects
<1>2. Begin("delete", t, k, WriteAndRebuild(t, change)) /\ UNCHANGED <<memory, lost>>
  BY DEF Delete
<1>3. /\ acked' \in [Tables -> SUBSET (Rids \X Keys)]
      /\ \A u \in Tables : acked'[u] \subseteq acked[u]
      /\ \A row \in acked'[t] : row[2] # k
  BY DEF Delete, DatabaseInv, TypeInv, TypeOK
<1>4. change[1] = "update_rows" /\ change[2] = t /\ change[3] = k
  OBVIOUS
<1> HIDE DEF change
<1> QED BY <1>1, <1>2, <1>3, <1>4, WriteBegins DEF Writes

(* A select, and a restart between two statements, write no file. *)
LEMMA SelectInv ==
  ASSUME DatabaseInv, NEW t \in Tables, NEW k, NEW rows, Select(t, k, rows),
         rows \in {"error", "rows"} \X SUBSET (Rids \X Keys)
  PROVE  DatabaseInv'
<1>1. /\ UNCHANGED <<open, tables, indexes, handle, disk_tables, disk_indexes, table_file,
                     damage, index_file, todo, disturbed, made, acked, lost>>
      /\ request' = <<"select", t, k>> /\ answer' = rows /\ todo = <<>>
  BY DEF Select, memory, catalogs, files, history, Idle
<1>2. TypeInv'
  <2>1. request'[2] \in Tables \cup {NoTable}
    BY <1>1
  <2>2. answer' \in {"ok", "error", "running", "rows"} \X SUBSET (Rids \X Keys)
    BY <1>1
  <2> QED BY <1>1, <2>1, <2>2 DEF DatabaseInv, TypeInv, TypeOK
<1>3. StatementInv'
  BY <1>1, IdleFacts DEF StatementInv, Idle
<1>4. Kept'
  BY <1>1 DEF DatabaseInv, Kept, Relied, RowsOf
<1>5. SuccessfulWritesRepairIndexes'
  BY <1>1 DEF SuccessfulWritesRepairIndexes, Writes
<1> QED BY <1>2, <1>3, <1>4, <1>5 DEF DatabaseInv

(* The index that answers is one on the table. *)
LEMMA IndexForIs ==
  ASSUME NEW t, IndexesOn(t) # {}
  PROVE  IndexFor(t) \in IndexesOn(t)
<1> DEFINE s == ForIndexesOn(t, "rebuild")
<1>1. /\ s \in Seq({"rebuild"} \X IndexesOn(t))
      /\ \A n \in 1 .. Len(s) : s[n][1] = "rebuild" /\ s[n][2] \in IndexesOn(t)
      /\ \A i \in IndexesOn(t) : \E n \in 1 .. Len(s) : s[n] = <<"rebuild", i>>
  BY IndexOrder
<1>2. DOMAIN s = 1 .. Len(s) /\ Len(s) \in Nat
  BY <1>1, LenProperties
<1>3. DOMAIN SetToSeq(IndexesOn(t)) = DOMAIN s
  BY DEF ForIndexesOn
<1>4. 1 \in DOMAIN s
  BY <1>1, <1>2
<1>5. s[1] = <<"rebuild", SetToSeq(IndexesOn(t))[1]>>
  BY <1>3, <1>4 DEF ForIndexesOn
<1> QED BY <1>1, <1>2, <1>4, <1>5 DEF IndexFor

LEMMA SelectsInv ==
  ASSUME DatabaseInv, NEW t \in Tables, NEW k \in Keys,
         SelectByScan(t, k) \/ SelectByIndex(t, k) \/ SelectFails(t, k)
  PROVE  DatabaseInv'
<1>1. /\ table_file[t] \in TableFile \cup {Missing, Broken}
      /\ \A i \in Indexes : index_file[i] \in IndexFile \cup {Missing, Broken}
  BY DEF DatabaseInv, TypeInv
<1>2. CASE SelectByScan(t, k)
  <2>1. {row \in RowsOf(table_file[t]) : row[2] = k} \in SUBSET (Rids \X Keys)
    BY <1>1, RowsTyped
  <2> QED BY <1>2, <2>1, SelectInv DEF SelectByScan
<1>3. CASE SelectByIndex(t, k)
  <2> DEFINE found == LookupEq(IndexFor(t), k)
             rows == {<<r, table_file[t][r]>> : r \in found}
  <2>1. IndexFor(t) \in Indexes
    BY <1>3, IndexForIs DEF SelectByIndex, IndexesOn
  <2>2. /\ table_file[t] \in TableFile /\ index_file[IndexFor(t)] \in IndexFile
        /\ \A r \in found : table_file[t][r] # NoKey
    BY <1>1, <1>3, <2>1, FileFacts DEF SelectByIndex, Answerable, Opens, Readable
  <2>3. found \subseteq Rids
    BY <2>2 DEF LookupEq, IndexFile
  <2>4. rows \in SUBSET (Rids \X Keys)
    BY <2>2, <2>3 DEF TableFile
  <2>5. Select(t, k, <<"rows", rows>>)
    BY <1>3 DEF SelectByIndex
  <2> QED BY <2>4, <2>5, SelectInv
<1>4. CASE SelectFails(t, k)
  BY <1>4, SelectInv DEF SelectFails
<1> QED BY <1>2, <1>3, <1>4

LEMMA LoadTyped ==
  ASSUME Load,
         disk_tables' # Broken => disk_tables' \subseteq Tables,
         disk_indexes' # Broken => disk_indexes' \in [Indexes -> Tables \cup {NoTable}]
  PROVE  /\ open' \in BOOLEAN
         /\ tables' \subseteq Tables
         /\ indexes' \in [Indexes -> Tables \cup {NoTable}]
         /\ handle' = NoHandle
         /\ request'[1] = "open" /\ request'[2] = NoTable
         /\ answer' \in {"ok", "error", "running", "rows"} \X SUBSET (Rids \X Keys)
<1>1. CASE disk_tables' # Broken /\ disk_indexes' # Broken
  BY <1>1 DEF Load
<1>2. CASE ~(disk_tables' # Broken /\ disk_indexes' # Broken)
  BY <1>2 DEF Load, NoIndexes
<1> QED BY <1>1, <1>2

LEMMA ReopenInv ==
  ASSUME DatabaseInv, Reopen
  PROVE  DatabaseInv'
<1>1. UNCHANGED <<disk_tables, disk_indexes, table_file, damage, index_file, todo, disturbed, made,
                   acked, lost>>
  BY DEF Reopen, catalogs, files, history
<1>2. /\ open' \in BOOLEAN
      /\ tables' \subseteq Tables
      /\ indexes' \in [Indexes -> Tables \cup {NoTable}]
      /\ handle' = NoHandle
      /\ request'[1] = "open" /\ request'[2] = NoTable
      /\ answer' \in {"ok", "error", "running", "rows"} \X SUBSET (Rids \X Keys)
  BY <1>1, LoadTyped DEF Reopen, DatabaseInv, TypeInv, TypeOK
<1>3. TypeInv'
  BY <1>1, <1>2 DEF DatabaseInv, TypeInv, TypeOK
<1>4. StatementInv'
  BY <1>1, <1>2 DEF Reopen, Idle, StatementInv
<1>5. Kept'
  BY <1>1 DEF DatabaseInv, Kept, Relied, RowsOf
<1>6. SuccessfulWritesRepairIndexes'
  BY <1>2 DEF SuccessfulWritesRepairIndexes, Writes
<1> QED BY <1>3, <1>4, <1>5, <1>6 DEF DatabaseInv

-----------------------------------------------------------------------------
(* The effects.                                                            *)

(* The kind of an effect says which statement it belongs to. *)
LEMMA WhoseEffect ==
  ASSUME DatabaseInv, todo # <<>>
  PROVE  LET kind == todo[1][1] IN
         /\ kind \in {"create_page_file", "create_record_file"} => Creating
         /\ kind \in QuietKinds \ {"rebuild"} => Quiet
         /\ kind = "rebuild" => Quiet \/ (Writing /\ Rebuilding)
         /\ kind \in {"insert_row", "update_rows"} => Writing /\ Changing
         /\ kind = "close_table" => Writing /\ Closing
         /\ kind # "close_table" => handle = NoHandle
<1> DEFINE kind == todo[1][1]
<1>1. 1 \in DOMAIN todo
  BY TodoFacts DEF DatabaseInv
<1>2. CASE Creating
  <2>1. kind \in {"create_page_file", "create_record_file"}
    BY <1>2 DEF Creating
  <2> QED BY <1>2, <2>1 DEF QuietKinds, Creating
<1>3. CASE Quiet
  <2>1. kind \in QuietKinds /\ handle = NoHandle
    BY <1>1, <1>3 DEF Quiet
  <2> QED BY <1>3, <2>1 DEF QuietKinds
<1>4. CASE Writing /\ Changing
  <2>1. kind \in {"insert_row", "update_rows"} /\ handle = NoHandle
    BY <1>4 DEF Changing
  <2> QED BY <1>4, <2>1 DEF QuietKinds
<1>5. CASE Writing /\ Closing
  <2>1. kind = "close_table"
    BY <1>5 DEF Closing
  <2> QED BY <1>5, <2>1 DEF QuietKinds
<1>6. CASE Writing /\ Rebuilding
  <2>1. kind = "rebuild" /\ handle = NoHandle
    BY <1>1, <1>6, TodoFacts DEF DatabaseInv, Rebuilding, RebuildsFrom
  <2> QED BY <1>6, <2>1 DEF QuietKinds
<1> QED BY <1>2, <1>3, <1>4, <1>5, <1>6 DEF DatabaseInv, StatementInv, Writing

LEMMA DoingFacts ==
  ASSUME DatabaseInv, NEW kind, Doing(kind)
  PROVE  /\ todo # <<>> /\ todo[1][1] = kind /\ Subject = todo[1][2] /\ Head(todo) = todo[1]
         /\ kind \in TableKinds \cup {"insert_row", "update_rows"} => Subject \in Tables
         /\ kind \in IndexKinds => Subject \in Indexes
BY TodoFacts, EffectFacts DEF DatabaseInv, Doing, Subject

(* What a statement that goes on has to show. *)
LEMMA EffectDone ==
  ASSUME DatabaseInv, todo # <<>>,
         NEW rows \in SUBSET (Rids \X Keys), Proceed(rows), request' = request,
         disturbed' \in BOOLEAN, damage' \in [Tables -> Damages], open' = open, tables' \subseteq Tables,
         indexes' \in [Indexes -> Tables \cup {NoTable}],
         disk_tables' # Broken => disk_tables' \subseteq Tables,
         disk_indexes' # Broken => disk_indexes' \in [Indexes -> Tables \cup {NoTable}],
         table_file' \in [Tables -> TableFile \cup {Missing, Broken}],
         index_file' \in [Indexes -> IndexFile \cup {Missing, Broken}],
         handle' = NoHandle \/ handle' \in TableFile,
         \A t \in Tables : Relied(t) \subseteq RowsOf(table_file'[t]),
         todo' = <<>> => handle' = NoHandle,
         todo' # <<>> => StatementInv',
         lost \subseteq lost', lost' \subseteq Tables,
         todo' = <<>> /\ request[1] \in Writes /\ request[2] \notin lost' =>
           rows \subseteq RowsOf(table_file'[request[2]]),
         todo' = <<>> /\ request[1] \in Writes =>
           \A i \in IndexesOn(request[2])' : index_file'[i] = EntriesOf(table_file[request[2]])'
  PROVE  DatabaseInv'
<1>1. todo' \in Seq(Effects)
  BY TodoFacts DEF DatabaseInv, Proceed
<1>2. answer' \in {"ok", "error", "running", "rows"} \X SUBSET (Rids \X Keys)
  BY DEF DatabaseInv, TypeInv, TypeOK, Proceed
<1>3. request[1] \in Writes => request[2] \in Tables
  BY DEF DatabaseInv, StatementInv, Creating, Quiet, Writing
<1>4. /\ acked' \in [Tables -> SUBSET (Rids \X Keys)]
      /\ \A t \in Tables : t \notin lost' =>
           acked'[t] = acked[t] \/ acked'[t] \subseteq RowsOf(table_file'[t])
      /\ made' \subseteq Rids \X Keys
  <2>1. acked \in [Tables -> SUBSET (Rids \X Keys)]
    BY DEF DatabaseInv, TypeInv, TypeOK
  <2>2. CASE Len(todo) = 1 /\ request[1] \in Writes
    <3>1. acked' = [acked EXCEPT ![request[2]] = rows] /\ made' = {} /\ todo' = Tail(todo)
      BY <2>2 DEF Proceed
    <3>2. todo' = <<>>
      BY <2>2, <3>1, TodoFacts DEF DatabaseInv
    <3> QED BY <1>3, <2>1, <2>2, <3>1, <3>2
  <2>3. CASE ~(Len(todo) = 1 /\ request[1] \in Writes)
    BY <2>1, <2>3 DEF Proceed
  <2> QED BY <2>2, <2>3
<1>5. TypeInv'
  <2>1. TypeOK'
    BY <1>2, <1>4, FileFacts DEF DatabaseInv, TypeInv, TypeOK, TableFile, IndexFile
  <2> QED BY <1>1, <2>1 DEF TypeInv
<1>6. StatementInv'
  BY DEF StatementInv
<1>7. Kept'
  <2>1. \A t \in Tables : RowsOf(table_file'[t]) = RowsOf(table_file[t])'
    BY DEF RowsOf
  <2> QED BY <1>4, <2>1 DEF Kept, Relied
<1>8. SuccessfulWritesRepairIndexes'
  BY DEF SuccessfulWritesRepairIndexes, Idle
<1> QED BY <1>5, <1>6, <1>7, <1>8 DEF DatabaseInv

LEMMA EffectFails ==
  ASSUME DatabaseInv, Abort, handle = NoHandle,
         UNCHANGED <<memory, handle, catalogs, table_file, damage>>,
         index_file' \in [Indexes -> IndexFile \cup {Missing, Broken}]
  PROVE  DatabaseInv'
<1>1. /\ UNCHANGED <<open, tables, indexes, handle, disk_tables, disk_indexes, table_file,
                     damage, request, disturbed, acked, lost>>
      /\ todo' = <<>> /\ answer' = <<"error", {}>> /\ made' = {}
  BY DEF Abort, memory, catalogs
<1>2. TypeInv'
  <2>1. TypeOK'
    BY <1>1, FileFacts DEF DatabaseInv, TypeInv, TypeOK, TableFile, IndexFile
  <2> QED BY <1>1, <2>1 DEF DatabaseInv, TypeInv
<1>3. StatementInv'
  BY <1>1 DEF StatementInv
<1>4. Kept'
  BY <1>1 DEF DatabaseInv, Kept, Relied, RowsOf
<1>5. SuccessfulWritesRepairIndexes'
  BY <1>1 DEF SuccessfulWritesRepairIndexes
<1> QED BY <1>2, <1>3, <1>4, <1>5 DEF DatabaseInv

LEMMA QuietGoesOn ==
  ASSUME DatabaseInv, Quiet, todo # <<>>, NEW rows, Proceed(rows), request' = request,
         handle' = handle, lost' = lost
  PROVE  Quiet'
<1>1. acked' = acked /\ todo' = Tail(todo)
  BY DEF Quiet, Proceed
<1>2. \A n \in DOMAIN todo' : todo'[n] = todo[n + 1] /\ n + 1 \in DOMAIN todo
  BY <1>1, TodoFacts DEF DatabaseInv
<1>3. \A t : Relied(t)' = Relied(t)
  BY <1>1 DEF Relied
<1> QED BY <1>1, <1>2, <1>3 DEF Quiet

(* A quiet effect has only to show what it makes of the files. *)
LEMMA QuietDone ==
  ASSUME DatabaseInv, Quiet, todo # <<>>, Advance,
         UNCHANGED <<open, handle>>, tables' \subseteq Tables,
         indexes' \in [Indexes -> Tables \cup {NoTable}],
         disk_tables' # Broken => disk_tables' \subseteq Tables,
         disk_indexes' # Broken => disk_indexes' \in [Indexes -> Tables \cup {NoTable}],
         table_file' \in [Tables -> TableFile \cup {Missing, Broken}],
         damage' \in [Tables -> Damages],
         index_file' \in [Indexes -> IndexFile \cup {Missing, Broken}],
         \A t \in Tables : Relied(t) \subseteq RowsOf(table_file'[t])
  PROVE  DatabaseInv'
<1>1. Quiet'
  BY QuietGoesOn DEF Advance
<1>2. /\ Proceed(made) /\ made \in SUBSET (Rids \X Keys) /\ request' = request /\ disturbed' \in BOOLEAN
      /\ handle' = NoHandle /\ request[1] \notin Writes /\ open' = open
      /\ lost \subseteq lost' /\ lost' \subseteq Tables
  BY DEF Advance, Quiet, DatabaseInv, TypeInv, TypeOK
<1>3. StatementInv'
  BY <1>1 DEF StatementInv
<1> QED BY <1>2, <1>3, EffectDone

LEMMA CreatePageFileInv ==
  ASSUME DatabaseInv, CreatePageFile
  PROVE  DatabaseInv'
<1> DEFINE t == Subject
<1>1. /\ todo # <<>> /\ todo[1][1] = "create_page_file" /\ t = todo[1][2] /\ t \in Tables
  BY DoingFacts DEF CreatePageFile, TableKinds
<1>2. Creating /\ handle = NoHandle /\ request[1] \notin Writes
  BY <1>1, WhoseEffect DEF Creating
<1>3. CASE table_file[t] = Missing
  <2>1. Advance /\ table_file' = [table_file EXCEPT ![t] = Broken]
    BY <1>3 DEF CreatePageFile
  <2>2. table_file' \in [Tables -> TableFile \cup {Missing, Broken}]
    BY <2>1 DEF DatabaseInv, TypeInv
  <2>3. Relied(t) = {}
    BY <1>1, <1>3, FileFacts DEF DatabaseInv, Kept, Relied, RowsOf
  <2>4. \A u \in Tables : Relied(u) \subseteq RowsOf(table_file'[u])
    BY <2>1, <2>3 DEF DatabaseInv, TypeInv, Kept
  <2>5. /\ acked' = acked /\ todo' = Tail(todo) /\ request' = request
        /\ \A u : Relied(u)' = Relied(u)
    BY <1>2, <2>1 DEF Advance, Proceed, Relied
  <2>6. /\ todo' # <<>>
        /\ \/ todo' = <<<<"create_record_file", t>>, <<"save_catalog", t>>>>
           \/ todo' = <<<<"reject_record_size", t>>>>
    <3>1. PICK u \in Tables :
            \/ todo = <<<<"create_page_file", u>>, <<"create_record_file", u>>, <<"save_catalog", u>>>>
            \/ todo = <<<<"create_page_file", u>>, <<"reject_record_size", u>>>>
      BY <1>1, <1>2 DEF Creating
    <3>2. u = t
      BY <1>1, <3>1
    <3>3. CASE todo = <<<<"create_page_file", u>>, <<"create_record_file", u>>, <<"save_catalog", u>>>>
      BY <2>5, <3>2, <3>3
    <3>4. CASE todo = <<<<"create_page_file", u>>, <<"reject_record_size", u>>>>
      BY <2>5, <3>2, <3>4
    <3> QED BY <3>1, <3>3, <3>4
  <2>7. handle' = NoHandle
    BY <1>2 DEF CreatePageFile
  <2>8. StatementInv'
    <3>1. CASE todo' = <<<<"create_record_file", t>>, <<"save_catalog", t>>>>
      <4>1. PICK u \in Tables : u = t
        BY <1>1
      <4>2. Relied(u)' = {} /\ todo' = <<<<"create_record_file", u>>, <<"save_catalog", u>>>>
        BY <2>3, <2>5, <3>1, <4>1
      <4> QED BY <1>2, <2>5, <2>7, <4>2 DEF StatementInv, Creating
    <3>2. CASE todo' = <<<<"reject_record_size", t>>>>
      BY <1>2, <2>5, <2>7, <3>2 DEF StatementInv, Quiet, QuietKinds
    <3> QED BY <2>6, <3>1, <3>2
  <2>9. /\ Proceed(made) /\ made \in SUBSET (Rids \X Keys) /\ damage' \in [Tables -> Damages]
        /\ request' = request /\ disturbed' \in BOOLEAN /\ open' = open
        /\ lost \subseteq lost' /\ lost' \subseteq Tables
        /\ tables' \subseteq Tables /\ indexes' \in [Indexes -> Tables \cup {NoTable}]
        /\ disk_tables' # Broken => disk_tables' \subseteq Tables
        /\ disk_indexes' # Broken => disk_indexes' \in [Indexes -> Tables \cup {NoTable}]
        /\ index_file' \in [Indexes -> IndexFile \cup {Missing, Broken}]
    BY <2>1 DEF CreatePageFile, Advance, memory, catalogs, DatabaseInv, TypeInv, TypeOK
  <2> QED BY <1>1, <2>2, <2>4, <2>6, <2>7, <2>8, <2>9, EffectDone
<1>4. CASE table_file[t] # Missing
  BY <1>2, <1>4, EffectFails DEF CreatePageFile, DatabaseInv, TypeInv
<1> QED BY <1>3, <1>4

LEMMA CreateRecordFileInv ==
  ASSUME DatabaseInv, CreateRecordFile
  PROVE  DatabaseInv'
<1> DEFINE t == Subject
<1>1. /\ todo # <<>> /\ todo[1][1] = "create_record_file" /\ t = todo[1][2] /\ t \in Tables
  BY DoingFacts DEF CreateRecordFile, TableKinds
<1>2. Creating /\ handle = NoHandle /\ request[1] \notin Writes
  BY <1>1, WhoseEffect DEF Creating
<1>3. Relied(t) = {} /\ todo = <<<<"create_record_file", t>>, <<"save_catalog", t>>>>
  BY <1>1, <1>2 DEF Creating
<1>4. Advance /\ table_file' = [table_file EXCEPT ![t] = EmptyTable]
  BY DEF CreateRecordFile
<1>5. table_file' \in [Tables -> TableFile \cup {Missing, Broken}]
  BY <1>4, FileFacts DEF DatabaseInv, TypeInv
<1>6. \A u \in Tables : Relied(u) \subseteq RowsOf(table_file'[u])
  BY <1>3, <1>4 DEF DatabaseInv, TypeInv, Kept
<1>7. /\ acked' = acked /\ todo' = <<<<"save_catalog", t>>>> /\ request' = request
      /\ handle' = NoHandle
  BY <1>2, <1>3, <1>4 DEF Advance, Proceed, CreateRecordFile
<1>8. StatementInv' /\ todo' # <<>>
  BY <1>2, <1>7 DEF StatementInv, Quiet, QuietKinds
<1>9. /\ Proceed(made) /\ made \in SUBSET (Rids \X Keys) /\ damage' \in [Tables -> Damages]
      /\ request' = request /\ disturbed' \in BOOLEAN /\ open' = open
      /\ lost \subseteq lost' /\ lost' \subseteq Tables
      /\ tables' \subseteq Tables /\ indexes' \in [Indexes -> Tables \cup {NoTable}]
      /\ disk_tables' # Broken => disk_tables' \subseteq Tables
      /\ disk_indexes' # Broken => disk_indexes' \in [Indexes -> Tables \cup {NoTable}]
      /\ index_file' \in [Indexes -> IndexFile \cup {Missing, Broken}]
  BY <1>1, <1>4 DEF CreateRecordFile, Advance, catalogs, DatabaseInv, TypeInv, TypeOK
<1> QED BY <1>1, <1>5, <1>6, <1>7, <1>8, <1>9, EffectDone

LEMMA QuietEffectsInv ==
  ASSUME DatabaseInv,
         RejectRecordSize \/ SaveCatalog \/ SaveIndexes \/ DeleteIndexFile
           \/ RemoveTableFile \/ CreateIndexFile
  PROVE  DatabaseInv'
<1>1. PICK kind \in QuietKinds \ {"rebuild"} : Doing(kind)
  BY DEF RejectRecordSize, SaveCatalog, SaveIndexes, DeleteIndexFile, RemoveTableFile,
         CreateIndexFile, QuietKinds
<1>2. /\ todo # <<>> /\ todo[1][1] = kind /\ Subject = todo[1][2]
      /\ kind \in TableKinds => Subject \in Tables
      /\ kind \in IndexKinds => Subject \in Indexes
  BY <1>1, DoingFacts
<1>3. Quiet /\ handle = NoHandle
  BY <1>2, WhoseEffect DEF Quiet
<1>4. /\ table_file \in [Tables -> TableFile \cup {Missing, Broken}]
      /\ damage \in [Tables -> Damages]
      /\ index_file \in [Indexes -> IndexFile \cup {Missing, Broken}]
      /\ \A t \in Tables : Relied(t) \subseteq RowsOf(table_file[t])
      /\ tables \subseteq Tables /\ indexes \in [Indexes -> Tables \cup {NoTable}]
      /\ disk_tables # Broken => disk_tables \subseteq Tables
      /\ disk_indexes # Broken => disk_indexes \in [Indexes -> Tables \cup {NoTable}]
  BY DEF DatabaseInv, TypeInv, TypeOK, Kept
<1>5. CASE RejectRecordSize
  BY <1>3, <1>4, <1>5, EffectFails DEF RejectRecordSize, files
<1>6. CASE SaveCatalog
  BY <1>2, <1>3, <1>4, <1>6, QuietDone DEF SaveCatalog, memory, files
<1>7. CASE SaveIndexes
  BY <1>2, <1>3, <1>4, <1>7, QuietDone DEF SaveIndexes, memory, files
<1>8. CASE DeleteIndexFile
  <2>1. Subject \in Indexes
    BY <1>8, DoingFacts DEF DeleteIndexFile, IndexKinds
  <2>2. CASE index_file[Subject] = Missing
    BY <1>3, <1>4, <1>8, <2>2, EffectFails DEF DeleteIndexFile, memory
  <2>3. CASE index_file[Subject] # Missing
    <3>1. /\ index_file' = [index_file EXCEPT ![Subject] = Missing]
          /\ indexes' = [indexes EXCEPT ![Subject] = NoTable]
          /\ Advance
          /\ UNCHANGED <<open, tables, handle, disk_tables, disk_indexes, table_file, damage>>
      BY <1>8, <2>3 DEF DeleteIndexFile, catalogs
    <3>2. /\ index_file' \in [Indexes -> IndexFile \cup {Missing, Broken}]
          /\ indexes' \in [Indexes -> Tables \cup {NoTable}]
      BY <1>4, <3>1
    <3> QED BY <1>2, <1>3, <1>4, <3>1, <3>2, QuietDone
  <2> QED BY <2>2, <2>3
<1>9. CASE RemoveTableFile
  <2>1. Subject \in Tables /\ todo[1][1] = "remove_table_file"
    BY <1>9, DoingFacts DEF RemoveTableFile, TableKinds
  <2>2. CASE table_file[Subject] = Missing
    BY <1>3, <1>4, <1>9, <2>2, EffectFails DEF RemoveTableFile, memory
  <2>3. CASE table_file[Subject] # Missing
    <3>1. /\ table_file' = [table_file EXCEPT ![Subject] = Missing]
          /\ damage' = [damage EXCEPT ![Subject] = Whole]
          /\ tables' = tables \ {Subject}
          /\ Advance /\ UNCHANGED <<open, indexes, handle, disk_tables, disk_indexes, index_file>>
      BY <1>9, <2>3 DEF RemoveTableFile, catalogs
    <3>2. Relied(Subject) = {}
      BY <1>2, <1>3, <2>1, TodoFacts DEF DatabaseInv, Quiet
    <3>3. /\ table_file' \in [Tables -> TableFile \cup {Missing, Broken}]
          /\ damage' \in [Tables -> Damages]
      BY <1>4, <3>1, DamageFacts
    <3>4. \A t \in Tables : Relied(t) \subseteq RowsOf(table_file'[t])
      BY <1>4, <3>1, <3>2
    <3> QED BY <1>2, <1>3, <1>4, <3>1, <3>3, <3>4, QuietDone
  <2> QED BY <2>2, <2>3
<1>10. CASE CreateIndexFile
  <2>1. Subject \in Indexes
    BY <1>10, DoingFacts DEF CreateIndexFile, IndexKinds
  <2>2. /\ index_file' = [index_file EXCEPT ![Subject] = {}]
        /\ UNCHANGED <<open, tables, handle, disk_tables, disk_indexes, table_file, damage>>
    BY <1>10 DEF CreateIndexFile, catalogs
  <2>3. index_file' \in [Indexes -> IndexFile \cup {Missing, Broken}]
    BY <1>4, <2>2 DEF IndexFile
  <2>4. CASE indexes[Subject] = NoTable
    <3>1. indexes' = [indexes EXCEPT ![Subject] = request[2]] /\ Advance
      BY <1>10, <2>4 DEF CreateIndexFile
    <3>2. indexes' \in [Indexes -> Tables \cup {NoTable}]
      BY <1>4, <3>1 DEF DatabaseInv, TypeInv, TypeOK
    <3> QED BY <1>2, <1>3, <1>4, <2>2, <2>3, <3>1, <3>2, QuietDone
  <2>5. CASE indexes[Subject] # NoTable
    BY <1>3, <1>10, <2>2, <2>3, <2>5, EffectFails DEF CreateIndexFile, memory, catalogs
  <2> QED BY <2>4, <2>5
<1> QED BY <1>5, <1>6, <1>7, <1>8, <1>9, <1>10

(* A change goes to the rows of the table that is open, and to no row that *)
(* its client relies on.                                                   *)
LEMMA UpdatedKeeps ==
  ASSUME DatabaseInv, Doing("update_rows"), table_file[Subject] \in TableFile
  PROVE  /\ Updated(Rids) \in TableFile
         /\ Relied(Subject) \subseteq RowsOf(Updated(Rids))
         /\ Subject = request[2] /\ Subject \in Tables
<1>1. /\ todo # <<>> /\ todo[1][1] = "update_rows" /\ Subject = todo[1][2]
      /\ Head(todo) = todo[1] /\ Subject \in Tables
  BY DoingFacts
<1>2. Changing
  BY <1>1, WhoseEffect
<1>3. Subject = request[2] /\ \A row \in acked[Subject] : row[2] # Head(todo)[3]
  BY <1>1, <1>2 DEF Changing
<1>4. Head(todo)[4] \in Keys \cup {NoKey}
  BY <1>1, TodoFacts, EffectFacts DEF DatabaseInv
<1>5. Updated(Rids) \in TableFile
  BY <1>4 DEF Updated, TableFile
<1>6. Readable(table_file[Subject]) /\ Readable(Updated(Rids))
  BY <1>5, FileFacts
<1>7. ASSUME NEW row \in Relied(Subject) PROVE row \in RowsOf(Updated(Rids))
  <2>1. row \in RowsOf(table_file[Subject]) /\ row \in acked[Subject]
    BY <1>1, <1>7 DEF DatabaseInv, Kept, Relied
  <2>2. PICK r \in Rids : table_file[Subject][r] # NoKey /\ row = <<r, table_file[Subject][r]>>
    BY <1>6, <2>1 DEF RowsOf
  <2>3. Updated(Rids)[r] = table_file[Subject][r]
    BY <1>3, <2>1, <2>2 DEF Updated
  <2> QED BY <1>6, <2>2, <2>3 DEF RowsOf
<1> QED BY <1>1, <1>3, <1>5, <1>7

(* The rows in the table that is open are those of the file and the change. *)
LEMMA ChangesInv ==
  ASSUME DatabaseInv, InsertRow \/ UpdateRows
  PROVE  DatabaseInv'
<1>0. PICK t \in Tables : t = Subject
  BY DoingFacts DEF InsertRow, UpdateRows
<1>1. /\ todo # <<>> /\ todo[1][1] \in {"insert_row", "update_rows"}
      /\ t = todo[1][2] /\ Head(todo) = todo[1] /\ t \in Tables
  BY <1>0, DoingFacts DEF InsertRow, UpdateRows
<1>2. Writing /\ Changing /\ t = request[2] /\ handle = NoHandle
  BY <1>1, WhoseEffect DEF Changing
<1>3. /\ UNCHANGED <<open, tables, indexes, disk_tables, disk_indexes, table_file, damage,
                     index_file>>
      /\ UNCHANGED memory /\ UNCHANGED catalogs
  BY DEF InsertRow, UpdateRows, memory, catalogs, files
<1>4. /\ table_file \in [Tables -> TableFile \cup {Missing, Broken}]
      /\ index_file \in [Indexes -> IndexFile \cup {Missing, Broken}]
      /\ \A u \in Tables : Relied(u) \subseteq RowsOf(table_file[u])
  BY DEF DatabaseInv, TypeInv, Kept
<1> DEFINE updates == Doing("update_rows") /\ handle' = Updated(Rids)
           inserts == Doing("insert_row") /\
             \E r \in Rids : table_file[t][r] = NoKey
                             /\ handle' = [table_file[t] EXCEPT ![r] = Head(todo)[3]]
           works == Readable(table_file[t]) /\ Advance /\ (updates \/ inserts)
<1>5. CASE Abort /\ UNCHANGED handle
  BY <1>2, <1>3, <1>4, <1>5, EffectFails
<1>6. CASE works
  <2>1. table_file[t] \in TableFile
    BY <1>1, <1>4, <1>6, FileFacts
  <2>2. Advance
    BY <1>6
  <2>3. handle' \in TableFile /\ (Relied(t) \subseteq RowsOf(handle'))
    <3>1. CASE updates
      BY <1>0, <2>1, <3>1, UpdatedKeeps
    <3>2. CASE inserts
      <4>1. PICK r \in Rids : table_file[t][r] = NoKey
                                /\ handle' = [table_file[t] EXCEPT ![r] = Head(todo)[3]]
        BY <3>2
      <4>2. Head(todo)[3] \in Keys
        <5>1. todo[1][1] = "insert_row"
          BY <3>2, DoingFacts
        <5> QED BY <1>1, <5>1, TodoFacts, EffectFacts DEF DatabaseInv
      <4>3. handle' \in TableFile
        BY <2>1, <4>1, <4>2 DEF TableFile
      <4>4. Readable(handle') /\ Readable(table_file[t])
        BY <1>6, <4>3, FileFacts
      <4>5. ASSUME NEW row \in Relied(t) PROVE row \in RowsOf(handle')
        <5>1. PICK q \in Rids : table_file[t][q] # NoKey /\ row = <<q, table_file[t][q]>>
          BY <1>1, <1>4, <4>4, <4>5 DEF RowsOf
        <5>2. handle'[q] = table_file[t][q]
          BY <2>1, <4>1, <5>1 DEF TableFile
        <5> QED BY <4>4, <5>1, <5>2 DEF RowsOf
      <4> QED BY <4>3, <4>5
    <3> QED BY <1>6, <3>1, <3>2
  <2>4. /\ todo' = Tail(todo) /\ request' = request /\ disturbed' = disturbed
        /\ Len(todo) >= 2 /\ Len(todo) \in Nat
    BY <1>2, <2>2, TodoFacts DEF Advance, Proceed, Changing, DatabaseInv
  <2>5. Relied(t)' = Relied(t)
    BY <2>2, <2>4 DEF Advance, Proceed, Relied
  <2>6. /\ todo' # <<>> /\ DOMAIN todo' = 1 .. Len(todo) - 1
        /\ \A n \in DOMAIN todo' : todo'[n] = todo[n + 1] /\ n + 1 \in DOMAIN todo
        /\ DOMAIN todo = 1 .. Len(todo)
    BY <1>1, <2>4, TodoFacts DEF DatabaseInv
  <2>7. todo'[1] = <<"close_table", t>>
    BY <1>2, <2>4, <2>6 DEF Changing
  <2>8. RebuildsFrom(2, t)'
    <3>1. \A n \in DOMAIN todo' : n >= 2 => n + 1 >= 3
      BY <2>6
    <3> QED BY <1>2, <1>3, <2>6, <3>1 DEF Changing, RebuildsFrom
  <2>9. AllPending(t)'
    <3>1. ASSUME NEW i \in IndexesOn(t)' PROVE Pending(i)'
      <4>1. i \in IndexesOn(t)
        BY <1>3, <3>1 DEF IndexesOn
      <4>2. PICK n \in DOMAIN todo : todo[n] = <<"rebuild", i>>
        BY <1>2, <4>1 DEF Changing, AllPending, Pending
      <4>3. n # 1
        BY <1>1, <4>2
      <4>4. n - 1 \in DOMAIN todo' /\ (n - 1) + 1 = n
        BY <2>4, <2>6, <4>3
      <4>5. todo'[n - 1] = <<"rebuild", i>>
        BY <2>6, <4>2, <4>4
      <4> QED BY <4>4, <4>5 DEF Pending
    <3> QED BY <3>1 DEF AllPending
  <2>10. Closing'
    BY <1>2, <1>3, <2>1, <2>3, <2>4, <2>5, <2>6, <2>7, <2>8, <2>9 DEF Closing
  <2>11. StatementInv'
    BY <1>2, <2>4, <2>10 DEF StatementInv, Writing
  <2>12. /\ Proceed(made) /\ made \in SUBSET (Rids \X Keys) /\ damage' \in [Tables -> Damages]
         /\ disturbed' \in BOOLEAN /\ tables' \subseteq Tables
         /\ lost \subseteq lost' /\ lost' \subseteq Tables
         /\ indexes' \in [Indexes -> Tables \cup {NoTable}]
         /\ disk_tables' # Broken => disk_tables' \subseteq Tables
         /\ disk_indexes' # Broken => disk_indexes' \in [Indexes -> Tables \cup {NoTable}]
    BY <1>3, <2>2 DEF Advance, DatabaseInv, TypeInv, TypeOK
  <2> QED BY <1>1, <1>3, <1>4, <2>3, <2>4, <2>6, <2>11, <2>12, EffectDone
<1>7. (Abort /\ UNCHANGED handle) \/ works
  BY <1>0 DEF InsertRow, UpdateRows, Opens, Scans
<1> QED BY <1>5, <1>6, <1>7

LEMMA PartlyKeeps ==
  ASSUME DatabaseInv, Subject \in Tables, table_file[Subject] \in TableFile,
         NEW rows \in TableFile, Relied(Subject) \subseteq RowsOf(rows),
         PartlyWritten(rows)
  PROVE  \E new \in TableFile :
           /\ Relied(Subject) \subseteq RowsOf(new)
           /\ table_file' = [table_file EXCEPT ![Subject] = new]
           /\ damage' \in [Tables -> Damages]
<1>1. PICK S \in SUBSET Rids :
        table_file' = [table_file EXCEPT
                         ![Subject] = [r \in Rids |-> IF r \in S THEN rows[r] ELSE @[r]]]
  BY DEF PartlyWritten
<1> DEFINE old == table_file[Subject]
           new == [r \in Rids |-> IF r \in S THEN rows[r] ELSE old[r]]
<1>2. Relied(Subject) \subseteq RowsOf(old)
  BY DEF DatabaseInv, Kept
<1>3. new \in TableFile
  BY DEF TableFile
<1>4. Relied(Subject) \subseteq RowsOf(new)
  BY <1>2, RowsMixed
<1>5. table_file' = [table_file EXCEPT ![Subject] = new]
  BY <1>1
<1>6. damage' \in [Tables -> Damages]
  <2>1. damage \in [Tables -> Damages] /\ WorstDamage \in Damages
    BY DamageFacts DEF DatabaseInv, TypeInv, TypeOK, WorstDamage
  <2>2. PICK d \in damage[Subject] .. WorstDamage : damage' = [damage EXCEPT ![Subject] = d]
    BY DEF PartlyWritten
  <2>3. d \in Damages
    BY <2>1, <2>2, DamageFacts
  <2> QED BY <2>1, <2>2, <2>3
<1> QED BY <1>3, <1>4, <1>5, <1>6

(* The table is closed, with all or some of the changes in the file. *)
LEMMA ClosedInv ==
  ASSUME DatabaseInv, Doing("close_table"), handle' = NoHandle,
         NEW rows \in SUBSET (Rids \X Keys), Proceed(rows),
         UNCHANGED <<open, tables, indexes, disk_tables, disk_indexes, index_file, request>>,
         disturbed' \in BOOLEAN, damage' \in [Tables -> Damages],
         NEW new \in TableFile, Relied(Subject) \subseteq RowsOf(new),
         lost \subseteq lost', lost' \subseteq Tables,
         Subject \notin lost' => rows \subseteq RowsOf(new),
         table_file' = [table_file EXCEPT ![Subject] = new]
  PROVE  DatabaseInv'
<1>0. PICK t \in Tables : t = Subject
  BY DoingFacts DEF TableKinds
<1>1. todo # <<>> /\ todo[1][1] = "close_table" /\ t = todo[1][2]
  BY <1>0, DoingFacts
<1>2. Writing /\ Closing /\ t = request[2]
  BY <1>1, WhoseEffect DEF Closing
<1>3. table_file' \in [Tables -> TableFile \cup {Missing, Broken}]
  BY DEF DatabaseInv, TypeInv
<1>4. \A u \in Tables : Relied(u) \subseteq RowsOf(table_file'[u])
  BY DEF DatabaseInv, TypeInv, Kept
<1>5. todo' = Tail(todo) /\ Len(todo) \in Nat /\ DOMAIN todo = 1 .. Len(todo)
  BY <1>1, TodoFacts DEF Proceed, DatabaseInv
<1>6. /\ DOMAIN todo' = 1 .. Len(todo) - 1
      /\ \A n \in DOMAIN todo' : todo'[n] = todo[n + 1] /\ n + 1 \in DOMAIN todo
  BY <1>1, <1>5, TodoFacts DEF DatabaseInv
<1>7. RebuildsFrom(1, t)'
  <2>1. \A n \in DOMAIN todo' : n + 1 >= 2
    BY <1>5, <1>6
  <2> QED BY <1>2, <1>6, <2>1 DEF Closing, RebuildsFrom
<1>8. ASSUME NEW i \in IndexesOn(t)' PROVE Pending(i)'
  <2>1. i \in IndexesOn(t)
    BY <1>8 DEF IndexesOn
  <2>2. PICK n \in DOMAIN todo : todo[n] = <<"rebuild", i>>
    BY <1>2, <2>1 DEF Closing, AllPending, Pending
  <2>3. n # 1
    BY <1>1, <2>2
  <2>4. n - 1 \in DOMAIN todo' /\ (n - 1) + 1 = n
    BY <1>5, <1>6, <2>3
  <2>5. todo'[n - 1] = <<"rebuild", i>>
    BY <1>6, <2>2, <2>4
  <2> QED BY <2>4, <2>5 DEF Pending
<1>9. todo' # <<>> => StatementInv'
  <2>0. t \notin lost' => made' \subseteq RowsOf(table_file[t])'
    <3>1. table_file'[t] = new /\ made' \subseteq rows
      BY <1>0 DEF DatabaseInv, TypeInv, Proceed
    <3> QED BY <1>0, <3>1 DEF RowsOf
  <2>1. todo' # <<>> => Rebuilding'
    BY <1>2, <1>7, <1>8, <2>0 DEF Rebuilding
  <2> QED BY <1>2, <2>1 DEF StatementInv, Writing
<1>10. todo' = <<>> => IndexesOn(t)' = {}
  BY <1>8 DEF Pending
<1>11. /\ tables' \subseteq Tables /\ indexes' \in [Indexes -> Tables \cup {NoTable}]
       /\ disk_tables' # Broken => disk_tables' \subseteq Tables
       /\ disk_indexes' # Broken => disk_indexes' \in [Indexes -> Tables \cup {NoTable}]
       /\ index_file' \in [Indexes -> IndexFile \cup {Missing, Broken}]
       /\ open' = open /\ request' = request
  BY DEF DatabaseInv, TypeInv, TypeOK
<1>12. todo' = <<>> /\ request[1] \in Writes =>
         \A i \in IndexesOn(request[2])' : index_file'[i] = EntriesOf(table_file[request[2]])'
  <2>1. IndexesOn(request[2])' = IndexesOn(t)'
    BY <1>2, <1>11 DEF IndexesOn
  <2> QED BY <1>10, <2>1
<1>13. request[2] \notin lost' => rows \subseteq RowsOf(table_file'[request[2]])
  BY <1>0, <1>2 DEF DatabaseInv, TypeInv
<1> QED BY <1>1, <1>3, <1>4, <1>9, <1>11, <1>12, <1>13, EffectDone

(* An insert into a damaged file keeps the rows that were in it. *)
LEMMA MisplacedKeeps ==
  ASSUME DatabaseInv, Subject \in Tables, table_file[Subject] \in TableFile, Misplaced
  PROVE  \E new \in TableFile :
           /\ Relied(Subject) \subseteq RowsOf(new)
           /\ table_file' = [table_file EXCEPT ![Subject] = new]
           /\ damage' \in [Tables -> Damages]
<1>1. PICK new \in [Rids -> Keys \cup {NoKey}] :
        /\ \A r \in Rids : table_file[Subject][r] # NoKey => new[r] = table_file[Subject][r]
        /\ table_file' = [table_file EXCEPT ![Subject] = new]
  BY DEF Misplaced
<1>2. new \in TableFile /\ Readable(new) /\ Readable(table_file[Subject])
  BY <1>1, FileFacts DEF TableFile
<1>3. ASSUME NEW row \in Relied(Subject) PROVE row \in RowsOf(new)
  <2>1. row \in RowsOf(table_file[Subject])
    BY <1>3 DEF DatabaseInv, Kept
  <2>2. PICK r \in Rids : table_file[Subject][r] # NoKey /\ row = <<r, table_file[Subject][r]>>
    BY <1>2, <2>1 DEF RowsOf
  <2> QED BY <1>1, <1>2, <2>2 DEF RowsOf
<1>4. damage' \in [Tables -> Damages]
  <2>1. damage \in [Tables -> Damages]
    BY DEF DatabaseInv, TypeInv, TypeOK
  <2>2. PICK d \in damage[Subject] .. Rejected : damage' = [damage EXCEPT ![Subject] = d]
    BY DEF Misplaced
  <2>3. d \in Damages
    BY <2>1, <2>2, DamageFacts
  <2> QED BY <2>1, <2>2, <2>3
<1> QED BY <1>1, <1>2, <1>3, <1>4

LEMMA CloseTableInv ==
  ASSUME DatabaseInv, CloseTable \/ WritesLost
  PROVE  DatabaseInv'
<1>1. Doing("close_table")
  BY DEF CloseTable, WritesLost
<1>2. todo # <<>> /\ todo[1][1] = "close_table" /\ Subject = todo[1][2] /\ Subject \in Tables
  BY <1>1, DoingFacts DEF TableKinds
<1>3. Closing /\ Subject = request[2]
  BY <1>2, WhoseEffect DEF Closing
<1>4. /\ handle \in TableFile /\ table_file[Subject] \in TableFile
      /\ Relied(Subject) \subseteq RowsOf(handle)
  BY <1>3 DEF Closing
<1>5. /\ Proceed(RowsMade) /\ handle' = NoHandle /\ disturbed' \in BOOLEAN
      /\ UNCHANGED <<open, tables, indexes, disk_tables, disk_indexes, index_file, request>>
  BY DEF CloseTable, WritesLost, memory, catalogs, DatabaseInv, TypeInv, TypeOK
<1>6. RowsMade \in SUBSET (Rids \X Keys)
  <2>1. RowsOf(handle) \in SUBSET (Rids \X Keys)
    BY <1>4, RowsTyped
  <2>2. acked[Subject] \in SUBSET (Rids \X Keys)
    BY <1>2 DEF DatabaseInv, TypeInv, TypeOK
  <2> QED BY <2>1, <2>2 DEF RowsMade
<1>7. CASE CloseTable /\ ~IntoDamaged
  <2>1. damage' = damage /\ table_file' = [table_file EXCEPT ![Subject] = handle]
    BY <1>7 DEF CloseTable
  <2>2. RowsMade = RowsOf(handle)
    BY <1>7 DEF RowsMade
  <2>3. damage' \in [Tables -> Damages] /\ lost' = lost /\ lost \subseteq Tables
    BY <1>7, <2>1 DEF CloseTable, DatabaseInv, TypeInv, TypeOK
  <2> QED BY <1>1, <1>4, <1>5, <1>6, <2>1, <2>2, <2>3, ClosedInv
<1>8. CASE CloseTable /\ IntoDamaged
  <2>1. PICK new \in TableFile :
          /\ Relied(Subject) \subseteq RowsOf(new)
          /\ table_file' = [table_file EXCEPT ![Subject] = new]
          /\ damage' \in [Tables -> Damages]
    BY <1>2, <1>4, <1>8, MisplacedKeeps DEF CloseTable
  <2>2. Subject \notin lost => RowsMade \subseteq RowsOf(new)
    BY <1>8, <2>1 DEF RowsMade, Relied
  <2>3. lost' = lost /\ lost \subseteq Tables
    BY <1>8 DEF CloseTable, DatabaseInv, TypeInv, TypeOK
  <2> QED BY <1>1, <1>5, <1>6, <2>1, <2>2, <2>3, ClosedInv
<1>9. CASE WritesLost
  <2>1. PartlyWritten(handle) /\ lost' = lost \cup {Subject}
    BY <1>9 DEF WritesLost
  <2>2. PICK new \in TableFile :
          /\ Relied(Subject) \subseteq RowsOf(new)
          /\ table_file' = [table_file EXCEPT ![Subject] = new]
          /\ damage' \in [Tables -> Damages]
    BY <1>2, <1>4, <2>1, PartlyKeeps
  <2>3. lost' \subseteq Tables
    BY <1>2, <2>1 DEF DatabaseInv, TypeInv, TypeOK
  <2> QED BY <1>1, <1>5, <1>6, <2>1, <2>2, <2>3, ClosedInv
<1> QED BY <1>7, <1>8, <1>9

LEMMA RebuildInv ==
  ASSUME DatabaseInv, Rebuild
  PROVE  DatabaseInv'
<1>0. PICK j \in Indexes : j = Subject
  BY DoingFacts DEF Rebuild, IndexKinds
<1>1. todo # <<>> /\ todo[1][1] = "rebuild" /\ j = todo[1][2]
  BY <1>0, DoingFacts DEF Rebuild
<1>2. handle = NoHandle /\ (Quiet \/ (Writing /\ Rebuilding))
  BY <1>1, WhoseEffect
<1>3. /\ UNCHANGED <<open, tables, indexes, handle, disk_tables, disk_indexes, table_file,
                     damage>>
      /\ UNCHANGED memory /\ UNCHANGED catalogs
  BY DEF Rebuild, memory, catalogs
<1>4. /\ table_file \in [Tables -> TableFile \cup {Missing, Broken}]
      /\ index_file \in [Indexes -> IndexFile \cup {Missing, Broken}]
      /\ \A t \in Tables : Relied(t) \subseteq RowsOf(table_file'[t])
      /\ made \in SUBSET (Rids \X Keys) /\ damage' \in [Tables -> Damages]
      /\ table_file' \in [Tables -> TableFile \cup {Missing, Broken}]
      /\ tables' \subseteq Tables /\ indexes' \in [Indexes -> Tables \cup {NoTable}]
      /\ disk_tables' # Broken => disk_tables' \subseteq Tables
      /\ disk_indexes' # Broken => disk_indexes' \in [Indexes -> Tables \cup {NoTable}]
  BY <1>3 DEF DatabaseInv, TypeInv, TypeOK, Kept
<1> DEFINE works == indexes[j] \in tables /\ Scans(indexes[j]) /\ Readable(index_file[j])
<1>5. CASE ~works
  <2>1. UNCHANGED index_file /\ Abort
    BY <1>0, <1>5 DEF Rebuild
  <2> QED BY <1>2, <1>3, <1>4, <2>1, EffectFails
<1>6. CASE works
  <2>1. index_file' = [index_file EXCEPT ![j] = EntriesOf(table_file[indexes[j]])] /\ Advance
    BY <1>0, <1>6 DEF Rebuild
  <2>2. indexes[j] \in Tables
    BY <1>6 DEF DatabaseInv, TypeInv, TypeOK
  <2>3. EntriesOf(table_file[indexes[j]]) \in IndexFile
    BY <1>4, <2>2, RowsTyped
  <2>4. index_file' \in [Indexes -> IndexFile \cup {Missing, Broken}]
    BY <1>4, <2>1, <2>3
  <2>5. CASE Quiet
    BY <1>1, <1>3, <1>4, <2>1, <2>4, <2>5, QuietDone
  <2>6. CASE Writing /\ Rebuilding
    <3>1. PICK t \in Tables : t = request[2]
      BY <2>6 DEF Writing
    <3>2. /\ todo' = Tail(todo) /\ Len(todo) \in Nat /\ DOMAIN todo = 1 .. Len(todo)
          /\ request' = request /\ disturbed' = disturbed /\ Proceed(made) /\ made' \subseteq made
          /\ lost' = lost /\ lost \subseteq Tables
      BY <2>1, TodoFacts DEF Advance, Proceed, DatabaseInv, TypeInv, TypeOK
    <3>3. /\ DOMAIN todo' = 1 .. Len(todo) - 1
          /\ \A n \in DOMAIN todo' : todo'[n] = todo[n + 1] /\ n + 1 \in DOMAIN todo
          /\ 1 \in DOMAIN todo
      BY <1>1, <3>2, TodoFacts DEF DatabaseInv
    <3>4. RebuildsFrom(1, t) /\ indexes[j] = t
      BY <1>1, <2>6, <3>1, <3>2, <3>3 DEF Rebuilding, RebuildsFrom
    <3>5. RebuildsFrom(1, t)'
      <4>1. \A n \in DOMAIN todo' : n + 1 >= 1
        BY <3>2, <3>3
      <4> QED BY <1>3, <3>3, <3>4, <4>1 DEF RebuildsFrom
    <3>6. ASSUME NEW i \in IndexesOn(t)'
          PROVE  Pending(i)' \/ index_file'[i] = EntriesOf(table_file'[t])
      <4>1. i \in IndexesOn(t)
        BY <1>3, <3>6 DEF IndexesOn
      <4>2. CASE i = j
        <5>1. index_file'[i] = EntriesOf(table_file[t])
          BY <1>4, <2>1, <3>4, <4>2
        <5> QED BY <1>3, <5>1
      <4>3. CASE i # j /\ index_file[i] = EntriesOf(table_file[t])
        <5>1. index_file'[i] = index_file[i]
          BY <1>4, <2>1, <4>1, <4>3 DEF IndexesOn
        <5> QED BY <1>3, <4>3, <5>1
      <4>4. CASE i # j /\ Pending(i)
        <5>1. PICK n \in DOMAIN todo : todo[n] = <<"rebuild", i>>
          BY <4>4 DEF Pending
        <5>2. n # 1
          BY <1>1, <4>4, <5>1
        <5>3. n - 1 \in DOMAIN todo' /\ (n - 1) + 1 = n
          BY <3>2, <3>3, <5>2
        <5>4. todo'[n - 1] = <<"rebuild", i>>
          BY <3>3, <5>1, <5>3
        <5> QED BY <5>3, <5>4 DEF Pending
      <4> QED BY <2>6, <3>1, <4>1, <4>2, <4>3, <4>4 DEF Rebuilding
    <3>7. EntriesOf(table_file'[t]) = EntriesOf(table_file[t])'
      BY DEF EntriesOf, RowsOf
    <3>11. t \notin lost => made \subseteq RowsOf(table_file'[t]) /\ made' \subseteq RowsOf(table_file[t])'
      <4>1. t \notin lost => made \subseteq RowsOf(table_file[t])
        BY <2>6, <3>1 DEF Rebuilding
      <4> QED BY <1>3, <3>2, <4>1 DEF RowsOf
    <3>8. todo' # <<>> => StatementInv'
      <4>1. todo' # <<>> => Rebuilding'
        BY <1>2, <1>3, <3>1, <3>2, <3>5, <3>6, <3>7, <3>11 DEF Rebuilding
      <4> QED BY <2>6, <3>2, <4>1 DEF StatementInv, Writing
    <3>9. todo' = <<>> /\ request[1] \in Writes =>
            \A i \in IndexesOn(request[2])' : index_file'[i] = EntriesOf(table_file[request[2]])'
      <4>1. IndexesOn(request[2])' = IndexesOn(t)'
        BY <3>1, <3>2 DEF IndexesOn
      <4>2. EntriesOf(table_file[request[2]])' = EntriesOf(table_file'[t])
        BY <3>1, <3>2 DEF EntriesOf, RowsOf
      <4>3. todo' = <<>> => \A i \in IndexesOn(t)' : ~Pending(i)'
        BY DEF Pending
      <4> QED BY <3>6, <4>1, <4>2, <4>3
    <3>10. disturbed' \in BOOLEAN
      BY <3>2 DEF DatabaseInv, TypeInv, TypeOK
    <3> QED BY <1>1, <1>2, <1>3, <1>4, <2>4, <3>1, <3>2, <3>8, <3>9, <3>10, <3>11, EffectDone
  <2> QED BY <1>2, <2>5, <2>6
<1> QED BY <1>5, <1>6

-----------------------------------------------------------------------------
(* Errors and kills.                                                       *)

LEMMA CutOffTyped ==
  ASSUME NEW entries \in IndexFile
  PROVE  CutOff(entries) \subseteq IndexFile
<1> DEFINE Moved(S, e, r) == (S \ {e}) \cup {<<e[1], r>>}
           replaced == {Moved(S, e, r) : S \in SUBSET entries, e \in entries, r \in Rids}
<1>1. \A S \in SUBSET entries : \A e \in entries, r \in Rids : Moved(S, e, r) \in IndexFile
  BY DEF IndexFile
<1>2. SUBSET entries \subseteq IndexFile
  BY DEF IndexFile
<1>3. ASSUME NEW file \in CutOff(entries) PROVE file \in (SUBSET entries) \cup replaced
  BY DEF CutOff
<1> HIDE DEF Moved
<1>4. replaced \subseteq IndexFile
  BY <1>1
<1> HIDE DEF replaced
<1> QED BY <1>2, <1>3, <1>4

(* What an interrupted effect leaves of the table files. *)
LEMMA TableFileLeftFacts ==
  ASSUME DatabaseInv, ~Idle, TableFileLeft
  PROVE  /\ table_file' \in [Tables -> TableFile \cup {Missing, Broken}]
         /\ damage' \in [Tables -> Damages]
         /\ \A t \in Tables : Relied(t) \subseteq RowsOf(table_file'[t])
<1>1. /\ table_file \in [Tables -> TableFile \cup {Missing, Broken}]
      /\ damage \in [Tables -> Damages]
      /\ \A t \in Tables : Relied(t) \subseteq RowsOf(table_file[t])
  BY DEF DatabaseInv, TypeInv, TypeOK, Kept
<1>2. ASSUME Subject \in Tables, table_file[Subject] \in TableFile,
             NEW rows \in TableFile, Relied(Subject) \subseteq RowsOf(rows),
             PartlyWritten(rows)
      PROVE  /\ table_file' \in [Tables -> TableFile \cup {Missing, Broken}]
             /\ damage' \in [Tables -> Damages]
             /\ \A t \in Tables : Relied(t) \subseteq RowsOf(table_file'[t])
  <2>1. PICK new \in TableFile :
          /\ Relied(Subject) \subseteq RowsOf(new)
          /\ table_file' = [table_file EXCEPT ![Subject] = new]
          /\ damage' \in [Tables -> Damages]
    BY <1>2, PartlyKeeps
  <2> QED BY <1>1, <2>1
<1>3. todo # <<>>
  BY DEF Idle
<1>4. CASE Doing("close_table")
  <2>1. todo[1][1] = "close_table" /\ Subject = todo[1][2] /\ Subject \in Tables
    BY <1>4, DoingFacts DEF TableKinds
  <2>2. Closing /\ Subject = request[2]
    BY <1>3, <2>1, WhoseEffect DEF Closing
  <2>3. /\ table_file[Subject] \in TableFile /\ handle \in TableFile
        /\ Relied(Subject) \subseteq RowsOf(handle)
    BY <2>2 DEF Closing
  <2>4. PartlyWritten(handle)
    BY <1>4, <2>1 DEF TableFileLeft, TableLeft, Doing
  <2> QED BY <1>2, <2>1, <2>3, <2>4
<1>5. CASE Doing("update_rows") /\ Scans(Subject)
  <2>1. Subject \in Tables
    BY <1>5, DoingFacts
  <2>2. table_file[Subject] \in TableFile
    BY <1>1, <1>5, <2>1, FileFacts DEF Scans
  <2>3. Updated(Rids) \in TableFile /\ (Relied(Subject) \subseteq RowsOf(Updated(Rids)))
    BY <1>5, <2>2, UpdatedKeeps
  <2>4. PartlyWritten(Updated(Rids))
    BY <1>5 DEF TableFileLeft, TableLeft, Doing
  <2> QED BY <1>2, <2>1, <2>2, <2>3, <2>4
<1>6. CASE Doing("insert_row") /\ Opens(Subject)
  <2>1. Subject \in Tables
    BY <1>6, DoingFacts
  <2>2. table_file[Subject] \in TableFile
    BY <1>1, <1>6, <2>1, FileFacts DEF Opens
  <2>3. PartlyWritten(table_file[Subject])
    BY <1>6 DEF TableFileLeft, TableLeft, Doing
  <2>4. Relied(Subject) \subseteq RowsOf(table_file[Subject])
    BY <1>1, <2>1
  <2> QED BY <1>2, <2>1, <2>2, <2>3, <2>4
<1>7. CASE UNCHANGED <<table_file, damage>>
  BY <1>1, <1>7
<1>8. CASE /\ UNCHANGED damage
           /\ Doing("create_page_file") /\ table_file[Subject] = Missing
           /\ table_file' = [table_file EXCEPT ![Subject] = Broken]
  <2>1. Subject \in Tables
    BY <1>8, DoingFacts DEF TableKinds
  <2>2. Relied(Subject) = {}
    BY <1>1, <1>8, <2>1, FileFacts DEF RowsOf
  <2> QED BY <1>1, <1>8, <2>2
<1>9. CASE /\ UNCHANGED damage
           /\ Doing("create_record_file")
           /\ table_file' = [table_file EXCEPT ![Subject] = EmptyTable]
  <2>1. Subject \in Tables /\ todo[1][1] = "create_record_file" /\ Subject = todo[1][2]
    BY <1>9, DoingFacts DEF TableKinds
  <2>2. Creating
    BY <1>3, <2>1, WhoseEffect
  <2>3. Relied(Subject) = {}
    BY <2>1, <2>2 DEF Creating
  <2> QED BY <1>1, <1>9, <2>3, FileFacts
<1> QED BY <1>4, <1>5, <1>6, <1>7, <1>8, <1>9 DEF TableFileLeft, TableLeft, Doing

(* What an interrupted effect leaves are files, and in them all the rows that *)
(* a client relies on.                                                        *)
LEMMA InterruptedFacts ==
  ASSUME DatabaseInv, ~Idle, Interrupted
  PROVE  /\ disk_tables' # Broken => disk_tables' \subseteq Tables
         /\ disk_indexes' # Broken => disk_indexes' \in [Indexes -> Tables \cup {NoTable}]
         /\ index_file' \in [Indexes -> IndexFile \cup {Missing, Broken}]
         /\ table_file' \in [Tables -> TableFile \cup {Missing, Broken}]
         /\ damage' \in [Tables -> Damages]
         /\ \A t \in Tables : Relied(t) \subseteq RowsOf(table_file'[t])
<1>1. /\ table_file \in [Tables -> TableFile \cup {Missing, Broken}]
      /\ damage \in [Tables -> Damages]
      /\ index_file \in [Indexes -> IndexFile \cup {Missing, Broken}]
      /\ \A t \in Tables : Relied(t) \subseteq RowsOf(table_file[t])
      /\ tables \subseteq Tables /\ indexes \in [Indexes -> Tables \cup {NoTable}]
      /\ disk_tables # Broken => disk_tables \subseteq Tables
      /\ disk_indexes # Broken => disk_indexes \in [Indexes -> Tables \cup {NoTable}]
  BY DEF DatabaseInv, TypeInv, TypeOK, Kept
<1>2. disk_tables' # Broken => disk_tables' \subseteq Tables
  <2>1. disk_tables' = disk_tables \/ disk_tables' \in SUBSET tables \/ disk_tables' = Broken
    <3> DEFINE saving == Doing("save_catalog")
    <3>0. disk_tables' \in {disk_tables} \cup (IF saving THEN (SUBSET tables) \cup {Broken} ELSE {})
      BY DEF Interrupted
    <3> HIDE DEF saving
    <3>1. CASE saving
      BY <3>0, <3>1
    <3>2. CASE ~saving
      BY <3>0, <3>2
    <3> QED BY <3>1, <3>2
  <2> QED BY <1>1, <2>1
<1>3. disk_indexes' # Broken => disk_indexes' \in [Indexes -> Tables \cup {NoTable}]
  <2>1. \/ disk_indexes' = disk_indexes
        \/ \E S \in SUBSET Indexes :
             disk_indexes' = [i \in Indexes |-> IF i \in S THEN indexes[i] ELSE NoTable]
        \/ disk_indexes' = Broken
    BY DEF Interrupted
  <2>2. ASSUME NEW S \in SUBSET Indexes
        PROVE  [i \in Indexes |-> IF i \in S THEN indexes[i] ELSE NoTable]
                 \in [Indexes -> Tables \cup {NoTable}]
    BY <1>1
  <2> QED BY <1>1, <2>1, <2>2
<1>4. index_file' \in [Indexes -> IndexFile \cup {Missing, Broken}]
  <2>1. CASE index_file' = index_file
    BY <1>1, <2>1
  <2>2. CASE Doing("create_index_file") /\ index_file' = [index_file EXCEPT ![Subject] = Broken]
    BY <1>1, <2>2
  <2>3. ASSUME Doing("rebuild"), indexes[Subject] \in tables,
               NEW file \in {Broken} \cup CutOff(EntriesOf(table_file[indexes[Subject]])),
               index_file' = [index_file EXCEPT ![Subject] = file]
        PROVE  index_file' \in [Indexes -> IndexFile \cup {Missing, Broken}]
    <3>1. EntriesOf(table_file[indexes[Subject]]) \in IndexFile
      BY <1>1, <2>3, RowsTyped
    <3>2. file \in IndexFile \cup {Broken}
      BY <2>3, <3>1, CutOffTyped
    <3> QED BY <1>1, <2>3, <3>2
  <2>4. CASE Doing("create_index_file")
    BY <2>1, <2>2, <2>4 DEF Interrupted
  <2>5. CASE ~Doing("create_index_file")
    BY <2>1, <2>3, <2>5 DEF Interrupted
  <2> QED BY <2>4, <2>5
<1>5. /\ table_file' \in [Tables -> TableFile \cup {Missing, Broken}]
      /\ damage' \in [Tables -> Damages]
      /\ \A t \in Tables : Relied(t) \subseteq RowsOf(table_file'[t])
  BY TableFileLeftFacts DEF Interrupted
<1> QED BY <1>2, <1>3, <1>4, <1>5

LEMMA IoErrorInv ==
  ASSUME DatabaseInv, IoError
  PROVE  DatabaseInv'
<1>1. /\ UNCHANGED <<open, tables, indexes, request, acked, lost>>
      /\ todo' = <<>> /\ handle' = NoHandle /\ answer' = <<"error", {}>> /\ disturbed' = TRUE
      /\ made' = {}
  BY DEF IoError, memory
<1>2. /\ disk_tables' # Broken => disk_tables' \subseteq Tables
      /\ disk_indexes' # Broken => disk_indexes' \in [Indexes -> Tables \cup {NoTable}]
      /\ index_file' \in [Indexes -> IndexFile \cup {Missing, Broken}]
      /\ table_file' \in [Tables -> TableFile \cup {Missing, Broken}]
      /\ damage' \in [Tables -> Damages]
      /\ \A t \in Tables : Relied(t) \subseteq RowsOf(table_file'[t])
  BY InterruptedFacts DEF IoError
<1>3. TypeInv'
  <2>1. TypeOK'
    BY <1>1, <1>2, FileFacts DEF DatabaseInv, TypeInv, TypeOK, TableFile, IndexFile
  <2> QED BY <1>1, <1>2, <2>1 DEF TypeInv
<1>4. StatementInv'
  BY <1>1 DEF StatementInv
<1>5. Kept'
  BY <1>1, <1>2 DEF Kept, Relied, RowsOf
<1>6. SuccessfulWritesRepairIndexes'
  BY <1>1 DEF SuccessfulWritesRepairIndexes
<1> QED BY <1>3, <1>4, <1>5, <1>6 DEF DatabaseInv

LEMMA KillInv ==
  ASSUME DatabaseInv, Kill
  PROVE  DatabaseInv'
<1>1. todo' = <<>> /\ disturbed' = TRUE /\ acked' = acked /\ lost' = lost /\ made' = {}
  BY DEF Kill
<1>2. /\ disk_tables' # Broken => disk_tables' \subseteq Tables
      /\ disk_indexes' # Broken => disk_indexes' \in [Indexes -> Tables \cup {NoTable}]
      /\ index_file' \in [Indexes -> IndexFile \cup {Missing, Broken}]
      /\ table_file' \in [Tables -> TableFile \cup {Missing, Broken}]
      /\ damage' \in [Tables -> Damages]
      /\ \A t \in Tables : Relied(t) \subseteq RowsOf(table_file'[t])
  BY InterruptedFacts DEF Kill
<1>3. /\ open' \in BOOLEAN
      /\ tables' \subseteq Tables
      /\ indexes' \in [Indexes -> Tables \cup {NoTable}]
      /\ handle' = NoHandle
      /\ request'[1] = "open" /\ request'[2] = NoTable
      /\ answer' \in {"ok", "error", "running", "rows"} \X SUBSET (Rids \X Keys)
  BY <1>2, LoadTyped DEF Kill
<1>4. TypeInv'
  <2>1. TypeOK'
    BY <1>1, <1>2, <1>3, FileFacts DEF DatabaseInv, TypeInv, TypeOK, TableFile, IndexFile
  <2> QED BY <1>1, <1>2, <2>1 DEF TypeInv
<1>5. StatementInv'
  BY <1>1, <1>3 DEF StatementInv
<1>6. Kept'
  BY <1>1, <1>2 DEF Kept, Relied, RowsOf
<1>7. SuccessfulWritesRepairIndexes'
  BY <1>3 DEF SuccessfulWritesRepairIndexes, Writes
<1> QED BY <1>4, <1>5, <1>6, <1>7 DEF DatabaseInv

-----------------------------------------------------------------------------
LEMMA StatementPreserves ==
  ASSUME DatabaseInv, Statement
  PROVE  DatabaseInv'
<1>1. CASE \E i \in Indexes : DropIndex(i)
  BY <1>1, DropIndexInv
<1>2. ASSUME NEW t \in Tables,
             \/ \E fits \in BOOLEAN : CreateTable(t, fits)
             \/ DropTable(t)
             \/ \E i \in Indexes : CreateIndex(i, t)
      PROVE  DatabaseInv'
  BY <1>2, CreateTableInv, DropTableInv, CreateIndexInv
<1>3. ASSUME NEW t \in Tables, NEW k \in Keys,
             Insert(t, k) \/ (\E new \in Keys \ {k} : Update(t, k, new)) \/ Delete(t, k)
      PROVE  DatabaseInv'
  BY <1>3, InsertInv, UpdateInv, DeleteInv
<1>4. ASSUME NEW t \in Tables, NEW k \in Keys,
             SelectByScan(t, k) \/ SelectByIndex(t, k) \/ SelectFails(t, k)
      PROVE  DatabaseInv'
  BY <1>4, SelectsInv
<1> QED BY <1>1, <1>2, <1>3, <1>4 DEF Statement

LEMMA EffectPreserves ==
  ASSUME DatabaseInv, Effect
  PROVE  DatabaseInv'
<1>1. CASE CreatePageFile
  BY <1>1, CreatePageFileInv
<1>2. CASE CreateRecordFile
  BY <1>2, CreateRecordFileInv
<1>3. CASE RejectRecordSize \/ SaveCatalog \/ SaveIndexes \/ DeleteIndexFile
             \/ RemoveTableFile \/ CreateIndexFile
  BY <1>3, QuietEffectsInv
<1>4. CASE Rebuild
  BY <1>4, RebuildInv
<1>5. CASE InsertRow \/ UpdateRows
  BY <1>5, ChangesInv
<1>6. CASE CloseTable
  BY <1>6, CloseTableInv
<1> QED BY <1>1, <1>2, <1>3, <1>4, <1>5, <1>6 DEF Effect

(* DatabaseInv is an invariant: at every moment a statement has before it    *)
(* what it still owes the files and the indexes.                             *)
THEOREM DatabaseSafe == Spec => []DatabaseInv
<1>1. Init => DatabaseInv
  BY InitInv
<1>2. DatabaseInv /\ [Next]_vars => DatabaseInv'
  <2> SUFFICES ASSUME DatabaseInv, [Next]_vars PROVE DatabaseInv'
    OBVIOUS
  <2>1. CASE UNCHANGED vars
    <3>1. UNCHANGED <<open, tables, indexes, handle, disk_tables, disk_indexes, table_file,
                      damage, index_file, todo, request, answer, disturbed, made, acked, lost>>
      BY <2>1 DEF vars, memory, catalogs, files, history
    <3>2. TypeInv'
      BY <3>1 DEF DatabaseInv, TypeInv, TypeOK
    <3>3. StatementInv'
      <4>0. \A t : Relied(t)' = Relied(t)
        BY <3>1 DEF Relied
      <4>1. Creating' = Creating /\ Quiet' = Quiet
        BY <3>1, <4>0 DEF Creating, Quiet
      <4>2. Changing' = Changing
        BY <3>1 DEF Changing, RebuildsFrom, AllPending, IndexesOn, Pending
      <4>3. Closing' = Closing
        BY <3>1, <4>0 DEF Closing, RebuildsFrom, AllPending, IndexesOn, Pending, RowsOf
      <4>4. Rebuilding' = Rebuilding
        BY <3>1 DEF Rebuilding, RebuildsFrom, IndexesOn, Pending, EntriesOf, RowsOf
      <4> QED BY <3>1, <4>1, <4>2, <4>3, <4>4 DEF DatabaseInv, StatementInv, Writing
    <3>4. Kept'
      BY <3>1 DEF DatabaseInv, Kept, Relied, RowsOf
    <3>5. SuccessfulWritesRepairIndexes'
      BY <3>1 DEF DatabaseInv, SuccessfulWritesRepairIndexes, Idle, IndexesOn, EntriesOf, RowsOf
    <3> QED BY <3>2, <3>3, <3>4, <3>5 DEF DatabaseInv
  <2>2. CASE Statement
    BY <2>2, StatementPreserves
  <2>3. CASE Effect
    BY <2>3, EffectPreserves
  <2>4. CASE IoError
    BY <2>4, IoErrorInv
  <2>5. CASE WritesLost
    BY <2>5, CloseTableInv
  <2>6. CASE Kill
    BY <2>6, KillInv
  <2>7. CASE Reopen
    BY <2>7, ReopenInv
  <2> QED BY <2>1, <2>2, <2>3, <2>4, <2>5, <2>6, <2>7 DEF Next
<1> QED BY <1>1, <1>2, PTL DEF Spec

(* The types of Database. *)
THEOREM DatabaseTypeCorrect == Spec => []TypeOK
<1>1. DatabaseInv => TypeOK
  BY DEF DatabaseInv, TypeInv
<1> QED BY <1>1, DatabaseSafe, PTL

(* Rows that a client was told of by the Ok of a write, and has not asked to *)
(* change, are in their place in the file of their table through every       *)
(* error, kill and restart, unless the flush in a drop of that table failed. *)
THEOREM RowsStay == Spec => []AcknowledgedRowsKept
<1>1. DatabaseInv => AcknowledgedRowsKept
  BY DEF DatabaseInv, Kept, Relied, AcknowledgedRowsKept
<1> QED BY <1>1, DatabaseSafe, PTL

(* An insert, update or delete that returns Ok leaves the indexes of its    *)
(* table with its rows, whatever was cut short before.                      *)
THEOREM WritesRepair == Spec => []SuccessfulWritesRepairIndexes
<1>1. DatabaseInv => SuccessfulWritesRepairIndexes
  BY DEF DatabaseInv
<1> QED BY <1>1, DatabaseSafe, PTL

-----------------------------------------------------------------------------
(* What the files and catalogs are as long as no statement was cut short.   *)

\* The index is what the catalog says: it has the rows of its table, or no file.
Settled(i) ==
  IF indexes[i] = NoTable
    THEN index_file[i] = Missing
    ELSE indexes[i] \in tables /\ index_file[i] = EntriesOf(table_file[indexes[i]])

AllSettled == \A i \in Indexes : Settled(i)
SettledBut(i) == \A j \in Indexes \ {i} : Settled(j)
\* Every table of the catalog, and no other, has a whole record file.
TablesThere ==
  \A t \in Tables :
    /\ damage[t] = Whole
    /\ IF t \in tables THEN table_file[t] \in TableFile ELSE table_file[t] \in {Missing, Broken}
CatalogsSaved == disk_tables = tables /\ disk_indexes = indexes

\* Between two statements.
AtRest == todo = <<>> /\ AllSettled /\ CatalogsSaved

\* create_table, before the table is in the catalog.
CreatesTable ==
  /\ AllSettled
  /\ CatalogsSaved
  /\ \E t \in Tables \ tables :
       \/ todo = <<<<"create_page_file", t>>, <<"create_record_file", t>>, <<"save_catalog", t>>>>
       \/ todo = <<<<"create_page_file", t>>, <<"reject_record_size", t>>>>
       \/ todo = <<<<"create_record_file", t>>, <<"save_catalog", t>>>>
       \/ todo = <<<<"reject_record_size", t>>>>

\* Catalogs that have still to be saved, of create_table and of the drops.
SavesCatalogs ==
  /\ AllSettled
  /\ \E t \in Tables :
       \/ disk_indexes = indexes /\ todo = <<<<"save_catalog", t>>>>
       \/ todo = <<<<"save_catalog", t>>, <<"save_indexes", t>>>>
       \/ disk_tables = tables /\ todo = <<<<"save_indexes", t>>>>

\* drop_table, before its file is removed.
DropsTable ==
  /\ AllSettled
  /\ disk_tables = tables
  /\ \E t \in tables : RestOfDrop(todo, t)

\* create_index, before and behind the new entry of the catalog.
CreatesIndex ==
  /\ AllSettled
  /\ CatalogsSaved
  /\ \E t \in tables, i \in Indexes :
       /\ indexes[i] = NoTable
       /\ request[2] = t
       /\ todo = <<<<"create_index_file", i>>, <<"save_indexes", t>>, <<"rebuild", i>>>>

FillsIndex ==
  /\ disk_tables = tables
  /\ \E i \in Indexes :
       /\ SettledBut(i)
       /\ indexes[i] \in tables
       /\ index_file[i] \in IndexFile
       /\ \/ disk_indexes = indexes /\ todo = <<<<"rebuild", i>>>>
          \/ \E t \in Tables : todo = <<<<"save_indexes", t>>, <<"rebuild", i>>>>

\* drop_index, which forgets the index before it removes its file.
DropsIndex ==
  /\ disk_tables = tables
  /\ \E i \in Indexes :
       /\ SettledBut(i)
       /\ indexes[i] = NoTable
       /\ index_file[i] # Missing
       /\ \E t \in Tables : todo = <<<<"delete_index_file", i>>, <<"save_indexes", t>>>>

\* A write: an index that does not have the rows of its table is still rebuilt.
WritesRows ==
  /\ CatalogsSaved
  /\ todo # <<>>
  /\ request[1] \in Writes
  /\ request[2] \in tables
  /\ \A i \in Indexes :
       Settled(i) \/ (indexes[i] = request[2] /\ Pending(i) /\ index_file[i] \in IndexFile)

Orderly ==
  /\ TablesThere
  /\ \/ AtRest \/ CreatesTable \/ SavesCatalogs \/ DropsTable \/ CreatesIndex \/ FillsIndex
     \/ DropsIndex \/ WritesRows

\* The answer of a select stays right until the next statement.
SelectStands == request[1] = "select" => todo = <<>> /\ (~disturbed => SelectMatchesScan)

OrderlyInv ==
  /\ DatabaseInv
  /\ ~disturbed => Orderly
  /\ SelectStands

(* The kind of the next effect says which statement it belongs to. *)
LEMMA WhichStatement ==
  ASSUME DatabaseInv, Orderly, todo # <<>>
  PROVE  LET kind == todo[1][1] IN
         /\ kind \in {"create_page_file", "create_record_file", "reject_record_size"} => CreatesTable
         /\ kind = "save_catalog" => SavesCatalogs
         /\ kind = "save_indexes" => SavesCatalogs \/ FillsIndex
         /\ kind \in {"drop_index_file", "remove_table_file"} => DropsTable
         /\ kind = "create_index_file" => CreatesIndex
         /\ kind = "delete_index_file" => DropsIndex
         /\ kind = "rebuild" => FillsIndex \/ WritesRows
         /\ kind \in {"insert_row", "update_rows", "close_table"} => WritesRows
<1> DEFINE kind == todo[1][1]
<1>1. CASE CreatesTable
  <2>1. kind \in {"create_page_file", "create_record_file", "reject_record_size"}
    BY <1>1 DEF CreatesTable
  <2> QED BY <1>1, <2>1
<1>2. CASE SavesCatalogs
  <2>1. kind \in {"save_catalog", "save_indexes"}
    BY <1>2 DEF SavesCatalogs
  <2> QED BY <1>2, <2>1
<1>3. CASE DropsTable
  <2>1. PICK t \in tables : RestOfDrop(todo, t)
    BY <1>3 DEF DropsTable
  <2>2. kind \in {"drop_index_file", "remove_table_file"}
    <3>1. Len(todo) \in Nat /\ Len(todo) >= 3
      BY <2>1, TodoFacts DEF DatabaseInv, RestOfDrop
    <3>2. CASE Len(todo) = 3
      BY <2>1, <3>2 DEF RestOfDrop
    <3>3. CASE Len(todo) # 3
      <4>1. 1 \in 1 .. Len(todo) - 3
        <5>1. PICK n \in Nat : n = Len(todo)
          BY <3>1
        <5>2. n >= 3 /\ n # 3
          BY <3>1, <3>3, <5>1
        <5>3. 1 \in 1 .. n - 3
          BY <5>2
        <5> QED BY <5>1, <5>3
      <4>2. todo[1][1] = "drop_index_file"
        BY <2>1, <4>1, Zenon DEF RestOfDrop
      <4> QED BY <4>2
    <3> QED BY <3>2, <3>3
  <2> QED BY <1>3, <2>2
<1>4. CASE CreatesIndex
  <2>1. kind = "create_index_file"
    BY <1>4 DEF CreatesIndex
  <2> QED BY <1>4, <2>1
<1>5. CASE FillsIndex
  <2>1. kind \in {"rebuild", "save_indexes"}
    BY <1>5 DEF FillsIndex
  <2> QED BY <1>5, <2>1
<1>6. CASE DropsIndex
  <2>1. kind = "delete_index_file"
    BY <1>6 DEF DropsIndex
  <2> QED BY <1>6, <2>1
<1>7. CASE WritesRows
  <2>1. Writing
    BY <1>7 DEF WritesRows, DatabaseInv, StatementInv, Creating, Quiet
  <2>2. kind \in {"insert_row", "update_rows", "close_table", "rebuild"}
    <3>1. CASE Changing \/ Closing
      BY <3>1 DEF Changing, Closing
    <3>2. CASE Rebuilding
      <4>1. 1 \in DOMAIN todo
        BY TodoFacts DEF DatabaseInv
      <4> QED BY <3>2, <4>1 DEF Rebuilding, RebuildsFrom
    <3> QED BY <2>1, <3>1, <3>2 DEF Writing
  <2> QED BY <1>7, <2>2
<1> QED BY <1>1, <1>2, <1>3, <1>4, <1>5, <1>6, <1>7 DEF Orderly, AtRest

(* The tables of the catalog can be opened and scanned. *)
LEMMA ThereFacts ==
  ASSUME DatabaseInv, TablesThere, NEW t \in tables
  PROVE  /\ t \in Tables
         /\ damage[t] = Whole
         /\ table_file[t] \in TableFile
         /\ Readable(table_file[t])
         /\ Opens(t)
         /\ Scans(t)
<1>1. t \in Tables
  BY DEF DatabaseInv, TypeInv, TypeOK
<1>2. damage[t] = Whole /\ table_file[t] \in TableFile
  BY <1>1 DEF TablesThere
<1>3. Readable(table_file[t])
  BY <1>2, FileFacts
<1> QED BY <1>1, <1>2, <1>3 DEF Opens, Scans, Whole, Unscannable, Rejected

(* An index stays settled in a step that leaves it and its table alone. *)
LEMMA StaysSettled ==
  ASSUME NEW i \in Indexes, Settled(i),
         indexes'[i] = indexes[i], index_file'[i] = index_file[i],
         indexes[i] # NoTable =>
           indexes[i] \in tables' /\ table_file'[indexes[i]] = table_file[indexes[i]]
  PROVE  Settled(i)'
<1>1. CASE indexes[i] = NoTable
  BY <1>1 DEF Settled
<1>2. CASE indexes[i] # NoTable
  <2>1. EntriesOf(table_file[indexes[i]])' = EntriesOf(table_file[indexes[i]])
    BY <1>2 DEF EntriesOf, RowsOf
  <2> QED BY <1>2, <2>1 DEF Settled
<1> QED BY <1>1, <1>2

LEMMA AllStaySettled ==
  ASSUME UNCHANGED <<tables, indexes, table_file, damage, index_file>>
  PROVE  /\ TablesThere => TablesThere'
         /\ AllSettled => AllSettled'
         /\ \A i \in Indexes : Settled(i) => Settled(i)'
         /\ \A i \in Indexes : SettledBut(i) => SettledBut(i)'
<1>1. \A i \in Indexes : Settled(i) => Settled(i)'
  BY DEF Settled, EntriesOf, RowsOf
<1>2. TablesThere => TablesThere'
  BY DEF TablesThere
<1> QED BY <1>1, <1>2 DEF AllSettled, SettledBut

(* The rebuilds that are left after an effect. *)
LEMMA StillPending ==
  ASSUME DatabaseInv, todo # <<>>, todo' = Tail(todo), NEW i
  PROVE  /\ Pending(i)' => Pending(i)
         /\ Pending(i) /\ todo[1] # <<"rebuild", i>> => Pending(i)'
<1>1. /\ Len(todo) \in Nat /\ DOMAIN todo = 1 .. Len(todo)
      /\ DOMAIN todo' = 1 .. Len(todo) - 1
      /\ \A n \in DOMAIN todo' : todo'[n] = todo[n + 1] /\ n + 1 \in DOMAIN todo
  BY TodoFacts DEF DatabaseInv
<1>2. Pending(i)' => Pending(i)
  BY <1>1 DEF Pending
<1>3. ASSUME Pending(i), todo[1] # <<"rebuild", i>> PROVE Pending(i)'
  <2>1. PICK n \in DOMAIN todo : todo[n] = <<"rebuild", i>>
    BY <1>3 DEF Pending
  <2>2. n - 1 \in DOMAIN todo' /\ (n - 1) + 1 = n
    BY <1>1, <1>3, <2>1
  <2>3. todo'[n - 1] = <<"rebuild", i>>
    BY <1>1, <2>1, <2>2
  <2> QED BY <2>2, <2>3 DEF Pending
<1> QED BY <1>2, <1>3

(* A statement begins when all is settled and saved. *)
LEMMA RestIsOrderly ==
  ASSUME Orderly, todo = <<>>
  PROVE  TablesThere /\ AtRest /\ AllSettled /\ CatalogsSaved
<1>1. ~DropsTable
  <2>1. Len(<<>>) = 0
    OBVIOUS
  <2> QED BY <2>1 DEF DropsTable, RestOfDrop
<1>2. AtRest
  BY <1>1 DEF Orderly, CreatesTable, SavesCatalogs, CreatesIndex, FillsIndex, DropsIndex, WritesRows
<1> QED BY <1>2 DEF AtRest, Orderly

(* Statements that begin have all of their work before them. *)
LEMMA CreateTableOrderly ==
  ASSUME DatabaseInv, Orderly, NEW t \in Tables, NEW fits \in BOOLEAN, CreateTable(t, fits)
  PROVE  Orderly'
<1>1. AllSettled /\ CatalogsSaved /\ TablesThere
  BY RestIsOrderly DEF CreateTable, Begin, Idle
<1>2. /\ UNCHANGED <<tables, indexes, disk_tables, disk_indexes, table_file, damage, index_file>>
      /\ t \in Tables \ tables
      /\ \/ todo' = <<<<"create_page_file", t>>, <<"create_record_file", t>>, <<"save_catalog", t>>>>
         \/ todo' = <<<<"create_page_file", t>>, <<"reject_record_size", t>>>>
  BY CreateEffects DEF CreateTable, Begin, memory, catalogs, files
<1>3. AllSettled' /\ TablesThere' /\ CatalogsSaved'
  BY <1>1, <1>2, AllStaySettled DEF CatalogsSaved
<1>4. CreatesTable'
  BY <1>2, <1>3 DEF CreatesTable
<1> QED BY <1>3, <1>4 DEF Orderly

LEMMA DropTableOrderly ==
  ASSUME DatabaseInv, Orderly, NEW t \in Tables, DropTable(t)
  PROVE  Orderly'
<1>1. AllSettled /\ CatalogsSaved /\ TablesThere
  BY RestIsOrderly DEF DropTable, Begin, Idle
<1>2. /\ UNCHANGED <<tables, indexes, disk_tables, disk_indexes, table_file, damage, index_file>>
      /\ t \in tables
      /\ todo' = DropTableEffects(t)
  BY DEF DropTable, Begin, memory, catalogs, files
<1>3. AllSettled' /\ TablesThere' /\ CatalogsSaved'
  BY <1>1, <1>2, AllStaySettled DEF CatalogsSaved
<1>4. PICK effects : effects = DropTableEffects(t)
  OBVIOUS
<1>5. RestOfDrop(effects, t)
  BY <1>4, DropEffects
<1>6. RestOfDrop(todo, t)'
  BY <1>2, <1>4, <1>5 DEF RestOfDrop, IndexesOn
<1>7. DropsTable'
  BY <1>2, <1>3, <1>6 DEF DropsTable, CatalogsSaved
<1> QED BY <1>3, <1>7 DEF Orderly

LEMMA CreateIndexOrderly ==
  ASSUME DatabaseInv, Orderly, ~DuplicateCreates,
         NEW i \in Indexes, NEW t \in Tables, CreateIndex(i, t)
  PROVE  Orderly'
<1>1. AllSettled /\ CatalogsSaved /\ TablesThere
  BY RestIsOrderly DEF CreateIndex, Begin, Idle
<1>2. /\ UNCHANGED <<tables, indexes, disk_tables, disk_indexes, table_file, damage, index_file>>
      /\ t \in tables
      /\ indexes[i] = NoTable
      /\ request'[2] = t
      /\ todo' = <<<<"create_index_file", i>>, <<"save_indexes", t>>, <<"rebuild", i>>>>
  BY DEF CreateIndex, Begin, memory, catalogs, files
<1>3. AllSettled' /\ TablesThere' /\ CatalogsSaved'
  BY <1>1, <1>2, AllStaySettled DEF CatalogsSaved
<1>4. CreatesIndex'
  BY <1>2, <1>3 DEF CreatesIndex
<1> QED BY <1>3, <1>4 DEF Orderly

LEMMA DropIndexOrderly ==
  ASSUME DatabaseInv, Orderly, NEW i \in Indexes, DropIndex(i)
  PROVE  Orderly'
<1>1. AllSettled /\ CatalogsSaved /\ TablesThere
  BY RestIsOrderly DEF DropIndex, Begin, Idle
<1>2. /\ UNCHANGED <<tables, disk_tables, disk_indexes, table_file, damage, index_file>>
      /\ indexes[i] # NoTable
      /\ indexes' = [indexes EXCEPT ![i] = NoTable]
      /\ todo' = <<<<"delete_index_file", i>>, <<"save_indexes", indexes[i]>>>>
  BY DEF DropIndex, Begin, catalogs, files
<1>3. indexes[i] \in tables /\ indexes[i] \in Tables /\ index_file[i] # Missing
  <2>1. indexes[i] \in tables /\ index_file[i] = EntriesOf(table_file[indexes[i]])
    BY <1>1, <1>2 DEF AllSettled, Settled
  <2>2. indexes[i] \in Tables /\ table_file[indexes[i]] \in TableFile
    BY <1>1, <2>1, ThereFacts
  <2>3. EntriesOf(table_file[indexes[i]]) \in IndexFile
    BY <2>2, RowsTyped
  <2> QED BY <2>1, <2>2, <2>3, FileFacts
<1>4. ASSUME NEW j \in Indexes \ {i} PROVE Settled(j)'
  <2>1. Settled(j) /\ indexes'[j] = indexes[j]
    BY <1>1, <1>2, <1>4 DEF AllSettled, DatabaseInv, TypeInv, TypeOK
  <2>2. indexes[j] # NoTable => indexes[j] \in tables
    BY <2>1 DEF Settled
  <2> QED BY <1>2, <1>4, <2>1, <2>2, StaysSettled
<1>5. SettledBut(i)' /\ indexes'[i] = NoTable /\ index_file'[i] # Missing
  BY <1>2, <1>3, <1>4 DEF SettledBut, DatabaseInv, TypeInv, TypeOK
<1>6. DropsIndex'
  BY <1>1, <1>2, <1>3, <1>5 DEF DropsIndex, CatalogsSaved
<1>7. TablesThere'
  BY <1>1, <1>2 DEF TablesThere
<1> QED BY <1>6, <1>7 DEF Orderly

LEMMA WriteOrderly ==
  ASSUME DatabaseInv, Orderly, NEW t \in Tables, NEW k \in Keys,
         Insert(t, k) \/ (\E new \in Keys \ {k} : Update(t, k, new)) \/ Delete(t, k)
  PROVE  Orderly'
<1>1. AllSettled /\ CatalogsSaved /\ TablesThere
  BY RestIsOrderly DEF Insert, Update, Delete, Begin, Idle
<1>2. PICK change \in Effects :
        /\ todo' = WriteAndRebuild(t, change)
        /\ UNCHANGED <<tables, indexes, disk_tables, disk_indexes, table_file, damage, index_file>>
        /\ t \in tables
        /\ request'[1] \in Writes /\ request'[2] = t
  <2>1. CASE Insert(t, k)
    <3>1. <<"insert_row", t, k>> \in Effects
      BY DEF Effects
    <3> QED BY <2>1, <3>1 DEF Insert, Begin, memory, catalogs, files, Writes
  <2>2. ASSUME NEW new \in Keys \ {k}, Update(t, k, new)
        PROVE  <<"update_rows", t, k, new>> \in Effects
    BY <2>2 DEF Effects
  <2>3. CASE \E new \in Keys \ {k} : Update(t, k, new)
    BY <2>2, <2>3 DEF Update, Begin, memory, catalogs, files, Writes
  <2>4. CASE Delete(t, k)
    <3>1. <<"update_rows", t, k, NoKey>> \in Effects
      BY DEF Effects
    <3> QED BY <2>4, <3>1 DEF Delete, Begin, memory, catalogs, files, Writes
  <2> QED BY <2>1, <2>3, <2>4
<1>3. AllSettled' /\ TablesThere' /\ CatalogsSaved'
  BY <1>1, <1>2, AllStaySettled DEF CatalogsSaved
<1>4. todo' # <<>>
  <2>1. todo' \in Seq(Effects) /\ Len(todo') >= 2
    BY <1>2, WriteEffects
  <2> QED BY <2>1
<1>5. WritesRows'
  BY <1>2, <1>3, <1>4 DEF WritesRows, AllSettled
<1> QED BY <1>3, <1>5 DEF Orderly

(* The catalogs on disk are those in memory when the database is reopened. *)
LEMMA ReopenOrderly ==
  ASSUME DatabaseInv, Orderly, Reopen
  PROVE  Orderly'
<1>1. AllSettled /\ CatalogsSaved /\ TablesThere /\ todo = <<>>
  BY RestIsOrderly DEF Reopen, Idle
<1>2. UNCHANGED <<disk_tables, disk_indexes, table_file, damage, index_file, todo>>
  BY DEF Reopen, catalogs, files
<1>3. disk_tables # Broken /\ disk_indexes # Broken
  <2>1. disk_tables \in SUBSET Tables /\ disk_indexes \in [Indexes -> Tables \cup {NoTable}]
    BY <1>1 DEF CatalogsSaved, DatabaseInv, TypeInv, TypeOK
  <2> QED BY <2>1, ContentAssumption
<1>4. tables' = tables /\ indexes' = indexes
  BY <1>1, <1>2, <1>3 DEF Reopen, Load, CatalogsSaved
<1>5. AllSettled' /\ TablesThere' /\ CatalogsSaved'
  BY <1>1, <1>2, <1>4, AllStaySettled DEF CatalogsSaved
<1> QED BY <1>1, <1>2, <1>5 DEF Orderly, AtRest

-----------------------------------------------------------------------------
(* Each effect leaves what the rest of its statement expects.              *)

LEMMA CreateFilesOrderly ==
  ASSUME DatabaseInv, Orderly, CreatePageFile \/ RejectRecordSize \/ CreateRecordFile
  PROVE  Orderly'
<1>1. PICK kind \in {"create_page_file", "reject_record_size", "create_record_file"} : Doing(kind)
  BY DEF CreatePageFile, RejectRecordSize, CreateRecordFile
<1>2. todo # <<>> /\ todo[1][1] = kind /\ Subject = todo[1][2]
  BY <1>1, DoingFacts
<1>3. CreatesTable /\ TablesThere
  BY <1>2, WhichStatement DEF Orderly
<1>4. PICK t \in Tables \ tables :
       \/ todo = <<<<"create_page_file", t>>, <<"create_record_file", t>>, <<"save_catalog", t>>>>
       \/ todo = <<<<"create_page_file", t>>, <<"reject_record_size", t>>>>
       \/ todo = <<<<"create_record_file", t>>, <<"save_catalog", t>>>>
       \/ todo = <<<<"reject_record_size", t>>>>
  BY <1>3 DEF CreatesTable
<1>5. t = Subject
  BY <1>2, <1>4
<1>6. AllSettled /\ CatalogsSaved
  BY <1>3 DEF CreatesTable
<1>7. \A i \in Indexes : indexes[i] # NoTable => indexes[i] \in tables
  BY <1>6 DEF AllSettled, Settled
<1>8. table_file \in [Tables -> TableFile \cup {Missing, Broken}] /\ tables \subseteq Tables
  BY DEF DatabaseInv, TypeInv, TypeOK
<1>9. CASE Abort /\ UNCHANGED <<memory, catalogs, files>>
  <2>1. UNCHANGED <<tables, indexes, disk_tables, disk_indexes, table_file, damage, index_file>> /\ todo' = <<>>
    BY <1>9 DEF memory, catalogs, files, Abort
  <2>2. AllSettled' /\ TablesThere' /\ CatalogsSaved'
    BY <1>3, <1>6, <2>1, AllStaySettled DEF CatalogsSaved
  <2> QED BY <2>1, <2>2 DEF Orderly, AtRest
<1>10. CASE RejectRecordSize
  BY <1>9, <1>10 DEF RejectRecordSize
<1>11. CASE CreatePageFile
  <2>1. CASE table_file[t] # Missing
    BY <1>5, <1>9, <1>11, <2>1 DEF CreatePageFile, files
  <2>2. CASE table_file[t] = Missing
    <3>1. /\ UNCHANGED <<tables, indexes, disk_tables, disk_indexes, damage, index_file>>
          /\ table_file' = [table_file EXCEPT ![t] = Broken]
          /\ todo' = Tail(todo)
      BY <1>5, <1>11, <2>2 DEF CreatePageFile, memory, catalogs, Advance, Proceed
    <3>2. todo[1][1] = "create_page_file"
      BY <1>11, DoingFacts DEF CreatePageFile
    <3>3. \/ todo' = <<<<"create_record_file", t>>, <<"save_catalog", t>>>>
          \/ todo' = <<<<"reject_record_size", t>>>>
      <4>1. CASE todo = <<<<"create_page_file", t>>, <<"create_record_file", t>>, <<"save_catalog", t>>>>
        BY <3>1, <4>1
      <4>2. CASE todo = <<<<"create_page_file", t>>, <<"reject_record_size", t>>>>
        BY <3>1, <4>2
      <4>3. CASE todo = <<<<"create_record_file", t>>, <<"save_catalog", t>>>>
        BY <3>2, <4>3
      <4>4. CASE todo = <<<<"reject_record_size", t>>>>
        BY <3>2, <4>4
      <4> QED BY <1>4, <4>1, <4>2, <4>3, <4>4
    <3>4. \A u \in tables : table_file'[u] = table_file[u]
      BY <1>4, <1>8, <3>1
    <3>5. TablesThere'
      BY <1>3, <1>4, <1>8, <3>1 DEF TablesThere
    <3>6. AllSettled'
      BY <1>6, <1>7, <3>1, <3>4, StaysSettled DEF AllSettled
    <3>7. CreatesTable'
      BY <1>4, <1>6, <3>1, <3>3, <3>6 DEF CreatesTable, CatalogsSaved
    <3> QED BY <3>5, <3>7 DEF Orderly
  <2> QED BY <2>1, <2>2
<1>12. CASE CreateRecordFile
  <2>1. /\ UNCHANGED <<indexes, disk_tables, disk_indexes, damage, index_file>>
        /\ table_file' = [table_file EXCEPT ![t] = EmptyTable]
        /\ tables' = tables \cup {t}
        /\ todo' = Tail(todo)
    BY <1>5, <1>12 DEF CreateRecordFile, catalogs, Advance, Proceed
  <2>2. todo[1][1] = "create_record_file"
    BY <1>12, DoingFacts DEF CreateRecordFile
  <2>3. todo' = <<<<"save_catalog", t>>>>
    <3>1. CASE todo = <<<<"create_record_file", t>>, <<"save_catalog", t>>>>
      BY <2>1, <3>1
    <3>2. CASE todo # <<<<"create_record_file", t>>, <<"save_catalog", t>>>>
      BY <1>4, <2>2, <3>2
    <3> QED BY <3>1, <3>2
  <2>4. \A u \in tables : table_file'[u] = table_file[u]
    BY <1>4, <1>8, <2>1
  <2>5. TablesThere'
    BY <1>3, <1>4, <1>8, <2>1, FileFacts DEF TablesThere
  <2>6. AllSettled'
    BY <1>6, <1>7, <2>1, <2>4, StaysSettled DEF AllSettled
  <2>7. SavesCatalogs'
    BY <1>4, <1>6, <2>1, <2>3, <2>6 DEF SavesCatalogs, CatalogsSaved
  <2> QED BY <2>5, <2>7 DEF Orderly
<1> QED BY <1>10, <1>11, <1>12

LEMMA SavesOrderly ==
  ASSUME DatabaseInv, Orderly, SaveCatalog \/ SaveIndexes
  PROVE  Orderly'
<1>1. UNCHANGED <<tables, indexes, table_file, damage, index_file>> /\ todo' = Tail(todo)
  BY DEF SaveCatalog, SaveIndexes, memory, files, Advance, Proceed
<1>2. TablesThere'
  BY <1>1, AllStaySettled DEF Orderly
<1>3. CASE SaveCatalog
  <2>1. todo # <<>> /\ todo[1][1] = "save_catalog"
    BY <1>3, DoingFacts DEF SaveCatalog
  <2>2. SavesCatalogs
    BY <2>1, WhichStatement
  <2>3. disk_tables' = tables' /\ disk_indexes' = disk_indexes
    BY <1>1, <1>3 DEF SaveCatalog
  <2>4. AllSettled'
    BY <1>1, <2>2, AllStaySettled DEF SavesCatalogs
  <2>5. PICK t \in Tables :
          \/ disk_indexes = indexes /\ todo = <<<<"save_catalog", t>>>>
          \/ todo = <<<<"save_catalog", t>>, <<"save_indexes", t>>>>
    BY <2>1, <2>2 DEF SavesCatalogs
  <2>6. CASE disk_indexes = indexes /\ todo = <<<<"save_catalog", t>>>>
    <3>1. AtRest'
      BY <1>1, <2>3, <2>4, <2>6 DEF AtRest, CatalogsSaved
    <3> QED BY <1>2, <3>1 DEF Orderly
  <2>7. CASE todo = <<<<"save_catalog", t>>, <<"save_indexes", t>>>>
    <3>1. SavesCatalogs'
      BY <1>1, <2>3, <2>4, <2>7 DEF SavesCatalogs
    <3> QED BY <1>2, <3>1 DEF Orderly
  <2> QED BY <2>5, <2>6, <2>7
<1>4. CASE SaveIndexes
  <2>1. todo # <<>> /\ todo[1][1] = "save_indexes"
    BY <1>4, DoingFacts DEF SaveIndexes
  <2>2. disk_indexes' = indexes' /\ disk_tables' = disk_tables
    BY <1>1, <1>4 DEF SaveIndexes
  <2>3. CASE SavesCatalogs
    <3>1. AllSettled'
      BY <1>1, <2>3, AllStaySettled DEF SavesCatalogs
    <3>2. PICK t \in Tables : disk_tables = tables /\ todo = <<<<"save_indexes", t>>>>
      BY <2>1, <2>3 DEF SavesCatalogs
    <3>3. AtRest'
      BY <1>1, <2>2, <3>1, <3>2 DEF AtRest, CatalogsSaved
    <3> QED BY <1>2, <3>3 DEF Orderly
  <2>4. CASE FillsIndex
    <3>1. PICK i \in Indexes, t \in Tables :
            /\ SettledBut(i) /\ indexes[i] \in tables /\ index_file[i] \in IndexFile
            /\ todo = <<<<"save_indexes", t>>, <<"rebuild", i>>>>
      BY <2>1, <2>4 DEF FillsIndex
    <3>2. SettledBut(i)' /\ todo' = <<<<"rebuild", i>>>>
      BY <1>1, <3>1, AllStaySettled
    <3>3. FillsIndex'
      BY <1>1, <2>2, <2>4, <3>1, <3>2 DEF FillsIndex
    <3> QED BY <1>2, <3>3 DEF Orderly
  <2> QED BY <2>1, <2>3, <2>4, WhichStatement
<1> QED BY <1>3, <1>4

(* What is left of drop_table when the file of one index is gone. *)
LEMMA DropGoesOn ==
  ASSUME DatabaseInv, todo # <<>>, NEW t, RestOfDrop(todo, t), todo[1][1] = "drop_index_file",
         todo' = Tail(todo), indexes' = [indexes EXCEPT ![todo[1][2]] = NoTable],
         t # NoTable
  PROVE  RestOfDrop(todo, t)'
<1>1. /\ Len(todo) \in Nat /\ Len(todo') = Len(todo) - 1
      /\ \A n \in 1 .. Len(todo) - 1 : todo'[n] = todo[n + 1]
      /\ indexes \in [Indexes -> Tables \cup {NoTable}]
  BY TodoFacts DEF DatabaseInv, TypeInv, TypeOK
<1>2. Len(todo) >= 4
  BY <1>1 DEF RestOfDrop
<1>3. /\ todo[1] = <<"drop_index_file", todo[1][2]>> /\ todo[1][2] \in IndexesOn(t)
  <2>1. 1 \in 1 .. Len(todo) - 3
    BY <1>1, <1>2
  <2>2. todo[1][2] \in IndexesOn(t)
    BY <2>1 DEF RestOfDrop
  <2>3. PICK n \in 1 .. Len(todo) - 3 : todo[n] = <<"drop_index_file", todo[1][2]>>
    BY <2>2 DEF RestOfDrop
  <2>4. PICK e \in Effects : e = todo[1]
    BY TodoFacts DEF DatabaseInv
  <2>5. e = <<"drop_index_file", e[2]>>
    BY <2>4 DEF Effects, TableKinds, IndexKinds
  <2> QED BY <2>2, <2>4, <2>5
<1>4. PICK i \in Indexes : i = todo[1][2]
  BY <1>3 DEF IndexesOn
<1>5. IndexesOn(t)' = IndexesOn(t) \ {i}
  BY <1>1, <1>4 DEF IndexesOn
<1>6. /\ todo'[Len(todo') - 2] = <<"remove_table_file", t>>
      /\ todo'[Len(todo') - 1] = <<"save_catalog", t>>
      /\ todo'[Len(todo')] = <<"save_indexes", t>>
      /\ Len(todo') >= 3
  <2>1. /\ (Len(todo) - 3) + 1 = Len(todo) - 2 /\ Len(todo) - 3 \in 1 .. Len(todo) - 1
        /\ (Len(todo) - 2) + 1 = Len(todo) - 1 /\ Len(todo) - 2 \in 1 .. Len(todo) - 1
        /\ (Len(todo) - 1) + 1 = Len(todo) /\ Len(todo) - 1 \in 1 .. Len(todo) - 1
        /\ Len(todo') - 2 = Len(todo) - 3 /\ Len(todo') - 1 = Len(todo) - 2
    BY <1>1, <1>2
  <2>2. /\ todo'[Len(todo) - 3] = todo[Len(todo) - 2]
        /\ todo'[Len(todo) - 2] = todo[Len(todo) - 1]
        /\ todo'[Len(todo) - 1] = todo[Len(todo)]
    BY <1>1, <2>1
  <2> QED BY <1>1, <1>2, <2>1, <2>2 DEF RestOfDrop
<1>7. \A n \in 1 .. Len(todo') - 3 :
        n + 1 \in 1 .. Len(todo) - 3 /\ n + 1 # 1 /\ todo'[n] = todo[n + 1]
  BY <1>1, <1>2
<1>8. ASSUME NEW n \in 1 .. Len(todo') - 3
      PROVE  todo'[n][1] = "drop_index_file" /\ todo'[n][2] \in IndexesOn(t)'
  <2>1. PICK m \in 1 .. Len(todo) - 3 : m = n + 1 /\ m # 1 /\ todo'[n] = todo[m]
    BY <1>7
  <2>2. todo[m][1] = "drop_index_file" /\ todo[m][2] \in IndexesOn(t)
    BY DEF RestOfDrop
  <2>3. todo[m][2] # i
    <3>1. SUFFICES ASSUME todo[m][2] = i PROVE FALSE
      OBVIOUS
    <3>2. PICK e \in Effects : e = todo[m]
      <4>1. m \in 1 .. Len(todo)
        BY <1>1
      <4> QED BY <4>1, TodoFacts DEF DatabaseInv
    <3>3. e = <<"drop_index_file", i>>
      BY <2>2, <3>1, <3>2 DEF Effects, TableKinds, IndexKinds
    <3>4. todo[m] = todo[1] /\ 1 \in 1 .. Len(todo) - 3
      BY <1>1, <1>2, <1>3, <1>4, <3>2, <3>3
    <3> QED BY <2>1, <3>4 DEF RestOfDrop
  <2> QED BY <1>5, <2>1, <2>2, <2>3
<1>9. ASSUME NEW j \in IndexesOn(t)'
      PROVE  \E n \in 1 .. Len(todo') - 3 : todo'[n] = <<"drop_index_file", j>>
  <2>1. j \in IndexesOn(t) /\ j # i
    BY <1>5
  <2>2. PICK m \in 1 .. Len(todo) - 3 : todo[m] = <<"drop_index_file", j>>
    BY <2>1 DEF RestOfDrop
  <2>3. m # 1
    BY <1>4, <2>1, <2>2
  <2>4. m - 1 \in 1 .. Len(todo') - 3 /\ (m - 1) + 1 = m
    BY <1>1, <2>3
  <2>5. todo'[m - 1] = <<"drop_index_file", j>>
    BY <1>7, <2>2, <2>4
  <2> QED BY <2>4, <2>5
<1>10. ASSUME NEW m \in 1 .. Len(todo') - 3, NEW n \in 1 .. Len(todo') - 3, todo'[m] = todo'[n]
       PROVE  m = n
  <2>1. todo[m + 1] = todo[n + 1] /\ m + 1 \in 1 .. Len(todo) - 3 /\ n + 1 \in 1 .. Len(todo) - 3
    BY <1>7, <1>10
  <2>2. m + 1 = n + 1
    BY <2>1 DEF RestOfDrop
  <2> QED BY <1>1, <2>2
<1> QED BY <1>6, <1>8, <1>9, <1>10 DEF RestOfDrop

LEMMA DeleteIndexFileOrderly ==
  ASSUME DatabaseInv, Orderly, DeleteIndexFile
  PROVE  Orderly'
<1>1. /\ todo # <<>> /\ todo[1][1] \in {"drop_index_file", "delete_index_file"}
      /\ Subject = todo[1][2] /\ Subject \in Indexes
  BY DoingFacts DEF DeleteIndexFile, IndexKinds
<1>2. PICK i \in Indexes : i = Subject
  BY <1>1
<1>3. /\ UNCHANGED <<tables, disk_tables, disk_indexes, table_file, damage>>
      /\ index_file[i] # Missing =>
           /\ index_file' = [index_file EXCEPT ![i] = Missing]
           /\ indexes' = [indexes EXCEPT ![i] = NoTable]
           /\ todo' = Tail(todo)
  BY <1>2 DEF DeleteIndexFile, catalogs, Advance, Proceed
<1>4. /\ index_file \in [Indexes -> IndexFile \cup {Missing, Broken}]
      /\ indexes \in [Indexes -> Tables \cup {NoTable}]
      /\ tables \subseteq Tables
  BY DEF DatabaseInv, TypeInv, TypeOK
<1>5. TablesThere'
  BY <1>3 DEF Orderly, TablesThere
<1>6. ASSUME SettledBut(i), index_file[i] # Missing PROVE AllSettled'
  <2>1. Settled(i)'
    BY <1>3, <1>4, <1>6 DEF Settled
  <2>2. ASSUME NEW j \in Indexes \ {i} PROVE Settled(j)'
    <3>1. Settled(j)
      BY <1>6 DEF SettledBut
    <3>2. indexes[j] # NoTable => indexes[j] \in tables
      BY <3>1 DEF Settled
    <3>3. indexes'[j] = indexes[j] /\ index_file'[j] = index_file[j]
      BY <1>3, <1>4, <1>6
    <3> QED BY <1>3, <3>1, <3>2, <3>3, StaysSettled
  <2> QED BY <2>1, <2>2 DEF AllSettled
<1>7. CASE todo[1][1] = "drop_index_file"
  <2>1. DropsTable
    BY <1>1, <1>7, WhichStatement
  <2>2. PICK t \in tables : RestOfDrop(todo, t)
    BY <2>1 DEF DropsTable
  <2>3. i \in IndexesOn(t)
    <3>1. Len(todo) \in Nat /\ Len(todo) >= 4
      BY <1>7, <2>2, TodoFacts DEF DatabaseInv, RestOfDrop
    <3>2. 1 \in 1 .. Len(todo) - 3
      BY <3>1
    <3> QED BY <1>1, <1>2, <2>2, <3>2 DEF RestOfDrop
  <2>4. t # NoTable /\ t \in Tables
    BY <1>4, NameAssumption
  <2>5. index_file[i] # Missing /\ SettledBut(i)
    <3>1. AllSettled
      BY <2>1 DEF DropsTable
    <3>2. index_file[i] = EntriesOf(table_file[t])
      BY <2>3, <2>4, <3>1 DEF AllSettled, Settled, IndexesOn
    <3>3. EntriesOf(table_file[t]) \in IndexFile
      BY <2>4, RowsTyped DEF DatabaseInv, TypeInv
    <3> QED BY <3>1, <3>2, <3>3, FileFacts DEF AllSettled, SettledBut
  <2>6. RestOfDrop(todo, t)'
    BY <1>1, <1>2, <1>3, <1>7, <2>2, <2>4, <2>5, DropGoesOn
  <2>7. DropsTable'
    BY <1>3, <1>6, <2>1, <2>5, <2>6 DEF DropsTable
  <2> QED BY <1>5, <2>7 DEF Orderly
<1>8. CASE todo[1][1] = "delete_index_file"
  <2>1. DropsIndex
    BY <1>1, <1>8, WhichStatement
  <2>2. PICK j \in Indexes, t \in Tables :
          /\ SettledBut(j) /\ index_file[j] # Missing
          /\ todo = <<<<"delete_index_file", j>>, <<"save_indexes", t>>>>
    BY <2>1 DEF DropsIndex
  <2>3. j = i
    BY <1>1, <1>2, <2>2
  <2>4. todo' = <<<<"save_indexes", t>>>>
    BY <1>3, <2>2, <2>3
  <2>5. SavesCatalogs'
    BY <1>3, <1>6, <2>1, <2>2, <2>3, <2>4 DEF SavesCatalogs, DropsIndex
  <2> QED BY <1>5, <2>5 DEF Orderly
<1> QED BY <1>1, <1>7, <1>8

LEMMA RemoveTableFileOrderly ==
  ASSUME DatabaseInv, Orderly, RemoveTableFile
  PROVE  Orderly'
<1>1. /\ todo # <<>> /\ todo[1][1] = "remove_table_file"
      /\ Subject = todo[1][2] /\ Subject \in Tables
  BY DoingFacts DEF RemoveTableFile, TableKinds
<1>2. DropsTable /\ TablesThere
  BY <1>1, WhichStatement DEF Orderly
<1>3. PICK t \in tables : RestOfDrop(todo, t)
  BY <1>2 DEF DropsTable
<1>4. Len(todo) = 3
  <2>1. PICK len \in Nat : len = Len(todo) /\ len >= 3
    BY <1>3, TodoFacts DEF DatabaseInv, RestOfDrop
  <2>2. 1 \notin 1 .. len - 3
    BY <1>1, <1>3, <2>1 DEF RestOfDrop
  <2>3. len = 3
    BY <2>1, <2>2
  <2> QED BY <2>1, <2>3
<1>5. /\ todo[1] = <<"remove_table_file", t>>
      /\ todo[2] = <<"save_catalog", t>>
      /\ todo[3] = <<"save_indexes", t>>
  BY <1>3, <1>4 DEF RestOfDrop
<1>6. IndexesOn(t) = {}
  BY <1>3, <1>4 DEF RestOfDrop
<1>7. t \in Tables /\ t = Subject /\ table_file[t] # Missing
  BY <1>1, <1>2, <1>5, FileFacts, ThereFacts
<1>8. /\ UNCHANGED <<indexes, disk_tables, disk_indexes, index_file>>
      /\ table_file' = [table_file EXCEPT ![t] = Missing]
      /\ damage' = [damage EXCEPT ![t] = Whole]
      /\ tables' = tables \ {t}
      /\ todo' = Tail(todo)
  BY <1>7 DEF RemoveTableFile, catalogs, Advance, Proceed
<1>9. todo' = <<<<"save_catalog", t>>, <<"save_indexes", t>>>>
  <2>1. /\ todo' \in Seq(Effects) /\ Len(todo') = 2
        /\ todo'[1] = todo[2] /\ todo'[2] = todo[3]
    <3>1. /\ Tail(todo) \in Seq(Effects) /\ Len(Tail(todo)) = Len(todo) - 1
          /\ \A n \in 1 .. Len(todo) - 1 : Tail(todo)[n] = todo[n + 1]
      BY <1>1, TodoFacts DEF DatabaseInv
    <3>2. Len(todo) - 1 = 2 /\ 1 \in 1 .. 2 /\ 2 \in 1 .. 2 /\ 1 + 1 = 2 /\ 2 + 1 = 3
      BY <1>4
    <3>3. Tail(todo)[1] = todo[1 + 1] /\ Tail(todo)[2] = todo[2 + 1]
      BY <3>1, <3>2
    <3> QED BY <1>8, <3>1, <3>2, <3>3
  <2> QED BY <1>5, <2>1
<1>10. /\ table_file \in [Tables -> TableFile \cup {Missing, Broken}]
       /\ damage \in [Tables -> Damages]
       /\ tables \subseteq Tables
  BY DEF DatabaseInv, TypeInv, TypeOK
<1>11. \A u \in tables' : table_file'[u] = table_file[u]
  BY <1>8, <1>10
<1>12. TablesThere'
  BY <1>2, <1>7, <1>8, <1>10 DEF TablesThere
<1>13. AllSettled'
  <2>1. ASSUME NEW i \in Indexes PROVE Settled(i)'
    <3>1. Settled(i)
      BY <1>2 DEF DropsTable, AllSettled
    <3>2. indexes[i] # NoTable => indexes[i] \in tables'
      BY <1>6, <1>8, <3>1 DEF Settled, IndexesOn
    <3> QED BY <1>8, <1>11, <3>1, <3>2, StaysSettled
  <2> QED BY <2>1 DEF AllSettled
<1>14. SavesCatalogs'
  BY <1>7, <1>9, <1>13 DEF SavesCatalogs
<1> QED BY <1>12, <1>14 DEF Orderly

LEMMA CreateIndexFileOrderly ==
  ASSUME DatabaseInv, Orderly, CreateIndexFile
  PROVE  Orderly'
<1>1. /\ todo # <<>> /\ todo[1][1] = "create_index_file"
      /\ Subject = todo[1][2] /\ Subject \in Indexes
  BY DoingFacts DEF CreateIndexFile, IndexKinds
<1>2. CreatesIndex /\ TablesThere
  BY <1>1, WhichStatement DEF Orderly
<1>3. PICK t \in tables, i \in Indexes :
        /\ indexes[i] = NoTable
        /\ request[2] = t
        /\ todo = <<<<"create_index_file", i>>, <<"save_indexes", t>>, <<"rebuild", i>>>>
  BY <1>2 DEF CreatesIndex
<1>4. i = Subject
  BY <1>1, <1>3
<1>5. /\ UNCHANGED <<tables, disk_tables, disk_indexes, table_file, damage>>
      /\ index_file' = [index_file EXCEPT ![i] = {}]
      /\ indexes' = [indexes EXCEPT ![i] = t]
      /\ todo' = Tail(todo)
  BY <1>3, <1>4 DEF CreateIndexFile, catalogs, Advance, Proceed
<1>6. todo' = <<<<"save_indexes", t>>, <<"rebuild", i>>>>
  BY <1>3, <1>5
<1>7. /\ index_file \in [Indexes -> IndexFile \cup {Missing, Broken}]
      /\ indexes \in [Indexes -> Tables \cup {NoTable}]
      /\ tables \subseteq Tables
  BY DEF DatabaseInv, TypeInv, TypeOK
<1>8. TablesThere'
  BY <1>2, <1>5 DEF TablesThere
<1>9. ASSUME NEW j \in Indexes \ {i} PROVE Settled(j)'
  <2>1. Settled(j)
    BY <1>2 DEF CreatesIndex, AllSettled
  <2>2. indexes[j] # NoTable => indexes[j] \in tables
    BY <2>1 DEF Settled
  <2>3. indexes'[j] = indexes[j] /\ index_file'[j] = index_file[j]
    BY <1>5, <1>7
  <2> QED BY <1>5, <2>1, <2>2, <2>3, StaysSettled
<1>10. FillsIndex'
  <2>1. SettledBut(i)' /\ indexes'[i] \in tables' /\ index_file'[i] \in IndexFile
    BY <1>5, <1>7, <1>9 DEF SettledBut, IndexFile
  <2>2. disk_tables' = tables' /\ t \in Tables
    BY <1>2, <1>5, <1>7 DEF CreatesIndex, CatalogsSaved
  <2> QED BY <1>6, <2>1, <2>2 DEF FillsIndex
<1> QED BY <1>8, <1>10 DEF Orderly

(* A write goes on, or its last effect leaves nothing to rebuild. *)
LEMMA WriteGoesOn ==
  ASSUME TablesThere', CatalogsSaved', request'[1] \in Writes, request'[2] \in tables',
         \A i \in Indexes :
           Settled(i)' \/ (indexes'[i] = request'[2] /\ Pending(i)' /\ index_file'[i] \in IndexFile)
  PROVE  Orderly'
<1>1. CASE todo' = <<>>
  <2>1. \A i \in Indexes : ~Pending(i)'
    BY <1>1 DEF Pending
  <2>2. AtRest'
    BY <1>1, <2>1 DEF AtRest, AllSettled
  <2> QED BY <2>2 DEF Orderly
<1>2. CASE todo' # <<>>
  BY <1>2 DEF Orderly, WritesRows
<1> QED BY <1>1, <1>2

LEMMA RebuildOrderly ==
  ASSUME DatabaseInv, Orderly, Rebuild
  PROVE  Orderly'
<1>0. PICK j \in Indexes : j = Subject
  BY DoingFacts DEF Rebuild, IndexKinds
<1>1. todo # <<>> /\ todo[1][1] = "rebuild" /\ j = todo[1][2]
  BY <1>0, DoingFacts DEF Rebuild
<1>2. TablesThere
  BY DEF Orderly
<1>3. /\ table_file \in [Tables -> TableFile \cup {Missing, Broken}]
      /\ index_file \in [Indexes -> IndexFile \cup {Missing, Broken}]
      /\ tables \subseteq Tables
  BY DEF DatabaseInv, TypeInv, TypeOK
<1>4. UNCHANGED <<tables, indexes, disk_tables, disk_indexes, table_file, damage>>
  BY DEF Rebuild, memory, catalogs
<1>5. ASSUME indexes[j] \in tables, index_file[j] \in IndexFile
      PROVE  /\ index_file' = [index_file EXCEPT ![j] = EntriesOf(table_file[indexes[j]])]
             /\ todo' = Tail(todo) /\ request' = request
             /\ Settled(j)'
  <2>1. Scans(indexes[j]) /\ Readable(index_file[j])
    BY <1>2, <1>5, FileFacts, ThereFacts
  <2>2. /\ index_file' = [index_file EXCEPT ![j] = EntriesOf(table_file[indexes[j]])]
        /\ todo' = Tail(todo) /\ request' = request
    BY <1>0, <1>5, <2>1 DEF Rebuild, Advance, Proceed
  <2>3. index_file'[j] = EntriesOf(table_file[indexes[j]])
    BY <1>3, <2>2
  <2>4. EntriesOf(table_file[indexes[j]])' = EntriesOf(table_file[indexes[j]])
    BY <1>4 DEF EntriesOf, RowsOf
  <2>5. indexes[j] # NoTable
    BY <1>3, <1>5, NameAssumption
  <2> QED BY <1>4, <1>5, <2>2, <2>3, <2>4, <2>5 DEF Settled
<1>6. ASSUME NEW i \in Indexes \ {j}, Settled(i), index_file'[i] = index_file[i]
      PROVE  Settled(i)'
  <2>1. indexes[i] # NoTable => indexes[i] \in tables
    BY <1>6 DEF Settled
  <2> QED BY <1>4, <1>6, <2>1, StaysSettled
<1>7. TablesThere'
  BY <1>2, <1>4 DEF TablesThere
<1>8. CASE FillsIndex
  <2>1. PICK i \in Indexes :
          /\ SettledBut(i) /\ indexes[i] \in tables /\ index_file[i] \in IndexFile
          /\ disk_indexes = indexes /\ todo = <<<<"rebuild", i>>>>
    BY <1>1, <1>8 DEF FillsIndex
  <2>2. i = j
    BY <1>1, <2>1
  <2>3. todo' = <<>>
    BY <1>5, <2>1, <2>2
  <2>4. \A k \in Indexes \ {j} : index_file'[k] = index_file[k]
    BY <1>3, <1>5, <2>1, <2>2
  <2>5. AllSettled'
    BY <1>5, <1>6, <2>1, <2>2, <2>4 DEF AllSettled, SettledBut
  <2>6. AtRest'
    BY <1>4, <1>8, <2>1, <2>3, <2>5 DEF AtRest, CatalogsSaved, FillsIndex
  <2> QED BY <1>7, <2>6 DEF Orderly
<1>9. CASE WritesRows
  <2>1. Rebuilding
    BY <1>1, <1>9, WhoseEffect DEF WritesRows, Quiet
  <2>2. indexes[j] = request[2] /\ request[2] \in tables
    <3>1. 1 \in DOMAIN todo
      BY <1>1, TodoFacts DEF DatabaseInv
    <3> QED BY <1>1, <1>9, <2>1, <3>1 DEF Rebuilding, RebuildsFrom, WritesRows
  <2>3. index_file[j] \in IndexFile
    <3>1. EntriesOf(table_file[indexes[j]]) \in IndexFile
      BY <1>3, <2>2, RowsTyped
    <3>2. indexes[j] # NoTable
      BY <1>3, <2>2, NameAssumption
    <3> QED BY <1>9, <3>1, <3>2 DEF WritesRows, Settled
  <2>4. ASSUME NEW i \in Indexes
        PROVE  Settled(i)' \/ (indexes'[i] = request'[2] /\ Pending(i)' /\ index_file'[i] \in IndexFile)
    <3>1. CASE i = j
      BY <1>5, <2>2, <2>3, <3>1
    <3>2. CASE i # j
      <4>1. index_file'[i] = index_file[i] /\ indexes'[i] = indexes[i] /\ request' = request
        BY <1>3, <1>4, <1>5, <2>2, <2>3, <3>2
      <4>2. CASE Settled(i)
        BY <1>6, <3>2, <4>1, <4>2
      <4>3. CASE Pending(i) /\ indexes[i] = request[2] /\ index_file[i] \in IndexFile
        <5>1. todo[1] # <<"rebuild", i>>
          BY <1>1, <3>2
        <5>2. Pending(i)'
          BY <1>1, <1>5, <2>2, <2>3, <4>3, <5>1, StillPending
        <5> QED BY <4>1, <4>3, <5>2
      <4> QED BY <1>9, <4>2, <4>3 DEF WritesRows
    <3> QED BY <3>1, <3>2
  <2>5. CatalogsSaved' /\ request' = request /\ request'[2] \in tables' /\ request'[1] \in Writes
    BY <1>4, <1>5, <1>9, <2>2, <2>3 DEF CatalogsSaved, WritesRows
  <2> QED BY <1>7, <2>4, <2>5, WriteGoesOn
<1> QED BY <1>1, <1>8, <1>9, WhichStatement

LEMMA ChangesOrderly ==
  ASSUME DatabaseInv, Orderly, InsertRow \/ UpdateRows
  PROVE  Orderly'
<1>0. PICK t \in Tables : t = Subject
  BY DoingFacts DEF InsertRow, UpdateRows
<1>1. todo # <<>> /\ todo[1][1] \in {"insert_row", "update_rows"} /\ t = todo[1][2]
  BY <1>0, DoingFacts DEF InsertRow, UpdateRows
<1>2. WritesRows /\ TablesThere /\ Changing
  BY <1>1, WhichStatement, WhoseEffect DEF Orderly
<1>3. t = request[2] /\ t \in tables
  BY <1>1, <1>2 DEF Changing, WritesRows
<1>4. Opens(t) /\ Scans(t) /\ damage[t] = Whole
  BY <1>2, <1>3, ThereFacts
<1>5. /\ UNCHANGED <<tables, indexes, disk_tables, disk_indexes, table_file, damage, index_file, request>>
      /\ todo' = Tail(todo)
  BY <1>0, <1>4 DEF InsertRow, UpdateRows, memory, catalogs, files, Advance, Proceed
<1>6. ASSUME NEW i \in Indexes
      PROVE  Settled(i)' \/ (indexes'[i] = request'[2] /\ Pending(i)' /\ index_file'[i] \in IndexFile)
  <2>1. CASE Settled(i)
    BY <1>5, <2>1, AllStaySettled
  <2>2. CASE Pending(i) /\ indexes[i] = request[2] /\ index_file[i] \in IndexFile
    <3>1. todo[1] # <<"rebuild", i>>
      BY <1>1
    <3>2. Pending(i)'
      BY <1>1, <1>5, <2>2, <3>1, StillPending
    <3> QED BY <1>5, <2>2, <3>2
  <2> QED BY <1>2, <2>1, <2>2 DEF WritesRows
<1>7. TablesThere' /\ CatalogsSaved' /\ request'[1] \in Writes /\ request'[2] \in tables'
  BY <1>2, <1>5, AllStaySettled DEF WritesRows, CatalogsSaved
<1> QED BY <1>6, <1>7, WriteGoesOn

LEMMA CloseTableOrderly ==
  ASSUME DatabaseInv, Orderly, CloseTable
  PROVE  Orderly'
<1>0. PICK t \in Tables : t = Subject
  BY DoingFacts DEF CloseTable, TableKinds
<1>1. todo # <<>> /\ todo[1][1] = "close_table" /\ t = todo[1][2]
  BY <1>0, DoingFacts DEF CloseTable
<1>2. WritesRows /\ TablesThere /\ Closing
  BY <1>1, WhichStatement, WhoseEffect DEF Orderly
<1>3. t = request[2] /\ t \in tables /\ handle \in TableFile /\ t # NoTable
  BY <1>1, <1>2, NameAssumption DEF Closing, WritesRows
<1>4. ~IntoDamaged
  BY <1>0, <1>2, <1>3, ThereFacts DEF IntoDamaged
<1>5. /\ UNCHANGED <<tables, indexes, disk_tables, disk_indexes, damage, index_file, request>>
      /\ table_file' = [table_file EXCEPT ![t] = handle]
      /\ todo' = Tail(todo)
  BY <1>0, <1>4 DEF CloseTable, memory, catalogs, Proceed
<1>6. /\ table_file \in [Tables -> TableFile \cup {Missing, Broken}]
      /\ tables \subseteq Tables
  BY DEF DatabaseInv, TypeInv, TypeOK
<1>7. ASSUME NEW i \in Indexes
      PROVE  Settled(i)' \/ (indexes'[i] = request'[2] /\ Pending(i)' /\ index_file'[i] \in IndexFile)
  <2>1. CASE indexes[i] = t
    <3>1. Pending(i)
      BY <1>2, <1>3, <2>1 DEF Closing, AllPending, IndexesOn
    <3>2. todo[1] # <<"rebuild", i>>
      BY <1>1
    <3>3. Pending(i)'
      BY <1>1, <1>5, <3>1, <3>2, StillPending
    <3>4. EntriesOf(table_file[t]) \in IndexFile
      BY <1>6, RowsTyped
    <3>5. index_file[i] \in IndexFile
      BY <1>2, <1>3, <2>1, <3>4 DEF WritesRows, Settled
    <3> QED BY <1>3, <1>5, <2>1, <3>3, <3>5
  <2>2. CASE indexes[i] # t
    <3>1. Settled(i)
      BY <1>2, <1>3, <2>2 DEF WritesRows
    <3>2. indexes[i] # NoTable => indexes[i] \in tables
      BY <3>1 DEF Settled
    <3>3. indexes[i] # NoTable => table_file'[indexes[i]] = table_file[indexes[i]]
      BY <1>5, <1>6, <2>2, <3>2
    <3> QED BY <1>5, <3>1, <3>2, <3>3, StaysSettled
  <2> QED BY <2>1, <2>2
<1>8. TablesThere'
  BY <1>2, <1>3, <1>5, <1>6 DEF TablesThere
<1>9. CatalogsSaved' /\ request'[1] \in Writes /\ request'[2] \in tables'
  BY <1>2, <1>5 DEF WritesRows, CatalogsSaved
<1> QED BY <1>7, <1>8, <1>9, WriteGoesOn

(* An effect carries its statement on towards rest. *)
LEMMA EffectOrderly ==
  ASSUME DatabaseInv, Orderly, Effect
  PROVE  Orderly'
BY CreateFilesOrderly, SavesOrderly, DeleteIndexFileOrderly, RemoveTableFileOrderly,
   CreateIndexFileOrderly, RebuildOrderly, ChangesOrderly, CloseTableOrderly DEF Effect

(* A select that finds everything at rest answers with what a scan finds. *)
LEMMA SelectsOrderly ==
  ASSUME DatabaseInv, Orderly, NEW t \in Tables, NEW k \in Keys,
         SelectByScan(t, k) \/ SelectByIndex(t, k) \/ SelectFails(t, k)
  PROVE  Orderly' /\ SelectMatchesScan'
<1>1. PICK rows : Select(t, k, rows)
  BY DEF SelectByScan, SelectByIndex, SelectFails
<1>2. /\ todo = <<>> /\ t \in tables
      /\ UNCHANGED <<tables, indexes, disk_tables, disk_indexes, table_file, damage, index_file, todo>>
      /\ request' = <<"select", t, k>>
  BY <1>1 DEF Select, Idle, memory, catalogs, files
<1>3. AllSettled /\ CatalogsSaved /\ TablesThere
  BY <1>2, RestIsOrderly
<1>4. Orderly'
  <2>1. AllSettled' /\ TablesThere' /\ CatalogsSaved'
    BY <1>2, <1>3, AllStaySettled DEF CatalogsSaved
  <2> QED BY <1>2, <2>1 DEF Orderly, AtRest
<1>5. table_file[t] \in TableFile /\ Readable(table_file[t]) /\ Opens(t) /\ Scans(t)
  BY <1>2, <1>3, ThereFacts
<1>6. ASSUME IndexesOn(t) # {}
      PROVE  LET i == IndexFor(t) IN
             /\ Readable(index_file[i])
             /\ LookupEq(i, k) = {r \in Rids : table_file[t][r] = k}
  <2>1. PICK i \in IndexesOn(t) : i = IndexFor(t)
    BY <1>6, IndexForIs
  <2>2. t # NoTable /\ i \in Indexes /\ indexes[i] = t
    BY NameAssumption DEF IndexesOn
  <2>3. index_file[i] = EntriesOf(table_file[t])
    BY <1>3, <2>2 DEF AllSettled, Settled
  <2>4. EntriesOf(table_file[t]) \in IndexFile
    BY <1>5, RowsTyped
  <2>5. LookupEq(i, k) = {r \in Rids : table_file[t][r] = k}
    <3>1. RowsOf(table_file[t]) = {<<r, table_file[t][r]>> : r \in {s \in Rids : table_file[t][s] # NoKey}}
      BY <1>5 DEF RowsOf
    <3>2. ASSUME NEW r \in LookupEq(i, k) PROVE r \in Rids /\ table_file[t][r] = k
      <4>1. PICK e \in EntriesOf(table_file[t]) : e[1] = k /\ r = e[2]
        BY <2>3, <3>2 DEF LookupEq
      <4>2. PICK row \in RowsOf(table_file[t]) : e = <<row[2], row[1]>>
        BY <4>1 DEF EntriesOf
      <4>3. PICK q \in Rids : row = <<q, table_file[t][q]>>
        BY <3>1, <4>2
      <4> QED BY <4>1, <4>2, <4>3
    <3>3. ASSUME NEW r \in Rids, table_file[t][r] = k PROVE r \in LookupEq(i, k)
      <4>1. <<r, k>> \in RowsOf(table_file[t])
        BY <3>1, <3>3, NameAssumption
      <4>2. <<r, k>>[1] = r /\ <<r, k>>[2] = k
        OBVIOUS
      <4>3. <<k, r>> \in EntriesOf(table_file[t])
        BY <4>1, <4>2 DEF EntriesOf
      <4> QED BY <2>3, <4>3 DEF LookupEq
    <3> QED BY <3>2, <3>3
  <2> QED BY <2>1, <2>3, <2>4, <2>5, FileFacts
<1>7. Answerable(t, k)
  BY <1>5, <1>6, NameAssumption DEF Answerable
<1>8. answer' = <<"rows", {row \in RowsOf(table_file[t]) : row[2] = k}>>
  <2>1. CASE SelectByScan(t, k)
    BY <2>1 DEF SelectByScan, Select
  <2>2. CASE SelectByIndex(t, k)
    <3>1. answer' = <<"rows", {<<r, table_file[t][r]>> : r \in LookupEq(IndexFor(t), k)}>>
      BY <2>2 DEF SelectByIndex, Select
    <3>2. LookupEq(IndexFor(t), k) = {r \in Rids : table_file[t][r] = k}
      BY <1>6, <2>2 DEF SelectByIndex
    <3>3. RowsOf(table_file[t]) = {<<r, table_file[t][r]>> : r \in {s \in Rids : table_file[t][s] # NoKey}}
      BY <1>5 DEF RowsOf
    <3>4. {<<r, table_file[t][r]>> : r \in {s \in Rids : table_file[t][s] = k}}
            = {row \in RowsOf(table_file[t]) : row[2] = k}
      BY <3>3, NameAssumption
    <3> QED BY <3>1, <3>2, <3>4
  <2>3. CASE SelectFails(t, k)
    BY <1>7, <2>3 DEF SelectFails
  <2> QED BY <2>1, <2>2, <2>3
<1>9. SelectMatchesScan'
  <2>1. RowsOf(table_file[request[2]])' = RowsOf(table_file[t])
    BY <1>2 DEF RowsOf
  <2>2. request'[3] = k
    BY <1>2
  <2> QED BY <1>8, <2>1, <2>2 DEF SelectMatchesScan
<1> QED BY <1>4, <1>9

LEMMA StatementOrderly ==
  ASSUME DatabaseInv, Orderly, ~DuplicateCreates, Statement
  PROVE  Orderly'
<1>1. CASE \E i \in Indexes : DropIndex(i)
  BY <1>1, DropIndexOrderly
<1>2. ASSUME NEW t \in Tables,
             \/ \E fits \in BOOLEAN : CreateTable(t, fits)
             \/ DropTable(t)
             \/ \E i \in Indexes : CreateIndex(i, t)
      PROVE  Orderly'
  BY <1>2, CreateTableOrderly, DropTableOrderly, CreateIndexOrderly
<1>3. ASSUME NEW t \in Tables, NEW k \in Keys,
             Insert(t, k) \/ (\E new \in Keys \ {k} : Update(t, k, new)) \/ Delete(t, k)
      PROVE  Orderly'
  BY <1>3, WriteOrderly
<1>4. ASSUME NEW t \in Tables, NEW k \in Keys,
             SelectByScan(t, k) \/ SelectByIndex(t, k) \/ SelectFails(t, k)
      PROVE  Orderly'
  BY <1>4, SelectsOrderly
<1> QED BY <1>1, <1>2, <1>3, <1>4 DEF Statement

(* No other step leaves a select as the last request. *)
LEMMA OtherRequests ==
  ASSUME DatabaseInv, SelectStands, Next,
         ~ \E t \in Tables, k \in Keys :
             SelectByScan(t, k) \/ SelectByIndex(t, k) \/ SelectFails(t, k)
  PROVE  request'[1] # "select"
<1>1. CASE Statement
  <2>1. ASSUME NEW call, NEW t, NEW k, NEW effects, Begin(call, t, k, effects), call # "select"
        PROVE  request'[1] # "select"
    BY <2>1 DEF Begin
  <2>2. ASSUME NEW i \in Indexes, DropIndex(i) PROVE request'[1] # "select"
    BY <2>1, <2>2 DEF DropIndex
  <2>3. ASSUME NEW t \in Tables,
               \/ \E fits \in BOOLEAN : CreateTable(t, fits)
               \/ DropTable(t)
               \/ \E i \in Indexes : CreateIndex(i, t)
        PROVE  request'[1] # "select"
    BY <2>1, <2>3 DEF CreateTable, DropTable, CreateIndex
  <2>4. ASSUME NEW t \in Tables, NEW k \in Keys,
               Insert(t, k) \/ (\E new \in Keys \ {k} : Update(t, k, new)) \/ Delete(t, k)
        PROVE  request'[1] # "select"
    BY <2>1, <2>4 DEF Insert, Update, Delete
  <2> QED BY <1>1, <2>2, <2>3, <2>4 DEF Statement
<1>2. CASE Effect \/ IoError \/ WritesLost
  <2>1. todo # <<>> /\ request' = request
    BY <1>2 DEF Effect, CreatePageFile, RejectRecordSize, CreateRecordFile, SaveCatalog, SaveIndexes,
                DeleteIndexFile, RemoveTableFile, CreateIndexFile, Rebuild, InsertRow, UpdateRows,
                CloseTable, IoError, WritesLost, Idle, Doing, Advance, Abort
  <2> QED BY <2>1 DEF SelectStands
<1>3. CASE Kill \/ Reopen
  BY <1>3 DEF Kill, Reopen, Load
<1> QED BY <1>1, <1>2, <1>3 DEF Next

(* Only errors and kills disturb. *)
LEMMA StatementStep ==
  ASSUME Statement
  PROVE  disturbed' = disturbed
<1>1. ASSUME NEW call, NEW t, NEW k, NEW effects, Begin(call, t, k, effects)
      PROVE  disturbed' = disturbed
  BY <1>1 DEF Begin
<1>2. ASSUME NEW i \in Indexes, DropIndex(i) PROVE disturbed' = disturbed
  BY <1>1, <1>2 DEF DropIndex
<1>3. ASSUME NEW t \in Tables,
             \/ \E fits \in BOOLEAN : CreateTable(t, fits)
             \/ DropTable(t)
             \/ \E i \in Indexes : CreateIndex(i, t)
      PROVE  disturbed' = disturbed
  BY <1>1, <1>3 DEF CreateTable, DropTable, CreateIndex
<1>4. ASSUME NEW t \in Tables, NEW k \in Keys,
             Insert(t, k) \/ (\E new \in Keys \ {k} : Update(t, k, new)) \/ Delete(t, k)
      PROVE  disturbed' = disturbed
  BY <1>1, <1>4 DEF Insert, Update, Delete
<1>5. ASSUME NEW t \in Tables, NEW k \in Keys,
             SelectByScan(t, k) \/ SelectByIndex(t, k) \/ SelectFails(t, k)
      PROVE  disturbed' = disturbed
  <2>1. ASSUME NEW rows, Select(t, k, rows) PROVE disturbed' = disturbed
    BY <2>1 DEF Select, history
  <2> QED BY <1>5, <2>1 DEF SelectByScan, SelectByIndex, SelectFails
<1> QED BY <1>2, <1>3, <1>4, <1>5 DEF Statement

LEMMA EffectStep ==
  ASSUME Effect
  PROVE  disturbed' = disturbed
BY DEF Effect, CreatePageFile, RejectRecordSize, CreateRecordFile, SaveCatalog, SaveIndexes,
       DeleteIndexFile, RemoveTableFile, CreateIndexFile, Rebuild, InsertRow, UpdateRows,
       CloseTable, Advance, Abort

(* As long as no statement was cut short and no client creates an index      *)
(* under a used name, every moment is that of a statement with the rest of   *)
(* its work before it, and between two statements all is settled and saved.  *)
THEOREM DatabaseOrderly ==
  ASSUME ~DuplicateCreates
  PROVE  Spec => []OrderlyInv
<1>1. Init => OrderlyInv
  <2> SUFFICES ASSUME Init PROVE OrderlyInv
    OBVIOUS
  <2>1. AllSettled /\ CatalogsSaved /\ TablesThere
    BY DEF Init, AllSettled, Settled, CatalogsSaved, TablesThere, NoIndexes
  <2>2. Orderly
    BY <2>1 DEF Init, Orderly, AtRest
  <2>3. SelectStands
    BY DEF Init, SelectStands
  <2> QED BY <2>2, <2>3, InitInv DEF OrderlyInv
<1>2. OrderlyInv /\ DatabaseInv' /\ [Next]_vars => OrderlyInv'
  <2> SUFFICES ASSUME OrderlyInv, DatabaseInv', [Next]_vars PROVE OrderlyInv'
    OBVIOUS
  <2>1. CASE UNCHANGED vars
    <3>1. UNCHANGED <<tables, indexes, disk_tables, disk_indexes, table_file, damage, index_file, todo,
                      request, answer, disturbed>>
      BY <2>1 DEF vars, memory, catalogs, files, history
    <3>2. Orderly => Orderly'
      <4>1. /\ TablesThere' = TablesThere /\ AllSettled' = AllSettled
            /\ CatalogsSaved' = CatalogsSaved
            /\ \A i \in Indexes : Settled(i)' = Settled(i) /\ SettledBut(i)' = SettledBut(i)
                                    /\ Pending(i)' = Pending(i)
        BY <3>1 DEF TablesThere, AllSettled, Settled, SettledBut, CatalogsSaved, Pending, EntriesOf, RowsOf
      <4>2. \A t : RestOfDrop(todo, t)' = RestOfDrop(todo, t)
        BY <3>1 DEF RestOfDrop, IndexesOn
      <4>3. AtRest' = AtRest /\ CreatesTable' = CreatesTable /\ SavesCatalogs' = SavesCatalogs
        BY <3>1, <4>1 DEF AtRest, CreatesTable, SavesCatalogs
      <4>4. DropsTable' = DropsTable
        BY <3>1, <4>1, <4>2 DEF DropsTable
      <4>5. CreatesIndex' = CreatesIndex
        BY <3>1, <4>1 DEF CreatesIndex
      <4>6. FillsIndex' = FillsIndex
        BY <3>1, <4>1 DEF FillsIndex
      <4>7. DropsIndex' = DropsIndex
        BY <3>1, <4>1 DEF DropsIndex
      <4>8. WritesRows' = WritesRows
        BY <3>1, <4>1 DEF WritesRows
      <4> QED BY <4>1, <4>3, <4>4, <4>5, <4>6, <4>7, <4>8 DEF Orderly
    <3>3. SelectStands'
      BY <3>1 DEF OrderlyInv, SelectStands, SelectMatchesScan, RowsOf
    <3> QED BY <3>1, <3>2, <3>3 DEF OrderlyInv
  <2>2. CASE Next
    <3>1. ~disturbed' => Orderly'
      <4>1. CASE Statement
        BY <4>1, StatementOrderly, StatementStep DEF OrderlyInv
      <4>2. CASE Effect
        BY <4>2, EffectOrderly, EffectStep DEF OrderlyInv
      <4>3. CASE IoError \/ WritesLost \/ Kill
        BY <4>3 DEF IoError, WritesLost, Kill
      <4>4. CASE Reopen
        BY <4>4, ReopenOrderly DEF OrderlyInv, Reopen, history
      <4> QED BY <2>2, <4>1, <4>2, <4>3, <4>4 DEF Next
    <3>2. SelectStands'
      <4>1. ASSUME NEW t \in Tables, NEW k \in Keys,
                   SelectByScan(t, k) \/ SelectByIndex(t, k) \/ SelectFails(t, k)
            PROVE  SelectStands'
        <5>1. todo' = <<>> /\ disturbed' = disturbed
          BY <4>1 DEF SelectByScan, SelectByIndex, SelectFails, Select, Idle, history
        <5>2. ~disturbed => SelectMatchesScan'
          BY <4>1, SelectsOrderly DEF OrderlyInv
        <5> QED BY <5>1, <5>2 DEF SelectStands
      <4>2. CASE ~ \E t \in Tables, k \in Keys :
                     SelectByScan(t, k) \/ SelectByIndex(t, k) \/ SelectFails(t, k)
        BY <2>2, <4>2, OtherRequests DEF OrderlyInv, SelectStands
      <4> QED BY <4>1, <4>2
    <3> QED BY <3>1, <3>2 DEF OrderlyInv
  <2> QED BY <2>1, <2>2
<1> QED BY <1>1, <1>2, DatabaseSafe, PTL DEF Spec

(* Between two statements, as long as none was cut short, every index holds *)
(* exactly the rows of its table.                                           *)
THEOREM IndexesFollowTables ==
  ASSUME ~DuplicateCreates
  PROVE  Spec => []IndexesMatchTables
<1>1. OrderlyInv => IndexesMatchTables
  <2> SUFFICES ASSUME OrderlyInv, Idle, ~disturbed,
                      NEW i \in Indexes, indexes[i] # NoTable
               PROVE  index_file[i] = EntriesOf(table_file[indexes[i]])
    BY DEF IndexesMatchTables
  <2>1. AllSettled
    BY RestIsOrderly DEF OrderlyInv, Idle
  <2> QED BY <2>1 DEF AllSettled, Settled
<1> QED BY <1>1, DatabaseOrderly, PTL

(* Between two statements, as long as none was cut short, the catalogs on   *)
(* disk are those in memory, exactly the tables in them have files that can *)
(* be scanned, every index has its table, and an index outside the catalog  *)
(* has no file.  Nothing is said of the page files without a record header  *)
(* that refused statements leave under names outside the catalog.           *)
THEOREM CatalogsFollowFiles ==
  ASSUME ~DuplicateCreates
  PROVE  Spec => []CatalogsMatchFiles
<1>1. OrderlyInv => CatalogsMatchFiles
  <2> SUFFICES ASSUME OrderlyInv, Idle, ~disturbed
               PROVE  /\ disk_tables = tables
                      /\ disk_indexes = indexes
                      /\ \A t \in Tables : IF t \in tables THEN Scans(t)
                                                            ELSE table_file[t] \in {Missing, Broken}
                      /\ \A i \in Indexes : IF indexes[i] = NoTable THEN index_file[i] = Missing
                                                                    ELSE indexes[i] \in tables
    BY DEF CatalogsMatchFiles
  <2>1. AllSettled /\ CatalogsSaved /\ TablesThere
    BY RestIsOrderly DEF OrderlyInv, Idle
  <2>2. \A t \in Tables : IF t \in tables THEN Scans(t) ELSE table_file[t] \in {Missing, Broken}
    BY <2>1, ThereFacts DEF TablesThere, OrderlyInv
  <2> QED BY <2>1, <2>2 DEF AllSettled, Settled, CatalogsSaved
<1> QED BY <1>1, DatabaseOrderly, PTL

(* As long as no statement was cut short, a select answers with the rows a  *)
(* scan finds, through an index or not, and does not fail.                  *)
THEOREM SelectsFindRows ==
  ASSUME ~DuplicateCreates
  PROVE  Spec => []SelectMatchesScan
<1>1. OrderlyInv => SelectMatchesScan
  BY DEF OrderlyInv, SelectStands, SelectMatchesScan
<1> QED BY <1>1, DatabaseOrderly, PTL

=============================================================================
