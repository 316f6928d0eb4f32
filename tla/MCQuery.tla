------------------------------- MODULE MCQuery --------------------------------
(***************************************************************************)
(* Query with two Int32 columns, a Float32 and a text of two bytes: 14     *)
(* bytes, four of which, with header and bitmap, leave 6 bytes of a page   *)
(* of 75.  The rows are chosen so that the order of every column is another *)
(* one, bytes compare otherwise than numbers, and two texts differ in a    *)
(* zero at the end only.                                                   *)
(***************************************************************************)
EXTENDS QueryMeaning

CONSTANTS MaxRows  \* bound on the rows of a table

MCSchema == <<Int32, Int32, Float32, Char(2)>>

\* -2.0, -1.0, -0.0, 0.0, 1.0
MCFloats == <<-1073741824, -1082130432, -2147483647 - 1, 0, 1065353216>>

Number(n) == <<"Int32", n>>
F32(n) == <<"Float32", MCFloats[n]>>

ASSUME FloatsInOrder == \A m, n \in DOMAIN MCFloats : Under(F32(m), F32(n)) <=> m < n

Text(bytes) == <<"Char", bytes>>

MCRows == {
  <<Number(-1),  Number(256), F32(2), Text(<<98>>)>>,
  <<Number(1),   Number(-1),  F32(5), Text(<<97>>)>>,
  <<Number(1),   Number(1),   F32(1), Text(<<97, 0>>)>>,
  <<Number(256), Number(1),   F32(3), Text(<<97, 98>>)>>}

MCTables == UNION {[1 .. n -> MCRows \cup {NoRow}] : n \in 0 .. MaxRows}

Ops == {"NoOp", "Eq", "Ne", "Lt", "Gt", "Le", "Ge"}
Some == {Number(1), F32(2), Text(<<97>>), Text(<<97, 98, 99>>)}

ValueClauses(columns, ops, values) ==
  [kind : {"value"}, column : columns, op : ops, rhs : values]
ColumnClauses(ops) == [kind : {"columns"}, column : {1}, op : ops, rhs : {2, 4}]

Clauses == ValueClauses({1, 3, 4, Unknown}, Ops, Some) \cup ColumnClauses(Ops)
FewClauses ==
  ValueClauses({1, 4, Unknown}, {"Eq"}, {Number(1)})
    \cup ValueClauses({4}, {"NoOp", "Lt"}, {Text(<<97, 98>>)})
    \cup ColumnClauses({"Lt"})

Both == {<<c, d, node>> : c \in FewClauses, d \in FewClauses,
                          node \in [kind : {"and", "or"}, children : {{1, 2}}]}

Filters ==
  {<<c>> : c \in Clauses}
    \cup {<<c, [kind |-> "not", children |-> {1}]>> : c \in Clauses}
    \cup {<<node>> : node \in [kind : {"and", "or"}, children : {{}}]} \cup Both

FewFilters ==
  {NoFilter} \cup {<<c>> : c \in ValueClauses({1}, {"Eq"}, {Number(1)})
                                   \cup ValueClauses({4}, {"Ge"}, {Text(<<97, 98>>)})}

Orders ==
  UNION {[1 .. n -> {<<1, "Asc">>, <<2, "Desc">>, <<3, "Asc">>, <<4, "Desc">>, <<Unknown, "Asc">>}] :
           n \in 0 .. 2}
All == <<1, 2, 3, 4>>
Projections == {All, <<>>, <<3>>, <<2, 1>>, <<1, 1>>, <<Unknown>>}

Selects ==
  [call : {"select"}, filter : Filters, order_by : {<<>>}, limit : {NoLimit}, projection : {All}]

OrderedSelects ==
  [call : {"select"}, filter : FewFilters, order_by : Orders, limit : {NoLimit, 2}, projection : {All}]
    \cup [call : {"select"}, filter : FewFilters, order_by : {<<>>, <<<<3, "Asc">>>>},
          limit : {0, 1}, projection : Projections]

\* The values of a row to insert, and lists of them that are no row.
Entry == {<<1, Number(1)>>, <<2, Number(-1)>>, <<3, F32(1)>>, <<4, Text(<<98, 0>>)>>,
          <<4, Text(<<97, 98, 99>>)>>, <<2, F32(2)>>, <<Unknown, Number(1)>>}

Inserts == [call : {"insert"}, named : BOOLEAN, entries : [1 .. 4 -> Entry]]
             \cup [call : {"insert"}, named : BOOLEAN, entries : UNION {[1 .. n -> Entry] : n \in 0 .. 2}]
             \cup [call : {"insert"}, named : {TRUE},
                   entries : {<<1, Number(1)>>} \X {<<2, Number(-1)>>}
                                \X {<<3, F32(1)>>} \X {<<4, Text(<<98, 0>>)>>} \X Entry]

Updates ==
  [call : {"update"}, named : {TRUE},
   filter : FewFilters \cup {<<c>> : c \in ValueClauses({4, Unknown}, {"Eq"}, {Number(1)})},
   entries : UNION {[1 .. n -> Entry] : n \in 0 .. 2}]
Deletes == [call : {"delete"}, filter : FewFilters \cup {<<c>> : c \in FewClauses}]

Types == {Int32, Float32, Char(1), Char(2), Char(0)}
Predicates ==
  [call : {"predicate"},
   predicate : [offset : {0, 3, 4, 8, 12, 13}, type : Types, op : {"NoOp", "Eq", "Lt"},
                value : {Number(1), F32(2), Text(<<97, 98>>), Text(<<97>>), NoValue}]]

RawClauses ==
  [kind : {"value"}, lhs : [offset : {0, 11, 12}, type : {Int32, Char(2)}], op : {"NoOp", "Eq", "Ge"},
   rhs : {Number(1), Text(<<97, 98>>)}]
Compounds ==
  [call : {"filter"},
   filter : {<<[kind |-> "and", children |-> {}]>>}
     \cup {<<c, d, [kind |-> "and", children |-> {1, 2}]>> : c \in RawClauses, d \in RawClauses}]

\* Records of 1 to 96 bytes: pages of 56 slots, of one, and of none.
Creates ==
  UNION {[call : {"create"}, names : [1 .. n -> {"a", "b"}],
          types : [1 .. n -> {Int32, Char(0), Char(1), Char(7), Char(32), Char(62)}]] : n \in 0 .. 2}

MCRequests(t) ==
  IF Len(t) = MaxRows THEN {r \in OrderedSelects : NoRow \notin Range(t)} \cup Deletes
  ELSE Selects \cup Updates \cup Deletes \cup Predicates
         \cup (IF Len(t) < 2 THEN Inserts ELSE {})
         \cup (IF t = <<>> THEN Creates \cup OrderedSelects ELSE {})
         \cup (IF Len(t) = 2 /\ NoRow \notin Range(t) THEN Compounds ELSE {})
=============================================================================
