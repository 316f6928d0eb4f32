-------------------------------- MODULE Query --------------------------------
(***************************************************************************)
(* The request side of the query engine, src/query/mod.rs, over the bytes  *)
(* of a table: a request is checked against the schema; a select finds its *)
(* rows by a scan or an index, orders, cuts and projects them; an insert,  *)
(* an update and a delete change the records.  A table is one data page of *)
(* its record file (RecordFile has the chain of pages), and a statement    *)
(* has it to itself (Database has the files, indexes and failures).        *)
(***************************************************************************)
EXTENDS Rows, FiniteSets

CONSTANTS
  Unknown,         \* a column that the schema does not have
  NoRow,           \* the content of a free slot
  Tables,          \* the tables to start with: rows, or NoRow, by slot
  Requests(_)      \* the requests made of a table

VARIABLES
  table,           \* history: the rows as they were given, by slot
  page,            \* the data page
  indexed,         \* the columns that have an index
  request,
  stage,           \* the step of the request that comes next, or an end
  rows,            \* the rows found, or the row to insert
  answer

vars == <<table, page, indexed, request, stage, rows, answer>>

RowSize == RecordSize(Schema)
Slots == SlotsPerPage(RowSize)
NoFilter == <<>>
NoLimit == -1

IsRow(row) ==
  /\ row \in [Columns -> AllValues]
  /\ \A c \in Columns : Encodable(c, row[c])

\* The table was created, and has rows that were inserted.
ASSUME TableAssumption ==
  /\ RecordFits(RowSize)
  /\ Unknown \notin Columns
  /\ ~IsRow(NoRow)
  /\ \A t \in Tables : /\ t \in Seq({t[n] : n \in DOMAIN t})
                       /\ Len(t) <= Slots
                       /\ \A n \in DOMAIN t : t[n] = NoRow \/ IsRow(t[n])

\* The page of a table: its rows are inserted, a row of zeros where a slot is
\* free in the end, and that is deleted.
PageOf(t) ==
  LET zeros == [at \in 1 .. RowSize |-> 0]
      filled[n \in 0 .. Len(t)] ==
        IF n = 0 THEN InitializePage(Slots)
        ELSE InsertRecord(filled[n - 1], Slots, RowSize,
                          IF t[n] = NoRow THEN zeros ELSE EncodeRow(t[n]))
      freed[n \in 0 .. Len(t)] ==
        IF n = 0 THEN filled[Len(t)]
        ELSE IF t[n] = NoRow
          THEN DeleteSlot(freed[n - 1], Slots, RowSize, n - 1, RECORD_PAGE_LIST_END)
        ELSE freed[n - 1]
  IN freed[Len(t)]

\* The requests: a filter has its nodes in order, each but the root a child of
\* one of those behind it; columns and values may be any.
ColumnNames == Columns \cup {Unknown}
Operators == {"NoOp", "Eq", "Ne", "Lt", "Gt", "Le", "Ge"}
Entries == Seq(ColumnNames \X AllValues)

IsNode(node, n) ==
  \/ /\ node.kind = "value"
     /\ node.column \in ColumnNames /\ node.op \in Operators /\ node.rhs \in AllValues
  \/ /\ node.kind = "columns"
     /\ node.column \in ColumnNames /\ node.op \in Operators /\ node.rhs \in ColumnNames
  \/ node.kind \in {"and", "or"} /\ node.children \subseteq 1 .. n - 1
  \/ node.kind = "not" /\ \E m \in 1 .. n - 1 : node.children = {m}

IsFilter(f) ==
  /\ f \in Seq(Range(f))
  /\ \A n \in DOMAIN f :
       /\ IsNode(f[n], n)
       /\ n < Len(f) => \E m \in n + 1 .. Len(f) : ~IsClause(f[m]) /\ n \in f[m].children

\* A list of clauses on any fields, under an And.
IsCompound(f) ==
  /\ f \in Seq(Range(f)) /\ f # <<>>
  /\ \A n \in 1 .. Len(f) - 1 :
       /\ f[n].kind = "value" /\ f[n].op \in Operators /\ f[n].rhs \in AllValues
       /\ f[n].lhs \in [offset : Nat, type : FieldTypes]
  /\ f[Len(f)].kind = "and" /\ f[Len(f)].children = 1 .. Len(f) - 1

IsRequest(r) ==
  \/ /\ r.call = "select" /\ IsFilter(r.filter)
     /\ r.order_by \in Seq(ColumnNames \X {"Asc", "Desc"})
     /\ r.limit \in Nat \cup {NoLimit} /\ r.projection \in Seq(ColumnNames)
  \/ r.call = "insert" /\ r.named \in BOOLEAN /\ r.entries \in Entries
  \/ r.call = "update" /\ IsFilter(r.filter) /\ r.entries \in Entries
  \/ r.call = "delete" /\ IsFilter(r.filter)
  \/ /\ r.call = "predicate"
     /\ r.predicate \in [offset : Nat, type : FieldTypes, op : Operators,
                         value : AllValues \cup {NoValue}]
  \/ r.call = "filter" /\ IsCompound(r.filter)
  \/ /\ r.call = "create" /\ r.types \in Seq(FieldTypes)
     /\ r.names \in Seq(Range(r.names)) /\ Len(r.names) = Len(r.types)

ASSUME RequestAssumption == \A t \in Tables : \A r \in Requests(t) : IsRequest(r)

\* Only Int32 columns have indexes.  Only a select looks at them here.
IndexedBy(r) == IF r.call = "select" THEN {c \in Columns : Schema[c] = Int32} ELSE {}

PageOfTable == [t \in Tables |-> PageOf(t)]

Init ==
  /\ table \in Tables
  /\ page = PageOfTable[table]
  /\ request \in Requests(table)
  /\ indexed \in SUBSET IndexedBy(request)
  /\ stage = "check"
  /\ rows = <<>>
  /\ answer = <<>>

-----------------------------------------------------------------------------
(* Steps of a request.                                                     *)

End(how, result) ==
  /\ stage' = how
  /\ answer' = result
  /\ UNCHANGED <<table, indexed, request, rows>>

Ask(call) == stage = "check" /\ request.call = call

Stage(from, to, found) ==
  /\ stage = from
  /\ stage' = to
  /\ rows' = found
  /\ UNCHANGED <<table, page, indexed, request, answer>>

Refuse == End("refused", <<>>) /\ UNCHANGED page

\* The members of S in the order in which `before' is a set of pairs: the n-th
\* has n - 1 others before it.
InOrder(S, before) ==
  [n \in 1 .. Cardinality(S) |->
     CHOOSE x \in S : Cardinality({y \in S : <<y, x>> \in before}) = n - 1]

\* The slots in use, and the rows of some of them in the order of a scan.
Used == {s \in SlotIds(Slots) : ~SlotIsFree(page, s)}
RecordAt(s) == Record(page, Slots, RowSize, s)
Ascending(slots) == InOrder(slots, {p \in slots \X slots : p[1] < p[2]})
RowsAt(slots) == [n \in 1 .. Cardinality(slots) |-> DecodeRecord(RecordAt(Ascending(slots)[n]))]

-----------------------------------------------------------------------------
(* Checks.                                                                 *)

Known(c) == c \in Columns
NoDuplicates(s) == IsInjective(s)

\* validate_expr_columns.
ColumnsKnown(f) ==
  \A n \in DOMAIN f : /\ IsClause(f[n]) => Known(f[n].column)
                      /\ f[n].kind = "columns" => Known(f[n].rhs)

\* The filter can be compiled and is valid for records of the table.
FilterAccepted(f) == Compiles(f) /\ FilterValid(Compiled(f), RowSize)

\* scan, scan_with_logic: the slots in use whose records match.
Matching(f) ==
  IF f = NoFilter THEN Used
  ELSE {s \in Used : FilterMatches(Compiled(f), RecordAt(s))}

ColumnsOf(order) == [n \in DOMAIN order |-> order[n][1]]

\* Mutated form: a projection may name a column twice.
PlanResolvesDuplicates(r) ==
  /\ \A n \in DOMAIN r.projection : Known(r.projection[n])
  /\ NoDuplicates(ColumnsOf(r.order_by))
  /\ \A n \in DOMAIN r.order_by : Known(r.order_by[n][1])
  /\ r.limit # 0

\* resolve_select_plan: resolve_projection, resolve_order_by, normalize_limit.
PlanResolves(r) ==
  /\ NoDuplicates(r.projection)
  /\ \A n \in DOMAIN r.projection : Known(r.projection[n])
  /\ NoDuplicates(ColumnsOf(r.order_by))
  /\ \A n \in DOMAIN r.order_by : Known(r.order_by[n][1])
  /\ r.limit # 0

-----------------------------------------------------------------------------
(* execute_select.                                                         *)

\* resolve_index_lookup: the filter is one equality with an Int32 value on a
\* column that has an index.
LooksUpIndex(r) ==
  /\ Len(r.filter) = 1
  /\ LET clause == r.filter[1] IN
       /\ clause.kind = "value"
       /\ clause.op = "Eq"
       /\ clause.rhs[1] = "Int32"
       /\ clause.column \in indexed

RefuseSelect ==
  /\ Ask("select")
  /\ ~(ColumnsKnown(request.filter) /\ PlanResolves(request))
  /\ Refuse

CheckSelect ==
  /\ Ask("select")
  /\ ColumnsKnown(request.filter)
  /\ PlanResolves(request)
  /\ Stage("check", IF LooksUpIndex(request) THEN "lookup" ELSE "scan", <<>>)

\* lookup_index_eq, whose entries (of the decoded rows, in the order of key and
\* place) are those of one key, and rows_by_rids.
Lookup ==
  LET clause == request.filter[1] IN
  Stage("lookup", "order",
    RowsAt({s \in Used : DecodeRecord(RecordAt(s))[clause.column] = clause.rhs}))

Scan ==
  /\ stage = "scan"
  /\ FilterAccepted(request.filter)
  /\ Stage("scan", "order", RowsAt(Matching(request.filter)))

RefuseFilter ==
  /\ stage = "scan"
  /\ ~FilterAccepted(request.filter)
  /\ Refuse

\* compare_rows in one key: compare_values.
KeyBefore(x, y, key) ==
  LET c == key[1] IN
  IF key[2] = "Asc" THEN Less(Schema[c].kind, x[c][2], y[c][2])
                    ELSE Less(Schema[c].kind, y[c][2], x[c][2])

\* Mutated form: only the first key counts.
RowBeforeFirstKey(x, y, order) == order # <<>> /\ KeyBefore(x, y, order[1])

\* compare_rows: the first key in which two rows differ decides.
RowBefore(x, y, order) ==
  \E n \in DOMAIN order :
    /\ KeyBefore(x, y, order[n])
    /\ \A m \in 1 .. n - 1 : ~KeyBefore(y, x, order[m])

\* sort_by is stable: of two rows that are equal in all keys the first stays first.
Sorted ==
  InOrder(DOMAIN rows,
    {p \in (DOMAIN rows) \X (DOMAIN rows) :
       \/ RowBefore(rows[p[1]], rows[p[2]], request.order_by)
       \/ p[1] < p[2] /\ ~RowBefore(rows[p[2]], rows[p[1]], request.order_by)})

\* apply_order_by.
ApplyOrderBy ==
  Stage("order", "limit", [n \in DOMAIN rows |-> rows[Sorted[n]]])

\* apply_limit: truncate.
ApplyLimit ==
  Stage("limit", "project",
    IF request.limit = NoLimit \/ Len(rows) <= request.limit THEN rows
    ELSE [n \in 1 .. request.limit |-> rows[n]])

\* project_row; Projection::All is the list of all columns.
Project ==
  LET indices == request.projection IN
  /\ stage = "project"
  /\ End("answered", [n \in DOMAIN rows |-> [m \in DOMAIN indices |-> rows[n][indices[m]]]])
  /\ UNCHANGED page

-----------------------------------------------------------------------------
(* execute_insert.                                                         *)

Names(r) == [n \in DOMAIN r.entries |-> r.entries[n][1]]
Values(r) == [n \in DOMAIN r.entries |-> r.entries[n][2]]
AllMatch(r) == \A n \in DOMAIN r.entries :
                 Known(r.entries[n][1]) /\ MatchesType(r.entries[n][1], r.entries[n][2])

\* Mutated form: a column that is given twice is not noticed.
NamedInsertResolvesDuplicates(r) == AllMatch(r) /\ Columns \subseteq Range(Names(r))

\* normalize_named_insert.
NamedInsertResolves(r) ==
  NoDuplicates(Names(r)) /\ AllMatch(r) /\ Columns \subseteq Range(Names(r))

ValueOf(r, c) == r.entries[CHOOSE n \in DOMAIN r.entries : r.entries[n][1] = c][2]

\* A full row gives its values in the order of the columns: validate_row_types.
RowResolves(values) ==
  Len(values) = Len(Schema) /\ \A c \in Columns : MatchesType(c, values[c])

\* normalize_insert_input.
InsertResolves == IF request.named THEN NamedInsertResolves(request) ELSE RowResolves(Values(request))

ResolveInsert ==
  /\ Ask("insert")
  /\ InsertResolves
  /\ Stage("check", "insert",
       IF request.named THEN [c \in Columns |-> ValueOf(request, c)] ELSE Values(request))

RefuseInsert ==
  /\ Ask("insert")
  /\ ~InsertResolves
  /\ Refuse

\* Table::insert: encode_row, and the record goes into the first free slot; the
\* page has one (a bound of the model).
Insert ==
  /\ stage = "insert"
  /\ \A c \in Columns : Encodable(c, rows[c])
  /\ FreeSlots(page, Slots) # {}
  /\ page' = InsertRecord(page, Slots, RowSize, EncodeRow(rows))
  /\ End("answered", FirstFreeSlot(page, Slots))

RefuseRow ==
  /\ stage = "insert"
  /\ \E c \in Columns : ~Encodable(c, rows[c])
  /\ Refuse

-----------------------------------------------------------------------------
(* execute_update, execute_delete.                                         *)

\* normalize_assignments.
AssignmentsResolve(r) == r.entries # <<>> /\ NoDuplicates(Names(r)) /\ AllMatch(r)

ResolveWrite ==
  /\ Ask("update") \/ Ask("delete")
  /\ ColumnsKnown(request.filter)
  /\ request.call = "update" => AssignmentsResolve(request)
  /\ Stage("check", request.call, <<>>)

RefuseWrite ==
  /\ Ask("update") \/ Ask("delete")
  /\ ~(ColumnsKnown(request.filter) /\ (request.call = "update" => AssignmentsResolve(request)))
  /\ Refuse

Assigned(row) ==
  [c \in Columns |-> IF c \in Range(Names(request)) THEN ValueOf(request, c) ELSE row[c]]

\* A text that is too long is noticed when the first row is encoded.
CanAssign == \A c \in Range(Names(request)) : Encodable(c, ValueOf(request, c))

\* The record that an update makes of another.
Rewritten(record) == EncodeRow(Assigned(DecodeRecord(record)))

\* Mutated form: the row is decoded once, before the loop.
UpdateSlotsOfOneRow(slots) ==
  LET after[n \in 0 .. Cardinality(slots)] ==
        IF n = 0 THEN page
        ELSE UpdateSlot(after[n - 1], Slots, RowSize, Ascending(slots)[n],
                        Rewritten(RecordAt(Ascending(slots)[1])))
  IN after[Cardinality(slots)]

\* update_where: the rows are collected first, then decoded, changed, encoded and
\* stored, one by one.
UpdateSlots(slots) ==
  LET after[n \in 0 .. Cardinality(slots)] ==
        IF n = 0 THEN page
        ELSE LET s == Ascending(slots)[n]
                 p == after[n - 1]
             IN UpdateSlot(p, Slots, RowSize, s, Rewritten(Record(p, Slots, RowSize, s)))
  IN after[Cardinality(slots)]

\* delete_where, one by one too.
DeleteSlots(slots) ==
  LET after[n \in 0 .. Cardinality(slots)] ==
        IF n = 0 THEN page
        ELSE DeleteSlot(after[n - 1], Slots, RowSize, Ascending(slots)[n], RECORD_PAGE_LIST_END)
  IN after[Cardinality(slots)]

UpdateWhere ==
  LET found == Matching(request.filter) IN
  /\ stage = "update"
  /\ FilterAccepted(request.filter)
  /\ ~CanAssign => found = {}
  /\ page' = UpdateSlots(found)
  /\ End("answered", Cardinality(found))

DeleteWhere ==
  LET found == Matching(request.filter) IN
  /\ stage = "delete"
  /\ FilterAccepted(request.filter)
  /\ page' = DeleteSlots(found)
  /\ End("answered", Cardinality(found))

RefuseWhere ==
  /\ stage \in {"update", "delete"}
  /\ FilterAccepted(request.filter) =>
       stage = "update" /\ ~CanAssign /\ Matching(request.filter) # {}
  /\ Refuse

-----------------------------------------------------------------------------
(* The record layer alone, and the creation of tables.                     *)

\* scan_with_predicate, with a field anywhere in the record.
ScanWithPredicate ==
  /\ Ask("predicate")
  /\ PredicateValid(request.predicate, RowSize)
  /\ End("answered", RowsAt({s \in Used : PredicateMatches(request.predicate, RecordAt(s))}))
  /\ UNCHANGED page

RefusePredicate ==
  /\ Ask("predicate")
  /\ ~PredicateValid(request.predicate, RowSize)
  /\ Refuse

\* scan_with_filter, with clauses on any fields.
ScanWithFilter ==
  /\ Ask("filter")
  /\ FilterValid(request.filter, RowSize)
  /\ End("answered", RowsAt({s \in Used : FilterMatches(request.filter, RecordAt(s))}))
  /\ UNCHANGED page

RefuseCompound ==
  /\ Ask("filter")
  /\ ~FilterValid(request.filter, RowSize)
  /\ Refuse

\* create_table: compile_schema, and the record size must leave room for a slot.
\* The answer is the layout.
Creatable ==
  SchemaCompiles(request.names, request.types) /\ RecordFits(RecordSize(request.types))

CreateTable ==
  /\ Ask("create")
  /\ Creatable
  /\ End("answered", [offset |-> [c \in DOMAIN request.types |-> Offset(request.types, c)],
                      size |-> RecordSize(request.types),
                      slots |-> SlotsPerPage(RecordSize(request.types))])
  /\ UNCHANGED page

RefuseSchema ==
  /\ Ask("create")
  /\ ~Creatable
  /\ Refuse

-----------------------------------------------------------------------------
Next ==
  \/ RefuseSelect \/ CheckSelect \/ Lookup \/ Scan \/ RefuseFilter
  \/ ApplyOrderBy \/ ApplyLimit \/ Project
  \/ ResolveInsert \/ RefuseInsert \/ Insert \/ RefuseRow
  \/ ResolveWrite \/ RefuseWrite \/ UpdateWhere \/ DeleteWhere \/ RefuseWhere
  \/ ScanWithPredicate \/ RefusePredicate \/ ScanWithFilter \/ RefuseCompound
  \/ CreateTable \/ RefuseSchema

Spec == Init /\ [][Next]_vars
=============================================================================
