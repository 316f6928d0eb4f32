--------------------------------- MODULE Rows ---------------------------------
(***************************************************************************)
(* Rows as bytes, and filters on them: schemas compiled to offsets, rows   *)
(* encoded and decoded (src/table/mod.rs), filters compiled to fields of   *)
(* a record and matched against its bytes (src/storage/record/mod.rs).     *)
(*                                                                         *)
(* A value is a type and its content: <<"Int32", n>>, <<"Float32", bits>>  *)
(* with the bits of the number read as an i32, <<"Char", bytes>>.  A type  *)
(* is [kind, len]; columns are numbers, a schema is a sequence of types.   *)
(*                                                                         *)
(* A filter, in the code a tree, is the sequence of its nodes: every node  *)
(* comes after its children, which it names by their places, and the root  *)
(* is the last.                                                            *)
(***************************************************************************)
EXTENDS RecordPage, Functions

CONSTANTS
  Schema           \* the type of every column, a sequence

Int32 == [kind |-> "Int32", len |-> 4]
Float32 == [kind |-> "Float32", len |-> 4]
Char(n) == [kind |-> "Char", len |-> n]

FieldTypes == {Int32, Float32} \cup [kind : {"Char"}, len : Nat]

ASSUME SchemaAssumption ==
  /\ Schema \in Seq(FieldTypes) /\ Schema # <<>>
  /\ \A c \in DOMAIN Schema : Schema[c].len > 0

Columns == DOMAIN Schema
NoValue == <<"none">>

AllValues == ({"Int32", "Float32"} \X I32) \cup ({"Char"} \X Seq(Bytes))

-----------------------------------------------------------------------------
(* compile_schema.                                                         *)

\* The columns lie one behind the other: where the first n of them end.
Ends(types) ==
  LET end[n \in 0 .. Len(types)] == IF n = 0 THEN 0 ELSE end[n - 1] + types[n].len
  IN end

Offset(types, c) == Ends(types)[c - 1]
RecordSize(types) == Ends(types)[Len(types)]

\* The layout of the table that the requests are about.
ColumnOffset == [c \in Columns |-> Offset(Schema, c)]

\* Names are checked before they are used twice; a Char may not be empty.
SchemaCompiles(names, types) ==
  /\ types # <<>>
  /\ IsInjective(names)
  /\ \A c \in DOMAIN types : types[c].len > 0

-----------------------------------------------------------------------------
(* encode_row and decode_record.                                           *)

\* value_matches_type: the kind of the value, not the length of a text.
MatchesType(c, value) == value[1] = Schema[c].kind

\* A text longer than its column is refused where it is encoded.
Encodable(c, value) == MatchesType(c, value) /\ (value[1] = "Char" => Len(value[2]) <= Schema[c].len)

\* A text is followed by zeros.
Padded(text, len) == text \o [i \in 1 .. len - Len(text) |-> 0]

EncodeValue(c, value) ==
  IF value[1] = "Char" THEN Padded(value[2], Schema[c].len) ELSE ToLeBytes(value[2])

\* The bytes of a column, from its offset on.
Cell(c) == ColumnOffset[c] + 1 .. ColumnOffset[c] + Schema[c].len

\* Every value is copied into the cell of its column.
EncodeRow(row) ==
  [at \in 1 .. RecordSize(Schema) |->
     LET c == CHOOSE c \in Columns : at \in Cell(c) IN
     EncodeValue(c, row[c])[at - ColumnOffset[c]]]

\* record[offset .. offset + len], of a record whose bytes count from 1.
Part(record, offset, len) == [n \in 1 .. len |-> record[offset + n]]

\* The text ends at its last byte that is not zero.
Trimmed(raw) ==
  LET last == CHOOSE n \in 0 .. Len(raw) : /\ n = 0 \/ raw[n] # 0
                                          /\ \A m \in n + 1 .. Len(raw) : raw[m] = 0
  IN [n \in 1 .. last |-> raw[n]]

DecodeValue(record, c) ==
  LET raw == Part(record, ColumnOffset[c], Schema[c].len) IN
  <<Schema[c].kind, IF Schema[c].kind = "Char" THEN Trimmed(raw) ELSE FromLeBytes(raw)>>

DecodeRecord(record) == [c \in Columns |-> DecodeValue(record, c)]

-----------------------------------------------------------------------------
(* Comparisons.                                                            *)

\* f32::total_cmp orders by these: the bits of a negative number are turned
\* round.  (2^31 is beyond what TLC can write.)
FloatKey(bits) == IF bits >= 0 THEN bits ELSE -(bits + 2147483647) - 2

\* cmp of byte strings.
BytesBefore(x, y) ==
  \E n \in 1 .. Len(y) :
    /\ n <= Len(x) + 1
    /\ n <= Len(x) => x[n] < y[n]
    /\ \A m \in 1 .. n - 1 : x[m] = y[m]

\* x is less than y, both of one kind.
Less(kind, x, y) ==
  CASE kind = "Int32" -> x < y
    [] kind = "Float32" -> FloatKey(x) < FloatKey(y)
    [] OTHER -> BytesBefore(x, y)

\* compare_ordering.
Compare(kind, x, op, y) ==
  CASE op = "NoOp" -> TRUE
    [] op = "Eq" -> ~Less(kind, x, y) /\ ~Less(kind, y, x)
    [] op = "Ne" -> Less(kind, x, y) \/ Less(kind, y, x)
    [] op = "Lt" -> Less(kind, x, y)
    [] op = "Gt" -> Less(kind, y, x)
    [] op = "Le" -> ~Less(kind, y, x)
    [] op = "Ge" -> ~Less(kind, x, y)

-----------------------------------------------------------------------------
(* Fields of a record, and clauses that compare them: ScanFieldRef,         *)
(* PredicateClause.                                                        *)

Field(offset, type) == [offset |-> offset, type |-> type]

\* validate_for_record of a field; words have four bytes.
FieldValid(f, size) ==
  /\ f.offset + f.type.len <= size
  /\ f.type.len > 0
  /\ f.type.kind \in {"Int32", "Float32"} => f.type.len = 4

\* field_bytes, read as the kind of the field.
FieldOf(record, f) ==
  LET raw == Part(record, f.offset, f.type.len) IN
  IF f.type.kind = "Char" THEN raw ELSE FromLeBytes(raw)

\* validate_value_against_field: bytes have the length of the field.
ValueValid(f, value) ==
  value[1] = f.type.kind /\ (value[1] = "Char" => Len(value[2]) = f.type.len)

\* PredicateClause::validate_for_record; a NoOp is not looked at.
ClauseValid(clause, size) ==
  clause.op # "NoOp" =>
    /\ FieldValid(clause.lhs, size)
    /\ IF clause.kind = "value" THEN ValueValid(clause.lhs, clause.rhs)
       ELSE FieldValid(clause.rhs, size) /\ clause.lhs.type = clause.rhs.type

\* PredicateClause::matches.
ClauseMatches(clause, record) ==
  clause.op # "NoOp" =>
    Compare(clause.lhs.type.kind, FieldOf(record, clause.lhs), clause.op,
            IF clause.kind = "value" THEN clause.rhs[2] ELSE FieldOf(record, clause.rhs))

\* ScanPredicate::validate_for_record; the value may be missing.
PredicateValid(p, size) ==
  p.op # "NoOp" =>
    /\ p.offset + p.type.len <= size
    /\ p.type.len > 0
    /\ p.value # NoValue
    /\ p.value[1] = p.type.kind
    /\ p.value[1] = "Char" => Len(p.value[2]) = p.type.len

\* Mutated form: words are compared as strings of bytes.
PredicateMatchesBytes(p, record) ==
  p.op # "NoOp" =>
    Compare("Char", Part(record, p.offset, p.type.len), p.op,
            IF p.type.kind = "Char" THEN p.value[2] ELSE ToLeBytes(p.value[2]))

\* ScanPredicate::matches.
PredicateMatches(p, record) ==
  p.op # "NoOp" =>
    Compare(p.type.kind, FieldOf(record, Field(p.offset, p.type)), p.op, p.value[2])

-----------------------------------------------------------------------------
(* Filters: compile_expr, LogicFilter.                                     *)

IsClause(node) == node.kind \in {"value", "columns"}

\* scan_field.
FieldOfColumn(c) == Field(ColumnOffset[c], Schema[c])

\* compile_expr refuses a value that its column can not have, even under a NoOp,
\* and an And or Or without children.
NodeCompiles(node) ==
  CASE node.kind = "value" -> Encodable(node.column, node.rhs)
    [] node.kind = "columns" -> TRUE
    [] OTHER -> node.children # {}

Compiles(expr) == \A n \in DOMAIN expr : NodeCompiles(expr[n])

\* scan_value: texts are padded to the length of their column.
ScanValue(c, value) ==
  IF value[1] = "Char" THEN <<"Char", Padded(value[2], Schema[c].len)>> ELSE value

CompiledNode(node) ==
  CASE node.kind = "value" ->
         [kind |-> "value", lhs |-> FieldOfColumn(node.column), op |-> node.op,
          rhs |-> ScanValue(node.column, node.rhs)]
    [] node.kind = "columns" ->
         [kind |-> "columns", lhs |-> FieldOfColumn(node.column), op |-> node.op,
          rhs |-> FieldOfColumn(node.rhs)]
    [] OTHER -> node

Compiled(expr) == [n \in DOMAIN expr |-> CompiledNode(expr[n])]

\* validate_for_record, of every node, before any record is read.
FilterValid(f, size) ==
  \A n \in DOMAIN f : IF IsClause(f[n]) THEN ClauseValid(f[n], size) ELSE f[n].children # {}

\* One node of LogicFilter::matches, when those of its children that match are
\* among `matching'.
NodeMatches(node, record, matching) ==
  CASE IsClause(node) -> ClauseMatches(node, record)
    [] node.kind = "not" -> node.children \cap matching = {}
    [] node.kind = "and" -> node.children \subseteq matching
    [] node.kind = "or" -> node.children \cap matching # {}

\* The matching nodes among the first n.
MatchingNodes(f, record) ==
  LET found[n \in 0 .. Len(f)] ==
        IF n = 0 THEN {}
        ELSE IF NodeMatches(f[n], record, found[n - 1]) THEN found[n - 1] \cup {n}
        ELSE found[n - 1]
  IN found

\* LogicFilter::matches; a CompoundPredicate is an And of clauses.
FilterMatches(f, record) == Len(f) \in MatchingNodes(f, record)[Len(f)]
=============================================================================
