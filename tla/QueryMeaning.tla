----------------------------- MODULE QueryMeaning -----------------------------
(***************************************************************************)
(* What the answers of Query mean, said of the rows that the client gave,  *)
(* without bytes and without the steps of the code.                        *)
(***************************************************************************)
EXTENDS Query

IsSelect == request.call = "select"
Refused == stage = "refused"
Answered == stage = "answered"

\* The slots of the rows that the client has in the table.
Places == {i \in DOMAIN table : table[i] # NoRow}

\* Texts are the same if they differ in zeros at their end: a text is read back
\* without them.
Shown(value) ==
  IF value[1] # "Char" THEN value
  ELSE LET kept == {i \in DOMAIN value[2] : \E j \in i .. Len(value[2]) : value[2][j] # 0}
       IN <<"Char", [i \in 1 .. Cardinality(kept) |-> value[2][i]]>>
ShownRow(row) == [c \in Columns |-> Shown(row[c])]

\* Floats by sign and magnitude: negative ones come first, the largest magnitude
\* before the others, and -0.0 before 0.0.
Magnitude(bits) == IF bits < 0 THEN bits + MaxI32 + 1 ELSE bits
FloatUnder(x, y) ==
  \/ x < 0 /\ y >= 0
  \/ x < 0 /\ y < 0 /\ Magnitude(x) > Magnitude(y)
  \/ x >= 0 /\ y >= 0 /\ Magnitude(x) < Magnitude(y)

\* x comes before y, of the same kind; texts as if they went on with zeros.
Digit(text, n) == IF n \in DOMAIN text THEN text[n] ELSE 0
Under(x, y) ==
  CASE x[1] = "Int32" -> x[2] < y[2]
    [] x[1] = "Float32" -> FloatUnder(x[2], y[2])
    [] OTHER -> \E n \in DOMAIN y[2] :
                  /\ Digit(x[2], n) < Digit(y[2], n)
                  /\ \A m \in 1 .. n - 1 : Digit(x[2], m) = Digit(y[2], m)

Related(x, op, y) ==
  \/ op = "NoOp"
  \/ op \in {"Eq", "Le", "Ge"} /\ Shown(x) = Shown(y)
  \/ op \in {"Lt", "Le", "Ne"} /\ Under(x, y)
  \/ op \in {"Gt", "Ge", "Ne"} /\ Under(y, x)

\* The value is one that the column can have.
Holds(c, value) ==
  /\ c \in Columns
  /\ value[1] = Schema[c].kind
  /\ value[1] = "Char" => Len(value[2]) <= Schema[c].len

\* What a clause says of the row at i.
Says(clause, i) ==
  clause.op = "NoOp" \/
    Related(table[i][clause.column], clause.op,
            IF clause.kind = "value" THEN clause.rhs ELSE table[i][clause.rhs])

\* The nodes of T are those of f that are true of the row at i.
AreTrue(T, f, i) ==
  \A n \in DOMAIN f :
    n \in T <=> CASE IsClause(f[n]) -> Says(f[n], i)
                 [] f[n].kind = "not" -> \A m \in f[n].children : m \notin T
                 [] f[n].kind = "and" -> \A m \in f[n].children : m \in T
                 [] f[n].kind = "or" -> \E m \in f[n].children : m \in T

\* The places of the rows that satisfy a filter.
Satisfying(f) ==
  {i \in Places : f = NoFilter \/ \E T \in SUBSET DOMAIN f : AreTrue(T, f, i) /\ Len(f) \in T}

\* Every column that the filter names is there and is compared with its like.
Meaningful(f) ==
  \A n \in DOMAIN f :
    CASE f[n].kind = "value" -> Holds(f[n].column, f[n].rhs)
      [] f[n].kind = "columns" -> /\ {f[n].column, f[n].rhs} \subseteq Columns
                                  /\ f[n].op # "NoOp" => Schema[f[n].column] = Schema[f[n].rhs]
      [] OTHER -> f[n].children # {}

\* The row at i comes before that at j: the first key in which they differ
\* decides, and if there is none, their places.
Equal(i, j, key) == Shown(table[i][key[1]]) = Shown(table[j][key[1]])
Ahead(i, j, key) ==
  IF key[2] = "Asc" THEN Under(table[i][key[1]], table[j][key[1]])
                    ELSE Under(table[j][key[1]], table[i][key[1]])

Earlier(i, j) ==
  LET keys == request.order_by IN
  \/ \E n \in DOMAIN keys : Ahead(i, j, keys[n]) /\ \A m \in 1 .. n - 1 : Equal(i, j, keys[m])
  \/ i < j /\ \A n \in DOMAIN keys : Equal(i, j, keys[n])

\* The place in the table of the n-th row of the answer.
Place(n) ==
  LET found == Satisfying(request.filter) IN
  CHOOSE i \in found : Cardinality({j \in found : Earlier(j, i)}) = n - 1

(* A select returns the rows that satisfy its filter, ordered by the keys   *)
(* whether they are projected or not, rows with equal keys in the order of  *)
(* the table, cut to the limit after they are ordered and then projected.   *)
(* An index on the column changes nothing of that, and neither does the way *)
(* over bytes: the slots of a page keep out of each other's and the         *)
(* bitmap's way, numbers and padded texts compare like what they encode     *)
(* (execute_select, encode_row, compile_expr, LogicFilter).                 *)
SelectAnswers ==
  Answered /\ IsSelect =>
    LET found == Cardinality(Satisfying(request.filter))
        columns == request.projection
    IN
    /\ Len(answer) = IF request.limit = NoLimit \/ found < request.limit
                       THEN found ELSE request.limit
    /\ \A n \in DOMAIN answer :
         answer[n] = [m \in DOMAIN columns |-> Shown(table[Place(n)][columns[m]])]

(* Whether a select is refused depends on the request and the schema alone: *)
(* not on the rows (a mistyped clause behind a short cut of And or Or, or a *)
(* table without rows), nor on the index, whose path checks no types.       *)
RefusalDependsOnRequest ==
  IsSelect =>
    LET meaningful ==
          /\ Meaningful(request.filter)
          /\ Range(request.projection) \subseteq Columns
          /\ Cardinality(Range(request.projection)) = Len(request.projection)
          /\ Range(ColumnsOf(request.order_by)) \subseteq Columns
          /\ Cardinality(Range(ColumnsOf(request.order_by))) = Len(request.order_by)
          /\ request.limit # 0
    IN (Refused => ~meaningful) /\ (Answered => meaningful)

(* An insert of named values is accepted exactly if every column is named   *)
(* once with a value that it can hold, in any order, a full row if it has   *)
(* such values in the order of the columns.  An update is refused if it     *)
(* names no column, or one twice, or gives a value of another type, or has  *)
(* a filter that means nothing; a text that is too long for its column only *)
(* if some row would get it (normalize_named_insert, normalize_assignments, *)
(* encode_row).                                                             *)
ListsResolve ==
  LET named == Range(request.entries)
      once == Cardinality({e[1] : e \in named}) = Len(request.entries)
      typed == \A e \in named : e[1] \in Columns /\ e[2][1] = Schema[e[1]].kind
      held == \A e \in named : Holds(e[1], e[2])
  IN
  /\ request.call = "insert" /\ stage \in {"refused", "answered"} =>
       (Answered <=> /\ Len(request.entries) = Len(Schema)
                     /\ IF request.named THEN once /\ held
                        ELSE \A c \in Columns : Holds(c, request.entries[c][2]))
  /\ request.call = "update" /\ stage \in {"refused", "answered"} =>
       (Answered <=> /\ Meaningful(request.filter)
                     /\ named # {} /\ once /\ typed
                     /\ held \/ Satisfying(request.filter) = {})

\* The rows that the table has after the request, by slot.
Expected ==
  LET old == [s \in 0 .. Slots - 1 |-> IF s + 1 \in Places THEN ShownRow(table[s + 1]) ELSE NoRow]
      given(c) == CHOOSE v \in {e[2] : e \in Range(request.entries)} :
                    <<c, v>> \in Range(request.entries)
      column(c) == IF ~request.named THEN request.entries[c][2] ELSE given(c)
      changed(i) == [c \in Columns |-> IF \E e \in Range(request.entries) : e[1] = c
                                         THEN Shown(given(c)) ELSE Shown(table[i][c])]
      hit(s) == s + 1 \in Satisfying(request.filter)
  IN
  IF ~Answered THEN old
  ELSE CASE request.call = "insert" -> [old EXCEPT ![answer] = [c \in Columns |-> Shown(column(c))]]
         [] request.call = "update" -> [s \in DOMAIN old |-> IF hit(s) THEN changed(s + 1) ELSE old[s]]
         [] request.call = "delete" -> [s \in DOMAIN old |-> IF hit(s) THEN NoRow ELSE old[s]]
         [] OTHER -> old

(* After every request the page has exactly the rows that it means: an      *)
(* insert took a free slot, an update changed the named columns of the rows *)
(* that satisfy its filter and a delete removed those, as many as they      *)
(* said, and nothing else of the page, its bitmap and its header's count of *)
(* free slots changed; a refused request changed nothing.                   *)
WritesChangeWhatTheyName ==
  /\ \A s \in 0 .. Slots - 1 :
       IF Expected[s] = NoRow THEN SlotIsFree(page, s)
       ELSE ~SlotIsFree(page, s) /\ DecodeRecord(Record(page, Slots, RowSize, s)) = Expected[s]
  /\ LET h == DecodeHeader(page) IN
       /\ HeaderValid(h, Slots)
       /\ h.num_free_slots = Cardinality({s \in 0 .. Slots - 1 : Expected[s] = NoRow})
       /\ h.next_free_page = RECORD_PAGE_FULL <=> h.num_free_slots = 0
  /\ Answered /\ request.call = "insert" => ~(answer + 1 \in Places)
  /\ Answered /\ request.call \in {"update", "delete"} =>
       answer = Cardinality(Satisfying(request.filter))

\* The column that lies where the field is, if there is one.
ColumnAt(offset, type) == {c \in Columns : Schema[c] = type /\ offset = ColumnOffset[c]}

\* A field within the record and a value of its kind and length.
Comparable(offset, type, value) ==
  /\ offset + type.len <= RowSize /\ type.len > 0
  /\ value[1] = type.kind
  /\ type.kind = "Char" => Len(value[2]) = type.len

\* The places of the rows whose column at the field is so related to the value.
PlacesWith(offset, type, op, value) ==
  {i \in Places : \A c \in ColumnAt(offset, type) : Related(table[i][c], op, value)}

(* The scans of the record layer refuse a predicate, or a list of clauses,  *)
(* exactly if a field leaves the record or a value is not of the kind and   *)
(* length of its field (NoOp compares nothing); otherwise, where the fields *)
(* are columns, they return the rows that the comparison means              *)
(* (scan_with_predicate, scan_with_filter).                                 *)
PredicatesMean ==
  /\ request.call = "predicate" =>
       LET p == request.predicate
           good == p.op = "NoOp" \/ Comparable(p.offset, p.type, p.value)
       IN
       /\ Refused => ~good
       /\ Answered => good
       /\ Answered /\ (p.op = "NoOp" \/ ColumnAt(p.offset, p.type) # {}) =>
            Range(answer) = {ShownRow(table[i]) : i \in PlacesWith(p.offset, p.type, p.op, p.value)}
  /\ request.call = "filter" =>
       LET clauses == {request.filter[n] : n \in 1 .. Len(request.filter) - 1}
           good(f) == f.op = "NoOp" \/ Comparable(f.lhs.offset, f.lhs.type, f.rhs)
           atColumns == \A f \in clauses : f.op = "NoOp" \/ ColumnAt(f.lhs.offset, f.lhs.type) # {}
           meant(f) == PlacesWith(f.lhs.offset, f.lhs.type, f.op, f.rhs)
       IN
       /\ Refused => clauses = {} \/ \E f \in clauses : ~good(f)
       /\ Answered => clauses # {} /\ \A f \in clauses : good(f)
       /\ Answered /\ atColumns =>
            Range(answer) = {ShownRow(table[i]) : i \in {j \in Places : \A f \in clauses : j \in meant(f)}}

(* A table is created exactly if it has a column, no name twice, no empty   *)
(* Char and a record of which one fits a page.  Then the columns divide the *)
(* record between them without gaps, the header, the bits of the bitmap and *)
(* the records of all slots lie in the page and share no byte, and a slot   *)
(* more would not fit (compile_schema, compute_slots_per_page,              *)
(* record_range, bitmap_range).                                             *)
LayoutFits ==
  request.call = "create" =>
    LET types == request.types
        sum == Cardinality(UNION {{c} \X (1 .. types[c].len) : c \in DOMAIN types})
        cell(c) == answer.offset[c] .. answer.offset[c] + types[c].len - 1
        slots == 0 .. answer.slots - 1
        record(s) == RecordStart(answer.slots, answer.size, s) ..
                       RecordStart(answer.slots, answer.size, s) + answer.size - 1
        behindHeader == RECORD_PAGE_HEADER_SIZE .. PAGE_DATA_SIZE - 1
        more == answer.slots + 1
    IN
    /\ Refused => \/ types = <<>> \/ \E c \in DOMAIN types : types[c].len = 0
                  \/ Cardinality(Range(request.names)) < Len(types)
                  \/ RECORD_PAGE_HEADER_SIZE + 1 + sum > PAGE_DATA_SIZE
    /\ Answered =>
         /\ types # <<>> /\ Cardinality(Range(request.names)) = Len(types)
         /\ answer.size = sum /\ answer.slots > 0
         /\ UNION {cell(c) : c \in DOMAIN types} = 0 .. answer.size - 1
         /\ \A c, d \in DOMAIN types : c # d => cell(c) \cap cell(d) = {}
         /\ \A s \in slots : record(s) \subseteq behindHeader /\ BitmapByte(s) \in behindHeader
         /\ \A s, t \in slots :
              /\ BitmapByte(s) \notin record(t)
              /\ s # t => /\ record(s) \cap record(t) = {}
                          /\ BitmapByte(s) # BitmapByte(t) \/ BitMask(s) # BitMask(t)
         /\ RECORD_PAGE_HEADER_SIZE + more * answer.size
              + (IF more % 8 = 0 THEN more \div 8 ELSE more \div 8 + 1) > PAGE_DATA_SIZE
=============================================================================
