----------------------------- MODULE RecordStore -----------------------------
(***************************************************************************)
(* What a record file promises: a bag of records, each under an identifier *)
(* (page, slot) that no other record has while it lives.                   *)
(***************************************************************************)
EXTENDS Integers, Sequences, FiniteSets

CONSTANTS Rids, Values, NoRecord

VARIABLES rows, out

vars == <<rows, out>>

Live == {r \in Rids : rows[r] # NoRecord}

\* The order of a scan: by page, then by slot.
Before(r, s) == r[1] < s[1] \/ (r[1] = s[1] /\ r[2] < s[2])

Init ==
  /\ rows = [r \in Rids |-> NoRecord]
  /\ out = <<"idle", <<>>, <<>>>>

\* The identifier is new: the record takes no other record's place.
Insert(v) ==
  \E r \in Rids :
    /\ out' = <<"insert", r, <<>>>>
    /\ r \notin Live
    /\ rows' = [rows EXCEPT ![r] = v]

Get(r) ==
  /\ out' = <<"get", r, rows[r]>>
  /\ r \in Live
  /\ UNCHANGED rows

Update(r, v) ==
  /\ out' = <<"update", <<>>, <<>>>>
  /\ r \in Live
  /\ rows' = [rows EXCEPT ![r] = v]

Delete(r) ==
  /\ out' = <<"delete", <<>>, <<>>>>
  /\ r \in Live
  /\ rows' = [rows EXCEPT ![r] = NoRecord]

Refuse(r) ==
  /\ out' = <<"refused", r, <<>>>>
  /\ r \in Rids \ Live
  /\ UNCHANGED rows

\* The record that has i - 1 others before it.
Nth(i) == CHOOSE r \in Live : Cardinality({s \in Live : Before(s, r)}) = i - 1

\* A scan returns every record once, in order.
Scan ==
  /\ out' = <<"scan", <<>>, [i \in 1 .. Cardinality(Live) |-> <<Nth(i), rows[Nth(i)]>>]>>
  /\ UNCHANGED rows

\* A flush, with or without an I/O error; close and open; the answer is taken.
Keep ==
  /\ \E call \in {"idle", "flush", "error", "open"} : out' = <<call, <<>>, <<>>>>
  /\ UNCHANGED rows

Next ==
  \/ Keep
  \/ \E v \in Values : Insert(v)
  \/ \E r \in Rids : Get(r) \/ Delete(r) \/ Refuse(r) \/ \E v \in Values : Update(r, v)
  \/ Scan

Spec == Init /\ [][Next]_vars
=============================================================================
