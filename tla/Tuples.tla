------------------------------- MODULE Tuples -------------------------------
(***************************************************************************)
(* Tuples: the byte layout of a row (src/storage/table/tuple.cpp) under a  *)
(* schema (src/catalog/schema.cpp, src/include/catalog/column.h), and the  *)
(* keys that an index takes from a row (generic_key.h).                    *)
(*                                                                         *)
(* A schema is the sequence of its columns' types.  A tuple is its size    *)
(* and the writes its constructor made, in order: where, how many bytes    *)
(* and what they hold.  A column reads back the value written to it only   *)
(* if no later write touched one of the bytes it reads.                    *)
(***************************************************************************)
EXTENDS Values

\* Column::TypeSize: a text takes 12 bytes, of which its offset uses 4.
TypeSize(t) == IF t = VARCHAR THEN 12 ELSE GetTypeSize(t)
IsInlined(t) == t # VARCHAR

\* Schema::Schema: column_offset_ of every column, and length_ at n + 1.
ColumnOffset(schema, i) ==
  LET offset[j \in 1 .. Len(schema) + 1] ==
        IF j = 1 THEN 0 ELSE offset[j - 1] + TypeSize(schema[j - 1])
  IN  offset[i]
SchemaLength(schema) == ColumnOffset(schema, Len(schema) + 1)

\* Schema::CopySchema.
CopySchema(schema, attrs) == [k \in DOMAIN attrs |-> schema[attrs[k]]]

\* GetLength() + sizeof(uint32_t) of a text, in the uint32_t the sum is kept in:
\* the length of NULL is UINT_MAX, and the sum wraps to 3.
LengthPrefix == 4
\* Mutant: the length prefix is not counted.
UnlinedLengthBare(v) == IF IsNull(v) THEN LengthPrefix - 1 ELSE TextLength(v.val) + 1
UnlinedLength(v) == IF IsNull(v) THEN LengthPrefix - 1 ELSE LengthPrefix + TextLength(v.val) + 1

\* What SerializeTo writes: NULL is the prefix alone.
SerializedLength(v) ==
  CASE v.type # VARCHAR -> GetTypeSize(v.type)
    [] v.type = VARCHAR -> LengthPrefix + (IF IsNull(v) THEN 0 ELSE TextLength(v.val) + 1)

Write(at, v) == [at |-> at, len |-> SerializedLength(v), holds |-> v]
WriteOffset(at, offset) == [at |-> at, len |-> 4, holds |-> [type |-> "OFFSET", val |-> offset]]

\* Where the data of the text in column i goes, and, at n + 1, the tuple's size.
UnlinedOffset(values, schema, i) ==
  LET offset[j \in 1 .. Len(schema) + 1] ==
        IF j = 1 THEN SchemaLength(schema)
        ELSE offset[j - 1] + (IF IsInlined(schema[j - 1]) THEN 0 ELSE UnlinedLength(values[j - 1]))
  IN  offset[i]

\* Tuple::Tuple(values, schema): the writes of one column.
ColumnWrites(values, schema, i) ==
  IF IsInlined(schema[i]) THEN <<Write(ColumnOffset(schema, i), values[i])>>
  ELSE LET offset == UnlinedOffset(values, schema, i)
       IN  <<WriteOffset(ColumnOffset(schema, i), offset), Write(offset, values[i])>>

Tuple(values, schema) ==
  LET writes[i \in 0 .. Len(schema)] ==
        IF i = 0 THEN <<>> ELSE writes[i - 1] \o ColumnWrites(values, schema, i)
  IN  [size |-> UnlinedOffset(values, schema, Len(schema) + 1), writes |-> writes[Len(schema)]]

\* What the bytes from at on hold: the write that starts there, unless a later
\* one overlaps it.
Garbage == [type |-> "GARBAGE", val |-> 0]
Overlap(w, u) == w.at < u.at + u.len /\ u.at < w.at + w.len
ReadAt(t, at) ==
  LET intact == {k \in DOMAIN t.writes :
                   /\ t.writes[k].at = at
                   /\ \A m \in k + 1 .. Len(t.writes) : ~Overlap(t.writes[k], t.writes[m])}
  IN  IF intact = {} THEN Garbage ELSE t.writes[CHOOSE k \in intact : TRUE].holds

\* Tuple::GetDataPtr and Tuple::GetValue: the value is read as the column's type.
GetDataPtr(t, schema, i) ==
  IF IsInlined(schema[i]) THEN ColumnOffset(schema, i)
  ELSE ReadAt(t, ColumnOffset(schema, i)).val
GetValue(t, schema, i) ==
  LET v == ReadAt(t, GetDataPtr(t, schema, i))
  IN  IF v.type = schema[i] THEN v ELSE Garbage

\* Tuple::KeyFromTuple.
KeyFromTuple(t, schema, key_schema, key_attrs) ==
  Tuple([k \in DOMAIN key_attrs |-> GetValue(t, schema, key_attrs[k])], key_schema)

\* GenericComparator: the sign of the first columns that differ; a NULL differs
\* from nothing.
CompareKeys(lhs, rhs, key_schema) ==
  LET Differ(i, op) == Compare(op, GetValue(lhs, key_schema, i), GetValue(rhs, key_schema, i)) = "CmpTrue"
      unequal == {i \in DOMAIN key_schema : Differ(i, "<") \/ Differ(i, ">")}
  IN  IF unequal = {} THEN 0
      ELSE IF Differ(CHOOSE i \in unequal : \A j \in unequal : i <= j, "<") THEN -1 ELSE 1
=============================================================================
