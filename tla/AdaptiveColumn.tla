--------------------------- MODULE AdaptiveColumn ---------------------------
(***************************************************************************)
(* One result column while a query streams its rows                        *)
(* (crates/powder-core/src/client.rs, AdaptiveCol): it starts as Int and   *)
(* is promoted to Float and Str when a cell asks for it.  The serial scan  *)
(* builds one column; the parallel scan builds one per rowid range and     *)
(* then either merges them (merge_col) or encodes them side by side        *)
(* (encode_chunks_direct).  The column is also the key of the ORDER BY     *)
(* that the engine takes over from SQLite (sort_built).                    *)
(*                                                                         *)
(* A string is a sequence of bytes.  Rendering a number is one byte, the   *)
(* number itself: two numbers have equal renderings iff they are equal,    *)
(* and a text may read like a number.  A multi-byte character is a lead    *)
(* and one continuation byte.                                              *)
(***************************************************************************)
EXTENDS Integers, Sequences, SequencesExt, FiniteSetsExt, TLC

CONSTANTS
    Ints, Reals,  \* numbers the rows may hold, as INTEGER and as REAL
    Texts, Blobs, \* byte strings the rows may hold, as TEXT and as BLOB
    Exact,        \* 2^53: the largest number to which binary64 is exact
    EmptyRanges,  \* whether a rowid range may hold no row
    MaxRows,      \* bound: rows of the result
    MaxRanges     \* bound: rowid ranges

Lead == 195
Continuation == 169
Replacement == 239  \* U+FFFD, one byte here
IsAscii(b) == b < 128

ASSUME ColumnAssumption ==
    /\ Ints \subseteq 0..100 /\ Reals \subseteq 0..100
    /\ \A s \in Texts \cup Blobs :
         s \in Seq((0..127) \cup {Lead, Continuation})
    /\ Exact \in Nat
    /\ EmptyRanges \in BOOLEAN
    /\ MaxRows \in Nat /\ MaxRanges \in Nat \ {0}

VARIABLES
    ranges, \* the columns of the parallel scan, in rowid order
    serial, \* the column of the serial scan over the same rows
    cells   \* history: the rows' cells, in rowid order

vars == <<ranges, serial, cells>>

Null == [kind |-> "null", value |-> 0]
Cells == {Null}
         \cup [kind : {"int"}, value : Ints] \cup [kind : {"real"}, value : Reals]
         \cup [kind : {"text"}, value : Texts] \cup [kind : {"blob"}, value : Blobs]

-----------------------------------------------------------------------------
\* Conversions.

\* i as f64: above Exact only every second number is representable, and a
\* tie goes to the even mantissa.
AsFloat(i) ==
    IF i <= Exact \/ i % 2 = 0 THEN i ELSE IF i % 4 = 1 THEN i - 1 ELSE i + 1

Digits(n) == <<n>>

Starts(s, i) == s[i] = Lead /\ i < Len(s) /\ s[i + 1] = Continuation
Continues(s, i) == s[i] = Continuation /\ i > 1 /\ s[i - 1] = Lead
ValidAt(s, i) == s[i] \notin {Lead, Continuation} \/ Starts(s, i) \/ Continues(s, i)

Utf8(s) == \A i \in DOMAIN s : ValidAt(s, i)
Utf8Lossy(s) == [i \in DOMAIN s |-> IF ValidAt(s, i) THEN s[i] ELSE Replacement]

-----------------------------------------------------------------------------
\* AdaptiveCol.  `nulls` is a set of rows; a null slot holds 0 or "".
EmptyCol ==
    [class |-> "int", values |-> <<>>, nulls |-> {}, promoted |-> FALSE,
     saw_blob |-> FALSE, text_valid |-> TRUE]

NonNull(col) == DOMAIN col.values \ col.nulls

MapValues(col, f(_)) == [i \in DOMAIN col.values |-> f(col.values[i])]

PromoteToFloat(col) ==
    IF col.class # "int" THEN col
    ELSE [col EXCEPT !.class = "float", !.values = MapValues(col, AsFloat),
                     !.promoted = @ \/ NonNull(col) # {}]

\* promote_to_str, with the null slots rendered as empty strings.
PromoteToStr(col) ==
    IF col.class = "str" THEN col
    ELSE [col EXCEPT
            !.class = "str",
            !.values = [i \in DOMAIN @ |->
                          IF i \in col.nulls THEN <<>> ELSE Digits(@[i])],
            !.promoted = @ \/ NonNull(col) # {}]

Push(col, v) == [col EXCEPT !.values = Append(@, v)]

PushNull(col) ==
    [Push(col, IF col.class = "str" THEN <<>> ELSE 0)
        EXCEPT !.nulls = @ \cup {Len(col.values) + 1}]

\* push_int into a column of another class does not consult NonNull.
PushInt(col, i) ==
    CASE col.class = "int" -> Push(col, i)
      [] col.class = "float" -> [Push(col, AsFloat(i)) EXCEPT !.promoted = TRUE]
      [] col.class = "str" -> [Push(col, Digits(i)) EXCEPT !.promoted = TRUE]

PushReal(col, x) ==
    LET c == PromoteToFloat(col)
    IN  IF c.class = "float" THEN Push(c, x)
        ELSE [Push(c, Digits(x)) EXCEPT !.promoted = TRUE]

PushText(col, s) == Push(PromoteToStr(col), s)

\* push_blob without the repair.
PushBlobRaw(col, s) == [Push(PromoteToStr(col), s) EXCEPT !.saw_blob = TRUE]

PushBlob(col, s) ==
    [Push(PromoteToStr(col), IF Utf8(s) THEN s ELSE Utf8Lossy(s))
        EXCEPT !.saw_blob = TRUE]

PushCell(col, cell) ==
    CASE cell.kind = "null" -> PushNull(col)
      [] cell.kind = "int" -> PushInt(col, cell.value)
      [] cell.kind = "real" -> PushReal(col, cell.value)
      [] cell.kind = "text" -> PushText(col, cell.value)
      [] cell.kind = "blob" -> PushBlob(col, cell.value)

\* validate_text, at the end of a scan: one check of the whole buffer.
Validate(col) ==
    IF col.class # "str" THEN col
    ELSE [col EXCEPT !.text_valid = Utf8(FlattenSeq(col.values))]

\* finish: the column of the record batch.
Finish(col) ==
    [type |-> col.class, nulls |-> col.nulls,
     values |-> IF col.class = "str" /\ ~col.text_valid
                  THEN MapValues(col, Utf8Lossy) ELSE col.values]

-----------------------------------------------------------------------------
\* merge_col: the ranges' columns are brought to one class and concatenated.
ClassRank == [int |-> 0, float |-> 1, str |-> 2]

\* The classes of the ranges that hold a value.
HeldClasses(cols) ==
    {cols[i].class : i \in {j \in DOMAIN cols : NonNull(cols[j]) # {}}}

MergedClass(cols) ==
    CASE "str" \in HeldClasses(cols) -> "str"
      [] {"float", "str"} \cap HeldClasses(cols) = {"float"} -> "float"
      [] OTHER -> "int"

Unified(col, class) ==
    CASE class = "str" -> PromoteToStr(col)
      [] class = "float" -> PromoteToFloat(col)
      [] class = "int" -> col

\* The number of rows before range i.
Base(cols, i) == Len(FlattenSeq([j \in 1..(i - 1) |-> cols[j].values]))

\* A merge that takes the mark for mixed classes from the ranges alone.
MarkedByRanges(cols) == \E i \in DOMAIN cols : cols[i].promoted

\* The merged column is mixed if a range is, or if two ranges differ.
Mixed(cols) ==
    \/ \E i \in DOMAIN cols : cols[i].promoted
    \/ HeldClasses(cols) \notin SUBSET {MergedClass(cols)}

\* The rows of the nulls, not shifted to their range.
UnshiftedNulls(cols) == UNION {cols[i].nulls : i \in DOMAIN cols}

MergedNulls(cols) ==
    UNION {{r + Base(cols, i) : r \in cols[i].nulls} : i \in DOMAIN cols}

MergedValues(cols) ==
    FlattenSeq([i \in DOMAIN cols |-> Unified(cols[i], MergedClass(cols)).values])

MergeCol(cols) ==
    [class |-> MergedClass(cols), values |-> MergedValues(cols),
     nulls |-> MergedNulls(cols), promoted |-> Mixed(cols),
     saw_blob |-> \E i \in DOMAIN cols : cols[i].saw_blob,
     text_valid |-> \A i \in DOMAIN cols : cols[i].text_valid]

-----------------------------------------------------------------------------
\* The order of the values of one class: numbers, or strings byte by byte.
StrLeq(s, t) ==
    \/ IsPrefix(s, t)
    \/ \E i \in DOMAIN s \cap DOMAIN t :
         s[i] < t[i] /\ \A j \in 1..(i - 1) : s[j] = t[j]

Leq(class, v, w) == IF class = "str" THEN StrLeq(v, w) ELSE v <= w

\* v may precede w.
Precedes(class, dir, v, w) ==
    IF dir = "desc" THEN Leq(class, w, v) ELSE Leq(class, v, w)

\* is_sorted
Ordered(col, dir) ==
    \A i \in 1..(Len(col.values) - 1) :
        Precedes(col.class, dir, col.values[i], col.values[i + 1])

\* The gate of sort_built.
Sortable(col) == ~col.promoted /\ ~col.saw_blob /\ col.nulls = {}

\* sort_built's result, where it has one.
SortedValues(col, dir) ==
    SortSeq(col.values, LAMBDA v, w : v # w /\ Precedes(col.class, dir, v, w))

\* encode_chunks_direct without the gate on invalid text.
DirectEncodableInvalid(cols) ==
    \A i \in DOMAIN cols :
        cols[i].nulls = {} /\ ~cols[i].promoted /\ cols[i].class = cols[1].class

\* encode_chunks_direct: the gates on every column.
DirectEncodable(cols) ==
    \A i \in DOMAIN cols :
        /\ cols[i].nulls = {}
        /\ ~cols[i].promoted
        /\ cols[i].text_valid
        /\ cols[i].class = cols[1].class

\* The gates on the key column of an ORDER BY: sorted inside every range, and
\* across each boundary between two adjacent ranges, neither of them empty.
DirectOrderable(cols, dir) ==
    /\ \A i \in DOMAIN cols : ~cols[i].saw_blob /\ Ordered(cols[i], dir)
    /\ \A i \in 1..(Len(cols) - 1) :
         cols[i].values # <<>> /\ cols[i + 1].values # <<>> =>
             Precedes(cols[i].class, dir, Last(cols[i].values),
                      Head(cols[i + 1].values))

\* encode_parts: the ranges' values side by side.
DirectValues(cols) == FlattenSeq([i \in DOMAIN cols |-> cols[i].values])

-----------------------------------------------------------------------------
Init ==
    /\ ranges = <<EmptyCol>>
    /\ serial = EmptyCol
    /\ cells = <<>>

\* Both scans step to a row of the last range.
NextRow(cell) ==
    /\ Len(cells) < MaxRows
    /\ cells' = Append(cells, cell)
    /\ serial' = PushCell(serial, cell)
    /\ ranges' = [ranges EXCEPT ![Len(ranges)] = PushCell(@, cell)]

\* The remaining rows belong to the next range.
NextRange ==
    /\ Len(ranges) < MaxRanges
    /\ EmptyRanges \/ Last(ranges).values # <<>>
    /\ ranges' = Append(ranges, EmptyCol)
    /\ UNCHANGED <<serial, cells>>

Next == (\E cell \in Cells : NextRow(cell)) \/ NextRange

Spec == Init /\ [][Next]_vars

-----------------------------------------------------------------------------
Scanned == [i \in DOMAIN ranges |-> Validate(ranges[i])]
Serial == Validate(serial)
Merged == MergeCol(Scanned)

\* The types of the variables.
IsColumn(col) ==
    /\ col.class \in DOMAIN ClassRank
    /\ \A i \in DOMAIN col.values :
         IF col.class = "str" THEN col.values[i] \in Seq(0..255)
         ELSE col.values[i] \in Nat
    /\ col.nulls \subseteq DOMAIN col.values
    /\ col.promoted \in BOOLEAN /\ col.saw_blob \in BOOLEAN
    /\ col.text_valid \in BOOLEAN

TypeOK ==
    /\ IsColumn(serial)
    /\ Len(ranges) \in 1..MaxRanges /\ \A i \in DOMAIN ranges : IsColumn(ranges[i])
    /\ cells \in Seq(Cells)

\* Whole-column inference: "any text/blob -> Utf8, else any real -> Float64,
\* else Int64".
Inferred ==
    LET kinds == {cells[i].kind : i \in DOMAIN cells}
    IN  CASE kinds \cap {"text", "blob"} # {} -> "str"
          [] kinds \cap {"text", "blob", "real"} = {"real"} -> "float"
          [] OTHER -> "int"

\* Promoting cell by cell, and range by range, gives the type and the nulls
\* that inference over the whole column would give.
InferenceAgrees ==
    \A col \in {Serial, Merged} :
        /\ Finish(col).type = Inferred
        /\ Finish(col).nulls = {i \in DOMAIN cells : cells[i].kind = "null"}

\* SQLite's ORDER BY: NULL < numbers < text < blobs, then by value.
SqliteRank == [null |-> 0, int |-> 1, real |-> 1, text |-> 2, blob |-> 3]

SqliteLeq(a, b) ==
    \/ SqliteRank[a.kind] < SqliteRank[b.kind]
    \/ /\ SqliteRank[a.kind] = SqliteRank[b.kind]
       /\ Leq(IF SqliteRank[a.kind] >= 2 THEN "str" ELSE "int", a.value, b.value)

SqliteOrder(dir) ==
    SortSeq(cells, LAMBDA a, b : IF dir = "desc" THEN SqliteLeq(b, a) /\ a # b
                                 ELSE SqliteLeq(a, b) /\ a # b)

\* The cell as a column of that class shows it.
Shown(cell, class) ==
    CASE cell.kind = "null" -> IF class = "str" THEN <<>> ELSE 0
      [] cell.kind \in {"int", "real"} /\ class = "str" -> Digits(cell.value)
      [] cell.kind = "int" /\ class = "float" -> AsFloat(cell.value)
      [] OTHER -> cell.value

\* A sort the engine takes over is SQLite's: a column the gate lets through
\* lost no storage class, so ordering its values orders its cells.
SortsLikeSqlite ==
    \A col \in {Serial, Merged}, dir \in {"asc", "desc"} :
        Sortable(col) =>
            SortedValues(col, dir) =
                [i \in DOMAIN cells |-> Shown(SqliteOrder(dir)[i], col.class)]

\* No range without rows lies between two that have some.
Gapless ==
    \A i, k \in DOMAIN ranges : \A j \in i..k :
        ranges[i].values # <<>> /\ ranges[k].values # <<>> => ranges[j].values # <<>>

\* "Ordered across chunk boundaries": an ORDER BY answered without a merge is
\* answered in order.
DirectIsOrdered ==
    \A dir \in {"asc", "desc"} :
        DirectEncodable(Scanned) /\ DirectOrderable(Scanned, dir) =>
            Ordered([class |-> Scanned[1].class, values |-> DirectValues(Scanned)], dir)

\* What the encoder writes from the ranges is what the merge would have
\* built, so a caller cannot tell which path a query took.  The code compares
\* adjacent ranges only: an ORDER BY it answers is in order, in both directions
\* and for any number of ranges, as long as no gap hides a pair.
DirectMatchesMerge ==
    /\ DirectEncodable(Scanned) =>
         Finish(Merged) = [type |-> Scanned[1].class, nulls |-> {},
                           values |-> DirectValues(Scanned)]
    /\ Gapless => DirectIsOrdered

\* The parallel scan is indistinguishable from the serial one.
MergeMatchesSerial == Finish(Merged) = Finish(Serial)

\* It is, whatever the split, the nulls and the promotions, as long as binary64
\* represents the integers (the serial scan may render one as a float); types
\* and nulls are those of the whole column even then.
MergeMatchesSerialIfExact ==
    /\ InferenceAgrees
    /\ (\A i \in DOMAIN cells : cells[i].kind = "int" => AsFloat(cells[i].value) = cells[i].value)
          => MergeMatchesSerial

\* Invalid bytes are repaired: a finished string column holds UTF-8 only.
FinishedIsUtf8 ==
    \A col \in {Serial, Merged} :
        Finish(col).type = "str" =>
            \A i \in DOMAIN Finish(col).values : Utf8(Finish(col).values[i])

\* They are unless a TEXT cell starts in the middle of a character, which the
\* check of the whole buffer may take for the end of the cell before it.
FinishedIsUtf8UnlessSplit ==
    (\A i \in DOMAIN cells : cells[i].kind = "text" => ~IsPrefix(<<Continuation>>, cells[i].value))
        => FinishedIsUtf8
=============================================================================
