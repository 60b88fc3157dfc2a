------------------------------ MODULE PcbCodec ------------------------------
(***************************************************************************)
(* The wire format of results, PCB (crates/powder-core/src/codec.rs), and  *)
(* the columns it carries (array.rs, batch.rs): a header, a directory of   *)
(* the columns, their names, and their buffers, each on an 8-byte boundary.*)
(* A serial encoder appends; a parallel one lays the buffers out first,    *)
(* leaves them uninitialized, and lets one task per column write its parts *)
(* in place.  The reader takes views of the bytes or decodes them.         *)
(*                                                                         *)
(* A buffer is a sequence of bytes; offset n of the code is index n + 1.   *)
(* A 64-bit number stands for its bit pattern.  A column is pushed as      *)
(* [name, type, parts]: the rows each rowid range gave, a cell being a     *)
(* number, a Boolean, the bytes of a text, or Null.                        *)
(***************************************************************************)
EXTENDS Integers, Sequences, SequencesExt, FiniteSetsExt

CONSTANTS
    Batches, \* the results encoded: sequences of columns of as many rows
    Null,    \* SQL NULL
    Unset    \* an uninitialized byte

Bytes == 0..255
Types == {"int", "float", "bool", "utf8"}
Rows(col) == FlattenSeq(col.parts)

\* The cells of a type, and the columns of it.
Cells(type) ==
    CASE type \in {"int", "float"} -> Nat [] type = "bool" -> BOOLEAN [] type = "utf8" -> Seq(Bytes)
Pushed(type) == [name : Seq(Bytes), type : {type}, parts : Seq(Seq({Null} \cup Cells(type)))]

ASSUME CodecAssumption ==
    /\ Null \notin Bytes /\ Unset \notin Bytes
    /\ \A b \in Batches :
         /\ Len(b) \in Nat /\ b = [i \in 1..Len(b) |-> b[i]]
         /\ \A i \in DOMAIN b :
              /\ b[i].type \in Types /\ b[i] \in Pushed(b[i].type)
              /\ Len(Rows(b[i])) = Len(Rows(b[1]))

VARIABLES
    batch,  \* the result
    pc,     \* "layout", "write", or "done"
    out,    \* the buffer of encode_parts
    pending \* per column: the copies its task has yet to make

vars == <<batch, pc, out, pending>>

-----------------------------------------------------------------------------
\* Numbers as bytes, little-endian.

Place == <<1, 256, 65536>>
Little(n, width) == [i \in 1..width |-> IF i > 3 THEN 0 ELSE (n \div Place[i]) % 256]
Read(bytes, at) == bytes[at + 1] + 256 * bytes[at + 2] + 65536 * bytes[at + 3]

Zeros(n) == [i \in 1..n |-> 0]
Padding(n) == (8 - (n % 8)) % 8
Align8(bytes) == bytes \o Zeros(Padding(Len(bytes)))

BitsLen(n) == (n + 7) \div 8

\* The first row the highest bit.
BitsHighFirst(flags) ==
    [k \in 1..BitsLen(Len(flags)) |->
       SumSet({2^(7 - j) : j \in {j \in 0..7 : 8 * (k - 1) + j + 1 \in DOMAIN flags
                                               /\ flags[8 * (k - 1) + j + 1]}})]

\* One bit per row, the first row the lowest bit of the first byte.
Bits(flags) ==
    [k \in 1..BitsLen(Len(flags)) |->
       SumSet({2^j : j \in {j \in 0..7 : 8 * (k - 1) + j + 1 \in DOMAIN flags
                                         /\ flags[8 * (k - 1) + j + 1]}})]
Bit(bytes, row) == (bytes[row \div 8 + 1] \div 2^(row % 8)) % 2 = 1

-----------------------------------------------------------------------------
\* ColumnBuilder: a NULL leaves a zero or an empty text, and the validity
\* bitmap is kept only if there is one.

Instead(col) == CASE col.type = "bool" -> FALSE [] col.type = "utf8" -> <<>> [] OTHER -> 0
Slots(col) == LET rows == Rows(col)
              IN [i \in DOMAIN rows |-> IF rows[i] = Null THEN Instead(col) ELSE rows[i]]
Offsets(texts) == [i \in 1..(Len(texts) + 1) |-> Len(FlattenSeq(SubSeq(texts, 1, i - 1)))]

Finish(col) ==
    LET rows == Rows(col)
        valid == [i \in DOMAIN rows |-> rows[i] # Null]
        nullable == Null \in ToSet(rows)
    IN [name |-> col.name, type |-> col.type, len |-> Len(rows), nullable |-> nullable,
        validity |-> IF nullable THEN Bits(valid) ELSE <<>>,
        slots |-> Slots(col)]

\* Column::is_valid and the readers of a cell; rows count from 0.
IsValid(column, row) == row < column.len /\ (column.nullable => Bit(column.validity, row))
Cell(column, row) == IF IsValid(column, row) THEN column.slots[row + 1] ELSE Null

-----------------------------------------------------------------------------
\* The layout.

HeaderLen == 24
ColdirLen == 40
FlagAscii == 2
Code(type) == CASE type = "int" -> 0 [] type = "float" -> 1 [] type = "bool" -> 2 [] type = "utf8" -> 3

\* "PCB1".
Magic == <<80, 67, 66, 49>>
Header(columns, rows) ==
    Magic \o Little(1, 2) \o Little(0, 2) \o Little(columns, 4) \o Little(rows, 4)
          \o Little(HeaderLen, 4) \o Little(0, 4)

DirectoryEntry(col, name_off, e) ==
    Little(name_off, 4) \o Little(Len(col.name), 4) \o <<Code(col.type), e.flags>> \o Little(0, 2)
      \o Little(e.validity_off, 4) \o Little(e.validity_len, 4)
      \o Little(e.buf1_off, 4) \o Little(e.buf1_len, 4)
      \o Little(e.buf2_off, 4) \o Little(e.buf2_len, 4) \o Little(0, 4)

NamesOff(cols) == HeaderLen + Len(cols) * ColdirLen
NameBytes(cols) == FlattenSeq([i \in DOMAIN cols |-> cols[i].name])
NameOff(cols, i) == NamesOff(cols) + Len(NameBytes(SubSeq(cols, 1, i - 1)))

IsAscii(bytes) == \A x \in ToSet(bytes) : x < 128

\* The buffers of a column: numbers, a bitmap, or offsets and characters.
Buf1(column) ==
    CASE column.type \in {"int", "float"} ->
           FlattenSeq([i \in DOMAIN column.slots |-> Little(column.slots[i], 8)])
      [] column.type = "bool" -> Bits(column.slots)
      [] column.type = "utf8" ->
           LET offsets == Offsets(column.slots)
           IN FlattenSeq([i \in DOMAIN offsets |-> Little(offsets[i], 4)])
Buf2(column) == IF column.type = "utf8" THEN FlattenSeq(column.slots) ELSE <<>>

-----------------------------------------------------------------------------
\* The serial encoder, encode.

\* A column's validity, if any, and its buffers, each aligned.
PutColumn(acc, column) ==
    LET bitmap == IF column.nullable THEN Align8(acc.bytes) \o column.validity ELSE acc.bytes
        with1 == Align8(bitmap) \o Buf1(column)
        with2 == IF column.type = "utf8" THEN Align8(with1) \o Buf2(column) ELSE with1
    IN [bytes |-> with2,
        entries |-> Append(acc.entries,
          [validity_off |-> IF column.nullable THEN Len(Align8(acc.bytes)) ELSE 0,
           validity_len |-> Len(column.validity),
           buf1_off |-> Len(Align8(bitmap)), buf1_len |-> Len(Buf1(column)),
           buf2_off |-> IF column.type = "utf8" THEN Len(Align8(with1)) ELSE 0,
           buf2_len |-> Len(Buf2(column)),
           flags |-> (IF column.nullable THEN 1 ELSE 0)
                     + (IF column.type = "utf8" /\ IsAscii(Buf2(column)) THEN FlagAscii ELSE 0)])]

\* The header and the directory, in front of names and buffers.
Patched(cols, rows, entries, body) ==
    Header(Len(cols), rows)
      \o FlattenSeq([i \in DOMAIN cols |-> DirectoryEntry(cols[i], NameOff(cols, i), entries[i])])
      \o SubSeq(body, NamesOff(cols) + 1, Len(body))

\* After the first n columns.
Put(cols) ==
    LET start == Align8(Zeros(NamesOff(cols)) \o NameBytes(cols))
        put[n \in 0..Len(cols)] == IF n = 0 THEN [bytes |-> start, entries |-> <<>>]
                                   ELSE PutColumn(put[n - 1], Finish(cols[n]))
    IN put

Encode(cols) ==
    LET rows == IF cols = <<>> THEN 0 ELSE Finish(cols[1]).len
        put == Put(cols)[Len(cols)]
    IN Patched(cols, rows, put.entries, Align8(put.bytes))

-----------------------------------------------------------------------------
\* The parallel encoder, encode_parts: numbers and texts, no NULL.

Aligned(n) == n + Padding(n)
Splittable(b) == \A i \in DOMAIN b : b[i].type # "bool" /\ Null \notin ToSet(Rows(b[i]))

\* As many offsets as rows.
PlacedShort(acc, col) ==
    LET rows == Rows(col)
        buf1 == Aligned(acc.end)
        chars == FlattenSeq(Slots(col))
        text == col.type = "utf8"
        len1 == Len(rows) * (IF text THEN 4 ELSE 8)
        buf2 == Aligned(buf1 + len1)
    IN [end |-> IF text THEN buf2 + Len(chars) ELSE buf1 + len1,
        entries |-> Append(acc.entries,
          [validity_off |-> 0, validity_len |-> 0, buf1_off |-> buf1, buf1_len |-> len1,
           buf2_off |-> IF text THEN buf2 ELSE 0,
           buf2_len |-> IF text THEN Len(chars) ELSE 0, flags |-> 0])]

\* Pass 1: where the buffers go, given where the last one ends.
Placed(acc, col) ==
    LET rows == Rows(col)
        buf1 == Aligned(acc.end)
        len1 == IF col.type = "utf8" THEN (Len(rows) + 1) * 4 ELSE Len(rows) * 8
        chars == FlattenSeq(Slots(col))
        buf2 == Aligned(buf1 + len1)
        text == col.type = "utf8"
    IN [end |-> IF text THEN buf2 + Len(chars) ELSE buf1 + len1,
        entries |-> Append(acc.entries,
          [validity_off |-> 0, validity_len |-> 0, buf1_off |-> buf1, buf1_len |-> len1,
           buf2_off |-> IF text THEN buf2 ELSE 0,
           buf2_len |-> IF text THEN Len(chars) ELSE 0,
           flags |-> IF text /\ IsAscii(chars) THEN FlagAscii ELSE 0])]

\* After the first n columns.
LaidOut(cols) ==
    LET start == Aligned(NamesOff(cols) + Len(NameBytes(cols)))
        laid[n \in 0..Len(cols)] == IF n = 0 THEN [end |-> start, entries |-> <<>>]
                                    ELSE Placed(laid[n - 1], cols[n])
    IN laid
Layout(cols) == LaidOut(cols)[Len(cols)]

\* The bytes of the buffers, which the tasks write.
Payload(entries) ==
    UNION {(e.buf1_off .. e.buf1_off + e.buf1_len - 1)
           \cup (e.buf2_off .. e.buf2_off + e.buf2_len - 1) : e \in ToSet(entries)}

\* Header, directory, names and paddings are filled first.
Filled(cols) ==
    LET layout == Layout(cols)
        size == Aligned(layout.end)
        rows == IF cols = <<>> THEN 0 ELSE Len(Rows(cols[1]))
        names == NameBytes(cols)
        front == Patched(cols, rows, layout.entries, Zeros(NamesOff(cols)) \o names)
    IN [i \in 1..size |-> IF i <= Len(front) THEN front[i]
                          ELSE IF i - 1 \in Payload(layout.entries) THEN Unset ELSE 0]

\* Every part's offsets as they were.
ShiftNone(earlier) == 0

\* The characters of the parts before.
Shift(earlier) == Len(FlattenSeq(earlier))

\* Pass 2: the copies of one column's task, in order: per part its numbers;
\* or a zero, then per part its offsets shifted by the characters of the parts
\* before it, then per part its characters.
Copies(col, e) ==
    LET Part(k) == col.parts[k]
        Earlier(k) == FlattenSeq(SubSeq(col.parts, 1, k - 1))
        Rebased(k) == FlattenSeq([i \in 1..Len(Part(k)) |->
                                    Little(Offsets(Part(k))[i + 1] + Shift(Earlier(k)), 4)])
        Numbers(k) == FlattenSeq([i \in DOMAIN Part(k) |-> Little(Part(k)[i], 8)])
    IN IF col.type # "utf8"
       THEN [k \in DOMAIN col.parts |->
               [at |-> e.buf1_off + 8 * Len(Earlier(k)), bytes |-> Numbers(k)]]
       ELSE <<[at |-> e.buf1_off, bytes |-> Little(0, 4)]>>
            \o [k \in DOMAIN col.parts |->
                  [at |-> e.buf1_off + 4 + 4 * Len(Earlier(k)), bytes |-> Rebased(k)]]
            \o [k \in DOMAIN col.parts |->
                  [at |-> e.buf2_off + Len(FlattenSeq(Earlier(k))), bytes |-> FlattenSeq(Part(k))]]

Init ==
    /\ batch \in Batches
    /\ pc = IF Splittable(batch) THEN "layout" ELSE "done"
    /\ out = IF Splittable(batch) THEN <<>> ELSE Encode(batch)
    /\ pending = [i \in DOMAIN batch |-> <<>>]

LayOut ==
    /\ pc = "layout"
    /\ out' = Filled(batch)
    /\ LET entries == Layout(batch).entries
       IN pending' = [i \in DOMAIN batch |-> Copies(batch[i], entries[i])]
    /\ pc' = "write"
    /\ UNCHANGED batch

Covers(copy) == (copy.at + 1)..(copy.at + Len(copy.bytes))

\* The task of column i copies its next part.
Write(i) ==
    /\ pc = "write" /\ pending[i] # <<>>
    /\ LET copy == Head(pending[i])
       IN out' = [j \in DOMAIN out |->
                    IF j \in Covers(copy) THEN copy.bytes[j - copy.at] ELSE out[j]]
    /\ pending' = [pending EXCEPT ![i] = Tail(@)]
    /\ UNCHANGED <<batch, pc>>

\* All tasks are joined.
Join ==
    /\ pc = "write" /\ \A i \in DOMAIN batch : pending[i] = <<>>
    /\ pc' = "done"
    /\ UNCHANGED <<batch, out, pending>>

Done == pc = "done" /\ UNCHANGED vars

Next == LayOut \/ Join \/ Done \/ \E i \in DOMAIN batch : Write(i)

Spec == Init /\ [][Next]_vars

-----------------------------------------------------------------------------
\* The reader, decode: [status, columns], status "ok", "error", or "panic".

\* The end is not looked at.
FitsOffset(bytes, off, len) == off <= Len(bytes)
Fits(bytes, off, len) == off + len <= Len(bytes)
Slice(bytes, off, len) == SubSeq(bytes, off + 1, Min({off + len, Len(bytes)}))

DecodeColumn(bytes, base, rows) ==
    LET Field(k) == Read(bytes, base + k)
        name == Slice(bytes, Field(0), Field(4))
        type == CHOOSE t \in Types : Code(t) = bytes[base + 9]
        nullable == bytes[base + 10] % 2 = 1
        buf1 == Slice(bytes, Field(20), Field(24))
        buf2 == Slice(bytes, Field(28), Field(32))
        need == CASE type \in {"int", "float"} -> 8 * rows
                  [] type = "bool" -> BitsLen(rows)
                  [] type = "utf8" -> 4 * (rows + 1)
        Text(i) == LET from == Read(buf1, 4 * (i - 1))
                   IN Slice(buf2, from, Read(buf1, 4 * i) - from)
    IN IF \/ base + ColdirLen > Len(bytes)
          \/ ~Fits(bytes, Field(0), Field(4)) \/ ~Fits(bytes, Field(20), Field(24))
          \/ nullable /\ ~Fits(bytes, Field(12), Field(16))
       THEN [status |-> "error"]
       ELSE IF Len(buf1) < need THEN [status |-> "panic"]
       ELSE IF type = "utf8" /\ ~Fits(bytes, Field(28), Field(32)) THEN [status |-> "error"]
       ELSE [status |-> "ok",
             column |-> [name |-> name, type |-> type, len |-> rows, nullable |-> nullable,
                         validity |-> IF nullable THEN Slice(bytes, Field(12), Field(16)) ELSE <<>>,
                         slots |-> [i \in 1..rows |->
                           CASE type \in {"int", "float"} -> Read(buf1, 8 * (i - 1))
                             [] type = "bool" -> Bit(buf1, i - 1)
                             [] type = "utf8" -> Text(i)]]]

Decode(bytes) ==
    IF Len(bytes) < HeaderLen \/ SubSeq(bytes, 1, 6) # Magic \o Little(1, 2)
    THEN [status |-> "error"]
    ELSE LET rows == Read(bytes, 12)
             read == [i \in 1..Read(bytes, 8) |->
                        DecodeColumn(bytes, Read(bytes, 16) + (i - 1) * ColdirLen, rows)]
             failed == {i \in DOMAIN read : read[i].status # "ok"}
         IN IF failed # {} THEN [status |-> read[Min(failed)].status]
            ELSE [status |-> "ok", columns |-> [i \in DOMAIN read |-> read[i].column]]

-----------------------------------------------------------------------------
\* The type invariant: the buffer holds bytes, uninitialized ones only where a
\* copy is pending (encode_parts, codec.rs).
TypeOK ==
    /\ batch \in Batches /\ pc \in {"layout", "write", "done"}
    /\ out \in Seq(Bytes \cup {Unset})
    /\ \A j \in DOMAIN out : out[j] = Unset =>
         \E i \in DOMAIN batch : \E copy \in ToSet(pending[i]) : j \in Covers(copy)

\* Tasks never write where another does, has written, or something was filled
\* in: what a copy is to cover is inside the buffer and uninitialized until it
\* is made, in whatever order the tasks run ("which pass 1 made disjoint", the
\* reason the unsafe writes are sound, codec.rs encode_parts).
WritesAreDisjoint ==
    \A i, k \in DOMAIN batch : \A a \in DOMAIN pending[i], b \in DOMAIN pending[k] :
        /\ \A j \in Covers(pending[i][a]) : j \in DOMAIN out /\ out[j] = Unset
        /\ <<i, a>> # <<k, b>> => Covers(pending[i][a]) \cap Covers(pending[k][b]) = {}

\* "Every byte below `total` is written before `out` is returned", and the
\* bytes are those the serial encoder makes of the same rows, however they
\* were cut into parts (codec.rs encode_parts, encode).
PartsMatchSerial == pc = "done" => out = Encode(batch)

\* Every buffer begins on an 8-byte boundary and the whole is a multiple of 8,
\* so typed views can be laid over it without a copy ("numeric payloads are
\* 8-byte aligned", codec.rs:1-10).
ViewsAreAligned ==
    pc = "done" =>
        /\ Len(out) % 8 = 0
        /\ \A i \in DOMAIN batch : \A k \in {12, 20, 28} :
             Read(out, HeaderLen + (i - 1) * ColdirLen + k) % 8 = 0

\* Whoever reads the buffer, by views or by copies, reads back every cell that
\* was pushed, NULLs included (codec.rs decode, array.rs).
RoundTrips ==
    /\ ViewsAreAligned
    /\ pc = "done" =>
        LET read == Decode(out)
        IN /\ read.status = "ok"
           /\ Len(read.columns) = Len(batch)
           /\ \A i \in DOMAIN batch :
                LET rows == Rows(batch[i])
                IN /\ read.columns[i] = Finish(batch[i])
                   /\ \A r \in DOMAIN rows : Cell(read.columns[i], r - 1) = rows[r]

\* A buffer cut short is refused with an error, or lacks nothing but padding:
\* the decoder never reads rows that are not there (codec.rs decode, slice).
PrefixesAreRefused ==
    pc = "done" => \A n \in 0..(Len(out) - 1) :
        LET read == Decode(SubSeq(out, 1, n))
        IN read.status = "error" \/ read = Decode(out)

=============================================================================
