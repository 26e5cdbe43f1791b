--------------------------- MODULE BinaryPlugins ----------------------------
(***************************************************************************)
(* The plugins for binary files, by rows, by columns and by blocks, for    *)
(* what an operator has kept, and what operators keep of a tuple.          *)
(***************************************************************************)
EXTENDS Integers, Sequences, FiniteSetsExt, SequencesExt

\* What a byte after the end of a file is.
CONSTANT Beyond

(***************************************************************************)
(* The plugin for binary files of rows (binary-row-plugin.cpp).  A file is *)
(* the sequence of its bytes; the fields of a row follow one another.  A   *)
(* value is the bytes it is read from.                                     *)
(***************************************************************************)

\* What the schema says a field occupies.
Width == [BOOL |-> 1, STRING |-> 5, FLOAT |-> 4, INT |-> 4]

Bytes(f, p, n) == [k \in 1 .. n |-> IF p + k <= Len(f) THEN f[p + k] ELSE Beyond]

row_skipLLVM(pos, offset) == pos + offset

row_readAsIntLLVM(f, p) == Bytes(f, p, 4)
row_readAsStringLLVM(f, p) == Bytes(f, p, 5)
row_readAsBooleanLLVM(f, p) == Bytes(f, p, 1)
\* A float is stored, a double is loaded.
row_readAsFloatLLVM(f, p) == Bytes(f, p, 8)

row_readAs(type, f, p) ==
  CASE type = "INT" -> row_readAsIntLLVM(f, p)
    [] type = "STRING" -> row_readAsStringLLVM(f, p)
    [] type = "BOOL" -> row_readAsBooleanLLVM(f, p)
    [] type = "FLOAT" -> row_readAsFloatLLVM(f, p)

\* The bytes of the fields from the i-th to the one before the j-th.
fieldsWidth(rec, i, j) == FoldLeft(LAMBDA n, t : n + Width[t], 0, SubSeq(rec, i, j - 1))

\* t: where the scan is, the bytes it has still to pass, the field of the
\* schema it is at, what it read.  The schema is only gone through forwards.
wantedField(t, rec, f, attr) ==
  LET p == row_skipLLVM(t.pos, t.offset + fieldsWidth(rec, t.schema, attr))
  IN  [pos |-> p, offset |-> Width[rec[attr]], schema |-> Max({t.schema, attr}) + 1,
       values |-> Append(t.values, row_readAs(rec[attr], f, p))]

restOfRow(t, rec) == row_skipLLVM(t.pos, t.offset + fieldsWidth(rec, t.schema, Len(rec) + 1))

\* The row is handed on with the position of the next one as its identity.
RECURSIVE scanRows(_, _, _, _, _)
scanRows(rec, wanted, f, pos, rows) ==
  IF pos >= Len(f) THEN rows
  ELSE LET t == FoldLeft(LAMBDA s, a : wantedField(s, rec, f, a),
                         [pos |-> pos, offset |-> 0, schema |-> 1, values |-> <<>>], wanted)
       IN  scanRows(rec, wanted, f, restOfRow(t, rec),
                    Append(rows, [oid |-> restOfRow(t, rec), values |-> t.values]))

row_generate(rec, wanted, f) == scanRows(rec, wanted, f, 0, <<>>)

(***************************************************************************)
(* The plugin for binary files of one column each (binary-col-plugin.cpp). *)
(* A file is the sequence of its bytes; with sizeInFile it begins with the *)
(* number of the values in it.  The first wanted column says how many rows *)
(* there are.  A value is the bytes it is read from.                       *)
(***************************************************************************)

SizeOf == [BOOL |-> 1, INT |-> 4, STRING |-> 4, FLOAT |-> 8, INT64 |-> 8]
Header == 8

\* The bytes of a value, from the array the buffer was cast to; of a string,
\* its code in the dictionary.
col_readAsIntLLVM(f, base, pos) == Bytes(f, base + 4 * pos, 4)
readAsInt64LLVM(f, base, pos) == Bytes(f, base + 8 * pos, 8)
col_readAsStringLLVM(f, base, pos) == col_readAsIntLLVM(f, base, pos)
col_readAsBooleanLLVM(f, base, pos) == Bytes(f, base + pos, 1)
col_readAsFloatLLVM(f, base, pos) == Bytes(f, base + 8 * pos, 8)

col_readAs(type, f, base, pos) ==
  CASE type = "INT" -> col_readAsIntLLVM(f, base, pos)
    [] type = "INT64" -> readAsInt64LLVM(f, base, pos)
    [] type = "STRING" -> col_readAsStringLLVM(f, base, pos)
    [] type = "BOOL" -> col_readAsBooleanLLVM(f, base, pos)
    [] type = "FLOAT" -> col_readAsFloatLLVM(f, base, pos)

\* Where the values begin; the buffer of booleans is left as it was.
prepareArray(type, sizeInFile) == IF sizeInFile /\ type # "BOOL" THEN Header ELSE 0

\* cols are the wanted columns: [type, file, count], count being what the
\* header of the file says.
init(cols, sizeInFile) ==
  [size |-> IF sizeInFile THEN cols[1].count ELSE Len(cols[1].file) \div SizeOf[cols[1].type],
   base |-> [c \in DOMAIN cols |-> prepareArray(cols[c].type, sizeInFile)],
   pos |-> [c \in DOMAIN cols |-> 0],
   itemCtr |-> 0]

col_skipLLVM(s, c, offset) == [s EXCEPT !.pos[c] = @ + offset]
col_nextEntry(s) == [s EXCEPT !.itemCtr = @ + 1]

\* A row is handed on after the counter has moved: identities start from one.
RECURSIVE scanFrom(_, _, _)
scanFrom(cols, s, rows) ==
  IF s.itemCtr >= s.size THEN rows
  ELSE LET values == [c \in DOMAIN cols |-> col_readAs(cols[c].type, cols[c].file, s.base[c], s.pos[c])]
           moved == col_nextEntry(FoldLeft(LAMBDA u, c : col_skipLLVM(u, c, 1), s, [c \in DOMAIN cols |-> c]))
       IN  scanFrom(cols, moved, Append(rows, [oid |-> moved.itemCtr, values |-> values]))

col_scan(cols, sizeInFile) == scanFrom(cols, init(cols, sizeInFile), <<>>)

\* What is cached is found by the identity of the row.
readCachedValue(cached, oid) == cached[oid - 1 + 1]

(***************************************************************************)
(* The plugin for binary columns that are read a block at a time           *)
(* (binary-block-plugin.cpp).  A column is a file of as many segments as   *)
(* every other; a partition is the segments of one number.  The scan takes *)
(* a block of the first partition, one of the second, and so on, and then  *)
(* the next of the first.  What is written goes to one file per attribute. *)
(***************************************************************************)

---------------------------------------------------------------------------
(* Files: columns are [size, segments, pinned], a segment is its number of *)
(* bytes.                                                                  *)

loadData(cols) == [Nparts |-> Len(cols[1].segments), cols |-> cols, err |-> "none"]

pin(pg, i) == [pg EXCEPT !.cols[i].pinned = TRUE]
unpin(pg, i) == [pg EXCEPT !.cols[i].pinned = FALSE]

getDataForField(pg, i) ==
  IF Len(pg.cols[i].segments) # pg.Nparts THEN [pin(pg, i) EXCEPT !.err = "throw"] ELSE pin(pg, i)
freeDataForField(pg, i) == IF pg.cols[i].pinned THEN unpin(pg, i) ELSE [pg EXCEPT !.err = "assert"]

\* The first column says how many tuples a partition has.
getTuplesPerPartition(pg) ==
  [p \in 1 .. pg.Nparts |-> pg.cols[1].segments[p] \div pg.cols[1].size]
getPartitionSizes(pg) == Max({0} \cup {getTuplesPerPartition(pg)[p] : p \in 1 .. pg.Nparts})

---------------------------------------------------------------------------
(* The scan: part_i counts from zero, block_i is a tuple of a partition.   *)

nextEntry(s, Nparts, blockSize) ==
  LET part == IF s.part_i < Nparts - 1 THEN s.part_i + 1 ELSE 0
      block == IF s.part_i < Nparts - 1 THEN s.block_i ELSE s.block_i + blockSize
  IN  [part_i |-> part, block_i |-> block, itemCtr |-> block * Nparts + part * blockSize]

RECURSIVE scanBlocks(_, _, _, _)
scanBlocks(pg, blockSize, s, blocks) ==
  IF s.block_i >= getPartitionSizes(pg) THEN blocks
  ELSE LET tupleCnt == getTuplesPerPartition(pg)[s.part_i + 1]
           blockN == Min({blockSize, tupleCnt - s.block_i})
       IN  scanBlocks(pg, blockSize, nextEntry(s, pg.Nparts, blockSize),
             IF s.block_i < tupleCnt
             THEN Append(blocks, [oid |-> s.itemCtr, part |-> s.part_i, at |-> s.block_i, n |-> blockN])
             ELSE blocks)

allFields(pg) == [i \in DOMAIN pg.cols |-> i]

\* A block has as many tuples as fit a block of the memory if they are those
\* of the widest column.
scan(pg, block_size) ==
  LET got == FoldLeft(getDataForField, pg, allFields(pg))
      blockSize == block_size \div Max({pg.cols[i].size : i \in DOMAIN pg.cols})
  IN  IF got.err # "none" THEN [blocks |-> <<>>, pg |-> got]
      ELSE [blocks |-> scanBlocks(got, blockSize, [part_i |-> 0, block_i |-> 0, itemCtr |-> 0], <<>>),
            pg |-> FoldLeft(freeDataForField, got, allFields(pg))]

\* The tuples of a block, by a thread that begins at offset and moves by step.
RECURSIVE forEachInCollection(_, _, _)
forEachInCollection(offset, step, size) ==
  IF offset >= size THEN <<>> ELSE <<offset>> \o forEachInCollection(offset + step, step, size)

---------------------------------------------------------------------------
(* Output.  A type is <<"RECORD", fields>>, each <<name, type>>, or the    *)
(* name of another; a value of a record is the sequence of its fields'.    *)

Unwritable == {"SET", "COMPOSITE", "BLOCK", "LIST", "BAG"}

\* A path is [relative, parts]; the file has the name of the directory it is
\* in, for a relative path all of it.  An attribute's name is added to it.
normalizeOutputPath(file) ==
  [dir |-> file.parts, name |-> IF file.relative THEN file.parts ELSE <<Last(file.parts)>>, attrs |-> <<>>]
ofAttr(path, attr) == [path EXCEPT !.attrs = Append(@, attr)]

\* The files written to, in order, and what is appended to each.
RECURSIVE flushValueInternal(_, _, _)
flushValueInternal(v, type, file) ==
  IF type[1] # "RECORD"
  THEN IF type[1] \in Unwritable THEN <<<<"throw", file>>>> ELSE <<<<v, file>>>>
  ELSE FlattenSeq([i \in DOMAIN type[2] |->
         flushValueInternal(v[i], type[2][i][2], ofAttr(file, type[2][i][1]))])

flushValue(v, type, file) == flushValueInternal(v, type, normalizeOutputPath(file))

\* The files that are written out at the end of the query.
RECURSIVE flushOutputInternal(_, _)
flushOutputInternal(type, file) ==
  IF type[1] # "RECORD" THEN <<file>>
  ELSE FlattenSeq([i \in DOMAIN type[2] |->
         flushOutputInternal(type[2][i][2], ofAttr(file, type[2][i][1]))])

flushOutput(type, file) == flushOutputInternal(type, normalizeOutputPath(file))

(***************************************************************************)
(* The plugin that scans what an operator has kept as an array of          *)
(* structures (binary-internal-plugin.cpp): the identifiers of a tuple and *)
(* then its fields, by their places in the structure.                      *)
(***************************************************************************)

Unbuffered == [err |-> "none", buffer |-> <<>>, hasBuffer |-> FALSE, entriesNo |-> 0, OIDs |-> <<>>, fields |-> <<>>]

\* info: the entries of the cache and how many of them there are.
BinaryInternalPlugin(wantedOIDs, wantedFields, info) ==
  IF Len(wantedOIDs) + Len(wantedFields) <= 0 THEN [Unbuffered EXCEPT !.err = "throw"]
  ELSE [err |-> "none", buffer |-> info.payload, hasBuffer |-> TRUE, entriesNo |-> info.itemCount,
        OIDs |-> wantedOIDs, fields |-> wantedFields]

\* The bindings of an entry: the members of the structure, in their order.
bindings(pg, entry) ==
  [posInStruct \in 1 .. Len(pg.OIDs) + Len(pg.fields) |->
     <<(pg.OIDs \o pg.fields)[posInStruct], entry[posInStruct]>>]

RECURSIVE scanStruct(_, _, _)
scanStruct(pg, cnt, rows) ==
  IF cnt >= pg.entriesNo THEN rows
  ELSE scanStruct(pg, cnt + 1, Append(rows, bindings(pg, pg.buffer[cnt + 1])))

internal_generate(pg) ==
  IF ~pg.hasBuffer THEN [err |-> "throw", rows |-> <<>>]
  ELSE [err |-> "none", rows |-> scanStruct(pg, 0, <<>>)]

(***************************************************************************)
(* What joins and nests keep of a tuple (plugins-output.cpp): a structure  *)
(* of its identifiers and its wanted fields.  The structure is laid out by *)
(* the compiler; what is copied of it into a hash table is as many bytes   *)
(* as the primitive sizes of its fields add up to.                         *)
(***************************************************************************)

Primitives == {"BOOL", "STRING", "DSTRING", "DATE", "FLOAT", "INT64", "INT"}

\* Bits of the type if it is primitive; bytes it is stored in and aligned to.
PrimitiveSizeInBits ==
  [BOOL |-> 1, STRING |-> 0, DSTRING |-> 32, DATE |-> 64, FLOAT |-> 64, INT64 |-> 64, INT |-> 32]
AllocSize ==
  [BOOL |-> 1, STRING |-> 16, DSTRING |-> 4, DATE |-> 8, FLOAT |-> 8, INT64 |-> 8, INT |-> 4]
Align == [AllocSize EXCEPT !["STRING"] = 8]

\* Attributes are [type, isOid]: identifiers first.
Materializer(wantedExpressions) ==
  [wantedOIDs |-> SelectSeq(wantedExpressions, LAMBDA e : e.isOid),
   wantedFields |-> SelectSeq(wantedExpressions, LAMBDA e : ~e.isOid),
   outputMode |-> [i \in DOMAIN wantedExpressions |-> "EAGER"]]

chooseType(type, mode) == IF type \in Primitives /\ mode \in {"EAGER", "BINARY"} THEN type ELSE "throw"

OutputPlugin(mat) ==
  LET oids == [i \in DOMAIN mat.wantedOIDs |-> mat.wantedOIDs[i].type]
      fields == [i \in DOMAIN mat.wantedFields |->
                   chooseType(mat.wantedFields[i].type, mat.outputMode[i])]
      types == oids \o fields
      SizeIn(ts) == FoldLeft(LAMBDA n, t : n + PrimitiveSizeInBits[t] \div 8, 0, ts)
  IN  IF "throw" \in ToSet(fields) THEN [err |-> "throw"]
      ELSE [err |-> "none", materializedTypes |-> types, payloadTypeSize |-> SizeIn(types),
            identifiersTypeSize |-> SizeIn(oids),
            isComplex |-> Len(fields) > 0 /\ Last(fields) \notin {"BOOL", "INT", "FLOAT"}]

\* Where the compiler puts the i-th member of a structure.
RECURSIVE Offset(_, _)
Offset(types, i) ==
  IF i = 1 THEN 0
  ELSE LET end == Offset(types, i - 1) + AllocSize[types[i - 1]]
           a == Align[types[i]]
       IN  ((end + a - 1) \div a) * a

\* The members of which every byte is in the copy of type_size bytes.
insertToHT(types, type_size) ==
  {i \in DOMAIN types : Offset(types, i) + AllocSize[types[i]] <= type_size}
=============================================================================
