----------------------------- MODULE CsvPlugin ------------------------------
(***************************************************************************)
(* The plugins for CSV files, with and without positional maps, and the    *)
(* conversion of digits they share with the JSON plugins.  A file is the   *)
(* sequence of its characters, a position counts from zero.                *)
(***************************************************************************)
EXTENDS Integers, Sequences, FiniteSetsExt, SequencesExt

CONSTANTS IntBits,    \* the width of an int
          delimInner, stringBrackets,
          ShortBits,  \* the width of a short: an offset in a line
          Dates       \* what parseDate reads: the texts and their milliseconds

(***************************************************************************)
(* The conversion of digits to integers that the plugins generate in line  *)
(* (atois.cpp): one unrolled sum for every length of one to ten characters,*)
(* in the width of an int, and a switch on the length.  A character is its *)
(* code.  The sums are taken without looking at the characters: whatever   *)
(* is not a digit counts as its distance from '0'.                         *)
(***************************************************************************)

Signed(x, bits) == ((x + 2^(bits - 1)) % 2^bits) - 2^(bits - 1)

Ok(v) == [err |-> "none", v |-> v]
Err(e) == [err |-> e, v |-> 0]

\* The sum so far, and one more character.
Push(n, c) == Signed(10 * n + (c - 48), IntBits)

atoi1(b) == Push(0, b[1])
atoi2(b) == Push(atoi1(b), b[2])
atoi3(b) == Push(atoi2(b), b[3])
atoi4(b) == Push(atoi3(b), b[4])
atoi5(b) == Push(atoi4(b), b[5])
atoi6(b) == Push(atoi5(b), b[6])
atoi7(b) == Push(atoi6(b), b[7])
atoi8(b) == Push(atoi7(b), b[8])
atoi9(b) == Push(atoi8(b), b[9])
atoi10(b) == Push(atoi9(b), b[10])

\* No characters, or more than ten, end the process.
atois(b) ==
  CASE Len(b) = 1 -> Ok(atoi1(b)) [] Len(b) = 2 -> Ok(atoi2(b))
    [] Len(b) = 3 -> Ok(atoi3(b)) [] Len(b) = 4 -> Ok(atoi4(b))
    [] Len(b) = 5 -> Ok(atoi5(b)) [] Len(b) = 6 -> Ok(atoi6(b))
    [] Len(b) = 7 -> Ok(atoi7(b)) [] Len(b) = 8 -> Ok(atoi8(b))
    [] Len(b) = 9 -> Ok(atoi9(b)) [] Len(b) = 10 -> Ok(atoi10(b))
    [] OTHER -> Err("trap")

(***************************************************************************)
(* The CSV plugin with positional maps (csv-plugin-pm.cpp).  A file is the *)
(* sequence of its characters, a position counts from zero.  The first     *)
(* plugin on a file scans it raw and notes where every line and every      *)
(* policy-th field of it begins; the next one finds the notes, by the name *)
(* of the file, in the caching service and jumps to the closest field of   *)
(* them, from which it moves over delimiters forwards or backwards.        *)
(***************************************************************************)

delimEnd == 10

\* Positions that are none: outside of the mapping, or never stored.
Beyond == -1
Unset == -2
Fault(p) == IF p = Unset THEN "unset" ELSE "beyond"

At(f, p) == IF p < Len(f) THEN f[p + 1] ELSE 0

\* One past the next delimiter; the loop has no other end.
skipDelimLLVM(f, p, delim) ==
  IF p < 0 THEN p
  ELSE LET hits == {q \in p .. Len(f) - 1 : At(f, q) = delim}
       IN  IF hits = {} THEN Beyond ELSE Min(hits) + 1

\* Mutant: it meets the delimiter it came from.
skipDelimBackwardsNear(f, p, delim) ==
  IF p < 0 THEN p
  ELSE LET hits == {q \in 0 .. p - 1 : At(f, q) = delim}
       IN  IF hits = {} THEN Beyond ELSE Max(hits) + 1

\* p is one past a delimiter: to the begin of the field before that one.
skipDelimBackwardsLLVM(f, p, delim) ==
  IF p < 0 THEN p
  ELSE LET hits == {q \in 0 .. p - 2 : At(f, q) = delim}
       IN  IF hits = {} THEN Beyond ELSE Max(hits) + 1

getFieldEndLLVM(f, p) ==
  IF p >= Len(f) THEN p
  ELSE Min({q \in p .. Len(f) : q = Len(f) \/ At(f, q) \in {delimInner, delimEnd}})

skipLLVM(f, p) == getFieldEndLLVM(f, p) + 1

---------------------------------------------------------------------------
(* Conversions *)

Text(f, p) == SubSeq(f, p + 1, getFieldEndLLVM(f, p))

TrueTexts == {<<116, 114, 117, 101>>, <<84, 82, 85, 69>>, <<49>>}
FalseTexts == {<<102, 97, 108, 115, 101>>, <<70, 65, 76, 83, 69>>, <<48>>}
convertBoolean64(b) ==
  CASE b \in TrueTexts -> Ok(1) [] b \in FalseTexts -> Ok(0) [] OTHER -> Err("throw")

\* atof of the C library, of a number without a fraction: blanks and line ends
\* before it are skipped, and it ends where its digits do.
Blank == {9, 10, 13, 32}
Digits == 48 .. 57
Decimal(b) == FoldLeft(LAMBDA n, c : 10 * n + (c - 48), 0, b)
atof(f, p) ==
  LET b == Min({q \in p .. Len(f) : At(f, q) \notin Blank})
      s == IF At(f, b) = 45 THEN b + 1 ELSE b
      e == Min({q \in s .. Len(f) + 1 : At(f, q) \notin Digits})
  IN  (IF s = b THEN 1 ELSE -1) * Decimal(SubSeq(f, s + 1, e))

\* An empty date is a null, but it is parsed before it is looked at.
parseDate(b) == IF b \in DOMAIN Dates THEN Ok(Dates[b]) ELSE Err("abort")

readAsIntLLVM(f, p) == atois(Text(f, p))
readAsStringLLVM(f, p) ==
  IF stringBrackets
  THEN IF Len(Text(f, p)) < 2 THEN Err("length") ELSE Ok(Tail(Front(Text(f, p))))
  ELSE Ok(Text(f, p))
readAsBooleanLLVM(f, p) == convertBoolean64(Text(f, p))
readAsFloatLLVM(f, p) == Ok(atof(f, p))
readAsDateLLVM(f, p) == parseDate(Text(f, p))

readField(id, f, p) ==
  CASE p < 0 -> Err(Fault(p))
    [] id = "BOOL" -> readAsBooleanLLVM(f, p)
    [] id = "STRING" -> readAsStringLLVM(f, p)
    [] id = "FLOAT" -> readAsFloatLLVM(f, p)
    [] id = "INT" -> readAsIntLLVM(f, p)
    [] id = "DATE" -> readAsDateLLVM(f, p)
    [] OTHER -> Err("throw")

---------------------------------------------------------------------------
(* A tuple being read: where the scan is, what it still wants, what it has *)
(* read, and the offsets it noted.  rec gives the type of every field,     *)
(* which are numbered from one.                                            *)

Tuple(p, wanted, pmFieldsNo) ==
  [pos |-> p, newline |-> p, wanted |-> wanted, pmFieldsNo |-> pmFieldsNo,
   lastFieldNo |-> 0, offsets |-> <<>>, values |-> <<>>, curr |-> 0,
   done |-> FALSE, err |-> "none"]

Failed(t, e) == [t EXCEPT !.err = e, !.done = TRUE]
Moved(t, p) == IF p < 0 THEN Failed(t, Fault(p)) ELSE [t EXCEPT !.pos = p]
\* The conversions leave the scan one past the delimiter of the field.
Valued(t, f, r) ==
  IF r.err # "none" THEN Failed(t, r.err)
  ELSE [t EXCEPT !.values = Append(@, r.v), !.pos = skipLLVM(f, t.pos)]

\* The offset of every policy-th field goes to the next column of the row.
noteOffset(t, i) ==
  IF i - 1 \notin t.pmFieldsNo THEN t
  ELSE [t EXCEPT !.offsets = Append(@, Signed(t.pos - t.newline, ShortBits)),
                 !.pmFieldsNo = @ \ {i - 1}]

\* The iterator of the erased element stands on the element after it, or, at
\* the end, on the slot the element itself still occupies.
eraseWanted(t, i) ==
  LET k == CHOOSE j \in DOMAIN t.wanted : t.wanted[j] = i
  IN  [t EXCEPT !.wanted = RemoveAt(@, k),
                !.lastFieldNo = IF k < Len(t.wanted) THEN t.wanted[k + 1] ELSE i]

fieldValue(t, rec, f, i) ==
  IF \E j \in DOMAIN t.wanted : t.wanted[j] = i
  THEN eraseWanted(Valued(t, f, readField(rec[i], f, t.pos)), i)
  ELSE Moved(t, skipDelimLLVM(f, t.pos, IF i # Len(rec) THEN delimInner ELSE delimEnd))

considerField(t, rec, f, i) ==
  CASE t.done -> t
    [] ~t.done /\ t.pmFieldsNo = {} /\ t.wanted = <<>> /\ t.lastFieldNo < Len(rec) ->
         [Moved(t, skipDelimLLVM(f, t.pos, delimEnd)) EXCEPT !.done = TRUE]
    [] OTHER -> fieldValue(noteOffset(t, i), rec, f, i)

Upto(n) == [i \in 1 .. n |-> i]

rawTuple(rec, f, p, wanted, policy) ==
  FoldLeft(LAMBDA t, i : considerField(t, rec, f, i),
           Tuple(p, wanted, {k * policy : k \in 1 .. Len(rec) \div policy}), Upto(Len(rec)))

---------------------------------------------------------------------------
(* The positional map: lines * width shorts in one allocation, of which a  *)
(* row begins at every width-th.  A plugin is                              *)
(* [rec, wanted, policy, lines, width, header, hasPM, err].                *)

EmptyPM == [newlines |-> <<>>, cells |-> <<>>, overflow |-> FALSE]

storeRow(pm, pg, t) ==
  LET line == Len(pm.newlines)
      at(c) == line * pg.width + c - 1
  IN  [newlines |-> Append(pm.newlines, t.newline),
       cells |-> [k \in {at(c) : c \in DOMAIN t.offsets} |-> t.offsets[k - at(1) + 1]] @@ pm.cells,
       overflow |-> \/ pm.overflow \/ line >= pg.lines
                    \/ \E c \in DOMAIN t.offsets : at(c) >= pg.lines * pg.width]

RECURSIVE scanAndPopulatePM(_, _, _, _, _)
scanAndPopulatePM(pg, f, p, rows, pm) ==
  CASE p < 0 -> [err |-> Fault(p), rows |-> rows, pm |-> pm]
    [] p >= Len(f) -> [err |-> "none", rows |-> rows, pm |-> pm]
    [] OTHER ->
         LET empty == At(f, p) \in {delimEnd, 13}
             t == IF empty THEN Tuple(skipDelimLLVM(f, p, delimEnd), <<>>, {})
                  ELSE rawTuple(pg.rec, f, p, pg.wanted, pg.policy)
         IN  IF t.err # "none" THEN [err |-> t.err, rows |-> rows, pm |-> pm]
             ELSE scanAndPopulatePM(pg, f, t.pos,
                    IF empty THEN rows ELSE Append(rows, t.values),
                    IF empty THEN pm ELSE storeRow(pm, pg, t))

RECURSIVE skipFields(_, _, _)
skipFields(f, p, n) ==
  IF n <= 0 THEN p ELSE skipFields(f, skipDelimLLVM(f, p, delimInner), n - 1)

RECURSIVE skipFieldsBack(_, _, _)
skipFieldsBack(f, p, n) ==
  IF n <= 0 THEN p ELSE skipFieldsBack(f, skipDelimBackwardsLLVM(f, p, delimInner), n - 1)

pmPosition(pg, pm, t, line, column) ==
  LET k == line * pg.width + column
  IN  IF k \in DOMAIN pm.cells THEN t.newline + pm.cells[k] ELSE Unset

\* To a field from the current one, from the noted one before it, or from the
\* noted one after it: the nearest.
seekField(pg, f, pm, t, line, needed) ==
  LET before == needed % pg.policy
      after == pg.policy - (needed % pg.policy)
      dist == needed - t.curr
  IN  CASE dist <= before /\ dist <= after -> skipFields(f, t.pos, dist)
        [] ~(dist <= before /\ dist <= after) /\ before <= after ->
             skipFields(f, pmPosition(pg, pm, t, line, needed \div pg.policy - 1), before)
        [] OTHER ->
             skipFieldsBack(f, pmPosition(pg, pm, t, line, needed \div pg.policy), after)

\* fields is what the caching service has of the fields.  One is taken from there if
\* it is there of every line and is not the first of the structure, the identifier.
inCache(fields, attr) ==
  attr \in DOMAIN fields /\ fields[attr].isFull /\ fields[attr].structFieldNo # 0

\* A field from the cache leaves the scan, and the field it is at, as they are.
pmField(pg, f, pm, fields, t, line, attr) ==
  IF ~t.done /\ inCache(fields, attr)
  THEN [t EXCEPT !.values = Append(@, fields[attr].payload[line + 1])]
  ELSE LET u == Moved(t, seekField(pg, f, pm, t, line, attr - 1))
       IN  IF t.done \/ u.done THEN u
           ELSE [Valued(u, f, readField(pg.rec[attr], f, u.pos)) EXCEPT !.curr = attr]

pmTuple(pg, f, pm, fields, line) ==
  FoldLeft(LAMBDA t, a : pmField(pg, f, pm, fields, t, line, a),
           Tuple(pm.newlines[line + 1], <<>>, {}), pg.wanted)

\* As many lines as the plugin was told that there are.
RECURSIVE scanPM(_, _, _, _, _, _)
scanPM(pg, f, line, rows, pm, fields) ==
  CASE line >= pg.lines -> [err |-> "none", rows |-> rows, pm |-> pm]
    [] line < pg.lines /\ line >= Len(pm.newlines) -> [err |-> "unset", rows |-> rows, pm |-> pm]
    [] OTHER ->
         LET t == pmTuple(pg, f, pm, fields, line)
         IN  IF t.err # "none" THEN [err |-> t.err, rows |-> rows, pm |-> pm]
             ELSE scanPM(pg, f, line + 1, Append(rows, t.values), pm, fields)

---------------------------------------------------------------------------
(* The life of a plugin.  cache is what the caching service knows of the   *)
(* file: a set of at most one map, which is registered as it is allocated. *)

Pg(rec, wanted, lines, policy, width, header, cache) ==
  [rec |-> rec, wanted |-> wanted, policy |-> policy, lines |-> lines, width |-> width,
   header |-> header, hasPM |-> cache # {},
   err |-> IF cache = {} /\ width < 0 THEN "throw" ELSE "none"]

\* The constructor without a delimiter gives a row one column less; it keeps
\* the fields in the order of their addresses.
CSVPlugin(rec, wanted, lines, policy, cache) ==
  Pg(rec, wanted, lines, policy, (Len(rec) \div policy) - 1, FALSE, cache)

\* The constructor with a delimiter orders the fields.
orderByNumber(a, b) == a < b
CSVPluginDelim(rec, wanted, lines, policy, header, cache) ==
  Pg(rec, SortSeq(wanted, orderByNumber), lines, policy, Len(rec) \div policy, header, cache)

registered(cache) == IF cache = {} THEN {EmptyPM} ELSE cache

init(pg, f) == IF pg.header THEN skipDelimLLVM(f, 0, delimEnd) ELSE 0

generate(pg, f, cache, fields) ==
  LET pm == CHOOSE m \in cache : TRUE
  IN  IF ~pg.hasPM THEN scanAndPopulatePM(pg, f, init(pg, f), <<>>, pm)
      ELSE scanPM(pg, f, 0, <<>>, pm, fields)

(***************************************************************************)
(* The CSV plugin without positional maps (csv-plugin.cpp): it reads the   *)
(* wanted fields of every line in the order they are given, and moves to   *)
(* the end of the line after the last of them.                             *)
(***************************************************************************)

\* The end of a field: ';' or the end of the line, or the end of the file.
plain_getFieldEndLLVM(f, p) ==
  IF p >= Len(f) THEN p
  ELSE Min({q \in p .. Len(f) : q = Len(f) \/ f[q + 1] \in {59, 10}})

plain_skipLLVM(f, p) == plain_getFieldEndLLVM(f, p) + 1

plain_skipDelimLLVM(f, p, delim) ==
  IF p < 0 THEN p
  ELSE LET hits == {q \in p .. Len(f) - 1 : f[q + 1] = delim}
       IN  IF hits = {} THEN -1 ELSE Min(hits) + 1

plain_Text(f, p) == SubSeq(f, p + 1, plain_getFieldEndLLVM(f, p))
plain_readAsIntLLVM(f, p) == atois(plain_Text(f, p))
plain_readAsBooleanLLVM(f, p) == convertBoolean64(plain_Text(f, p))
plain_readAsFloatLLVM(f, p) == Ok(atof(f, p))

readWanted(id, f, p) ==
  CASE p < 0 -> Err("beyond")
    [] id = "BOOL" -> plain_readAsBooleanLLVM(f, p)
    [] id = "FLOAT" -> plain_readAsFloatLLVM(f, p)
    [] id = "INT" -> plain_readAsIntLLVM(f, p)
    [] OTHER -> Err("throw")

RECURSIVE skipColumns(_, _, _)
skipColumns(f, p, n) ==
  IF n <= 0 THEN p ELSE skipColumns(f, plain_skipDelimLLVM(f, p, 59), n - 1)

\* t: where the scan is, the column it is at, what it read.
wantedField(t, rec, f, attr) ==
  LET p == skipColumns(f, t.pos, attr - 1 - t.cur_col)
      r == readWanted(rec[attr], f, p)
  IN  IF t.err # "none" THEN t
      ELSE IF r.err # "none" THEN [t EXCEPT !.err = r.err]
      ELSE [t EXCEPT !.pos = plain_skipLLVM(f, p), !.values = Append(@, r.v), !.lastFieldNo = attr,
                     !.cur_col = (IF attr - 1 > @ THEN attr - 1 ELSE @) + 1]

restOfLine(t, rec, f) ==
  IF t.err = "none" /\ t.lastFieldNo < Len(rec)
  THEN LET p == plain_skipDelimLLVM(f, t.pos, 10)
       IN  [t EXCEPT !.pos = p, !.err = IF p < 0 THEN "beyond" ELSE "none"]
  ELSE t

RECURSIVE scanCSV(_, _, _, _, _)
scanCSV(rec, wanted, f, p, rows) ==
  IF p >= Len(f) THEN [err |-> "none", rows |-> rows]
  ELSE LET t == restOfLine(
                  FoldLeft(LAMBDA u, a : wantedField(u, rec, f, a),
                    [pos |-> p, cur_col |-> 0, lastFieldNo |-> -1, values |-> <<>>, err |-> "none"],
                    wanted), rec, f)
       IN  IF t.err # "none" THEN [err |-> t.err, rows |-> rows]
           ELSE scanCSV(rec, wanted, f, t.pos, Append(rows, t.values))
=============================================================================
