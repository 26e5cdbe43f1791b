----------------------------- MODULE JsonPlugin -----------------------------
(***************************************************************************)
(* The plugins for JSON files and their tokeniser.                         *)
(***************************************************************************)
EXTENDS Integers, Sequences, FiniteSetsExt, SequencesExt

CONSTANTS MAXTOKENS,  \* the tokens of a line before they are moved
          IntBits     \* the width of an int

C == INSTANCE CsvPlugin WITH delimInner <- 59, stringBrackets <- FALSE,
                             ShortBits <- 16, Dates <- <<>>

(***************************************************************************)
(* The tokeniser of the JSON plugins (jsmn.c).  A text is the sequence of  *)
(* its characters, positions and tokens count from zero.  The tokens of a  *)
(* text are in the order in which their values begin; a token knows the    *)
(* positions it spans and, if it is an object or an array, how many tokens *)
(* are directly in it: a key of an object counts as much as its value.     *)
(***************************************************************************)

Token(type, start, end) == [type |-> type, start |-> start, end |-> end, size |-> 0]

\* tokens are those that were handed out; the array has cap of them, and those
\* that were not are zero.
jsmn_init == [pos |-> 0, tokens |-> <<>>, toksuper |-> -1, cap |-> MAXTOKENS, err |-> "none"]

\* A full array is copied into one of twice its size.
jsmn_alloc_token(p, token) ==
  [p EXCEPT !.cap = IF Len(p.tokens) >= @ THEN 2 * @ ELSE @, !.tokens = Append(@, token)]

Counted(p) ==
  IF p.toksuper = -1 THEN p ELSE [p EXCEPT !.tokens[p.toksuper + 1].size = @ + 1]
Invalid(p, err) == [p EXCEPT !.err = err]

Space == {9, 10, 13, 32}
AfterPrimitive == Space \cup {58, 44, 93, 125}

jsmn_parse_primitive(p, js) ==
  LET end == Min({q \in p.pos .. Len(js) :
                    q = Len(js) \/ js[q + 1] \in AfterPrimitive \/ js[q + 1] \notin 32 .. 126})
  IN  IF end < Len(js) /\ js[end + 1] \notin AfterPrimitive THEN Invalid(p, "INVAL")
      ELSE [jsmn_alloc_token(p, Token("PRIMITIVE", p.pos, end)) EXCEPT !.pos = end]

Escaped == {34, 47, 92, 98, 102, 114, 110, 116}
Hex == (48 .. 57) \cup (65 .. 70) \cup (97 .. 102)

\* The quote that ends the string whose characters begin at q.
RECURSIVE closingQuote(_, _)
closingQuote(js, q) ==
  IF q >= Len(js) THEN -1
  ELSE CASE js[q + 1] = 34 -> q
         [] js[q + 1] \notin {34, 92} -> closingQuote(js, q + 1)
         [] js[q + 1] = 92 /\ q + 1 < Len(js) /\ js[q + 2] \in Escaped -> closingQuote(js, q + 2)
         [] js[q + 1] = 92 /\ q + 1 < Len(js) /\ js[q + 2] = 117 ->
              LET four == SubSeq(js, q + 3, Min({q + 6, Len(js)}))
              IN  IF \A i \in DOMAIN four : four[i] \in Hex THEN closingQuote(js, q + 2 + Len(four)) ELSE -2
         [] OTHER -> -2

jsmn_parse_string(p, js) ==
  LET q == closingQuote(js, p.pos + 1)
  IN  CASE q = -1 -> Invalid(p, "PART")
        [] q = -2 -> Invalid(p, "INVAL")
        [] OTHER -> [jsmn_alloc_token(p, Token("STRING", p.pos + 1, q)) EXCEPT !.pos = q + 1]

Opened(c) == IF c \in {123, 125} THEN "OBJECT" ELSE "ARRAY"
Unclosed(p) == {i \in 0 .. Len(p.tokens) - 1 : p.tokens[i + 1].end = -1}

openContainer(p, js) ==
  [jsmn_alloc_token(Counted(p), Token(Opened(js[p.pos + 1]), p.pos, -1)) EXCEPT
     !.toksuper = Len(p.tokens), !.pos = @ + 1]

\* The innermost container that is open ends, and the one around it goes on.
closeContainer(p, js) ==
  IF Unclosed(p) = {} \/ p.tokens[Max(Unclosed(p)) + 1].type # Opened(js[p.pos + 1])
  THEN Invalid(p, "INVAL")
  ELSE [p EXCEPT !.tokens[Max(Unclosed(p)) + 1].end = p.pos + 1,
                 !.toksuper = Max({-1} \cup (Unclosed(p) \ {Max(Unclosed(p))})),
                 !.pos = @ + 1]

parseNext(p, js) ==
  CASE js[p.pos + 1] \in {123, 91} -> openContainer(p, js)
    [] js[p.pos + 1] \in {125, 93} -> closeContainer(p, js)
    [] js[p.pos + 1] = 34 -> Counted(jsmn_parse_string(p, js))
    [] js[p.pos + 1] \in Space \cup {58, 44} -> [p EXCEPT !.pos = @ + 1]
    [] OTHER -> Counted(jsmn_parse_primitive(p, js))

RECURSIVE jsmn_parse(_, _)
jsmn_parse(p, js) ==
  CASE p.err # "none" -> p
    [] p.err = "none" /\ p.pos >= Len(js) -> IF Unclosed(p) # {} THEN Invalid(p, "PART") ELSE p
    [] OTHER -> jsmn_parse(parseNext(p, js), js)

\* The tokens of one line, or the query ends.
parseLineJSON(f, start, end) == jsmn_parse(jsmn_init, SubSeq(f, start + 1, end))

(***************************************************************************)
(* The JSON plugin (json-plugin.cpp): a file of one object per line.  The  *)
(* first plugin on a file tokenises its lines and keeps the tokens and the *)
(* line ends in the caching service; the next one uses them.  A value is   *)
(* known by its object id: where its line begins, which line it is, and    *)
(* which token of the line.  Generated code follows paths and unnests      *)
(* collections on the tokens alone.                                        *)
(***************************************************************************)

Zero == Token("UNDEFINED", 0, 0)

---------------------------------------------------------------------------
(* The life of a plugin: pm is what is known of the lines of the file.     *)

EmptyPM == [newlines |-> <<>>, rows |-> <<>>, overflow |-> FALSE]

JSONPlugin(lines, staticSchema, cache) ==
  [lines |-> lines, staticSchema |-> staticSchema, cache |-> cache # {}]

\* A line has the zero tokens it was created with until it is tokenised.
createPM == EmptyPM
reusePM(cache) == CHOOSE pm \in cache : TRUE
initPM(cache) == IF cache = {} THEN createPM ELSE reusePM(cache)

\* The end of the line that begins at p.
newline(f, p) ==
  LET hits == {q \in p .. Len(f) - 1 : f[q + 1] = 10}
  IN  IF hits = {} THEN -1 ELSE Min(hits) - p

oid(offset, row, tokenNo) == [offset |-> offset, row |-> row, tokenNo |-> tokenNo]

noteLine(pm, pg, relative, parsed) ==
  [newlines |-> Append(pm.newlines, relative), rows |-> Append(pm.rows, parsed),
   overflow |-> pm.overflow \/ Len(pm.rows) >= pg.lines]

\* Every object of the file is handed on; what was cached is not parsed again.
RECURSIVE scanObjects(_, _, _, _, _, _)
scanObjects(pg, f, offset, line, oids, pm) ==
  IF offset >= Len(f) THEN [err |-> "none", oids |-> oids, pm |-> pm]
  ELSE LET relative == IF pg.cache THEN pm.newlines[line + 1] ELSE newline(f, offset)
           parsed == IF pg.cache THEN pm.rows[line + 1] ELSE parseLineJSON(f, offset, offset + relative)
           noted == IF pg.cache THEN pm ELSE noteLine(pm, pg, relative, parsed)
       IN  CASE relative = -1 -> [err |-> "beyond", oids |-> oids, pm |-> pm]
             [] relative # -1 /\ parsed.err # "none" -> [err |-> "throw", oids |-> oids, pm |-> pm]
             [] OTHER -> scanObjects(pg, f, offset + relative + 1, line + 1,
                                     Append(oids, oid(offset, line, 0)), noted)

generate(pg, f, pm) == scanObjects(pg, f, 0, 0, <<>>, pm)

---------------------------------------------------------------------------
(* Paths and collections.  row is the parsed line.                         *)

\* The number of a token that depends on the memory beyond the array.
Anywhere == -2

\* A token beyond the array, where the generated code reads whatever is there; the
\* array has at least one token that is zero only if the line does not fill it.
Wild(row, i) == i = Anywhere \/ i >= row.cap

\* What is read as token i, which is not Wild.
TokenAt(row, i) == IF i < Len(row.tokens) THEN row.tokens[i + 1] ELSE Zero

Slice(f, id, t) == SubSeq(f, id.offset + t.start + 1, id.offset + t.end)

\* The object of the path: the key is sought two tokens and what is directly
\* in the value further on.
pathStep(row, i) == i + 2 + TokenAt(row, i + 1).size

RECURSIVE seekPath(_, _, _, _, _)
seekPath(f, row, id, i, path) ==
  IF Wild(row, i) \/ Wild(row, id.tokenNo) THEN Anywhere
  ELSE IF TokenAt(row, i).end > TokenAt(row, id.tokenNo).end THEN -1
  ELSE IF Slice(f, id, TokenAt(row, i)) = path THEN i + 1
  ELSE IF Wild(row, i + 1) THEN Anywhere
  ELSE seekPath(f, row, id, pathStep(row, i), path)

\* With a static schema the fields are taken by their numbers.
RECURSIVE seekAttr(_, _, _)
seekAttr(row, i, attrNo) ==
  IF attrNo <= 1 THEN i + 1
  ELSE IF Wild(row, i + 1) THEN Anywhere
  ELSE seekAttr(row, pathStep(row, i), attrNo - 1)

readPredefinedPath(row, id, attrNo) ==
  [id EXCEPT !.tokenNo = seekAttr(row, id.tokenNo + 1, attrNo)]

readPath(pg, f, row, id, path, attrNo) ==
  IF pg.staticSchema THEN readPredefinedPath(row, id, attrNo)
  ELSE [id EXCEPT !.tokenNo = seekPath(f, row, id, id.tokenNo + 1, path)]

initCollectionUnnest(id) == id.tokenNo + 1

\* The answers there may be.
collectionHasNext(row, id, i) ==
  IF Wild(row, i) \/ Wild(row, id.tokenNo) THEN BOOLEAN
  ELSE {TokenAt(row, i).end <= TokenAt(row, id.tokenNo).end /\ TokenAt(row, i).end # 0}

\* The token after the element at i and everything in it.
RECURSIVE afterContents(_, _, _)
afterContents(row, i, j) ==
  IF Wild(row, i) \/ Wild(row, j) THEN Anywhere
  ELSE IF TokenAt(row, j).start <= TokenAt(row, i).end /\ TokenAt(row, j).start # 0
  THEN afterContents(row, i, j + 1) ELSE j
collectionGetNext(row, i) == afterContents(row, i, i + 1)

---------------------------------------------------------------------------
(* Values.  Objects and arrays stay tokens.                                *)

readValue(f, row, id, type) ==
  LET b == Slice(f, id, TokenAt(row, id.tokenNo))
  IN  IF id.tokenNo = -1 THEN C!Ok("null")
      ELSE IF Wild(row, id.tokenNo) THEN C!Err("beyond")
      ELSE
        CASE type \in {"RECORD", "LIST"} -> C!Ok(id.tokenNo)
        [] type = "BOOL" -> C!convertBoolean64(b)
        [] type = "STRING" -> C!Ok(b)
        [] type = "FLOAT" -> C!Ok(C!atof(f, id.offset + TokenAt(row, id.tokenNo).start))
        [] type = "INT" -> C!atois(b)
        [] OTHER -> C!Err("throw")

getValueSize(row, i) ==
  IF Wild(row, i) THEN C!Err("beyond") ELSE C!Ok(TokenAt(row, i).end - TokenAt(row, i).start)
flushChunk(f, row, id) ==
  IF Wild(row, id.tokenNo) THEN C!Err("beyond") ELSE C!Ok(Slice(f, id, TokenAt(row, id.tokenNo)))

(***************************************************************************)
(* The other JSON plugin (json-jsmn-plugin.cpp): a file that is one array  *)
(* of objects, tokenised as a whole when the plugin is created.  A value   *)
(* is the number of its token.  row are the tokens of the file.            *)
(***************************************************************************)

array_Slice(f, t) == SubSeq(f, t.start + 1, t.end)

array_JSONPlugin(f) == jsmn_parse(jsmn_init, f)

---------------------------------------------------------------------------
array_initCollectionUnnest(parent) == parent + 1

array_collectionHasNext(row, parent, i) ==
  IF Wild(row, i) \/ Wild(row, parent) THEN BOOLEAN
  ELSE {TokenAt(row, i).end <= TokenAt(row, parent).end /\ TokenAt(row, i).end # 0}

RECURSIVE array_afterContents(_, _, _)
array_afterContents(row, i, j) ==
  IF Wild(row, i) \/ Wild(row, j) THEN Anywhere
  ELSE IF TokenAt(row, j).start <= TokenAt(row, i).end /\ TokenAt(row, j).start # 0
  THEN array_afterContents(row, i, j + 1) ELSE j
array_collectionGetNext(row, i) == array_afterContents(row, i, i + 1)

\* Past the object at curr: the next of the file's array.
RECURSIVE skipToEnd(_, _, _)
skipToEnd(row, curr, i) ==
  IF Wild(row, i) THEN Anywhere
  ELSE IF TokenAt(row, i).start < TokenAt(row, curr).end /\ TokenAt(row, i).start # 0
  THEN skipToEnd(row, curr, i + 1) ELSE i

RECURSIVE objectsFrom(_, _)
objectsFrom(row, i) ==
  IF Wild(row, i) THEN <<Anywhere>>
  ELSE IF TokenAt(row, i).start = 0 THEN <<>> ELSE <<i>> \o objectsFrom(row, skipToEnd(row, i, i))
array_scanObjects(row) == objectsFrom(row, 1)

---------------------------------------------------------------------------
\* A key is sought in every second token, wherever that is.
RECURSIVE array_seekPath(_, _, _, _, _)
array_seekPath(f, row, parent, i, path) ==
  IF Wild(row, i) \/ Wild(row, parent) THEN Anywhere
  ELSE IF TokenAt(row, i).end > TokenAt(row, parent).end THEN -1
  ELSE IF array_Slice(f, TokenAt(row, i)) = path THEN i + 1
  ELSE array_seekPath(f, row, parent, i + 2, path)

array_readPath(f, row, parent, path) == array_seekPath(f, row, parent, parent + 1, path)
readPathInternal(f, row, parent, path) == array_seekPath(f, row, parent, parent + 1, path)

\* A number is read from where it begins to where its digits end.
array_readValue(f, row, i, type) ==
  IF i = -1 THEN C!Ok("null")
  ELSE IF Wild(row, i) THEN C!Err("beyond")
  ELSE
    CASE type \in {"RECORD", "LIST"} -> C!Ok(i)
    [] type = "BOOL" -> C!convertBoolean64(array_Slice(f, TokenAt(row, i)))
    [] type = "STRING" -> C!Ok(array_Slice(f, TokenAt(row, i)))
    [] type \in {"FLOAT", "INT"} -> C!Ok(C!atof(f, TokenAt(row, i).start))
    [] OTHER -> C!Err("throw")

array_flushChunk(f, row, i) ==
  IF Wild(row, i) THEN C!Err("beyond") ELSE C!Ok(array_Slice(f, TokenAt(row, i)))
array_getValueSize(row, i) == getValueSize(row, i)

---------------------------------------------------------------------------
(* The interpreted counterparts, which the tests use.                      *)

RECURSIVE readPathInterpreted(_, _, _, _)
readPathInterpreted(f, row, parent, path) ==
  IF Wild(row, parent) THEN Anywhere
  ELSE IF TokenAt(row, parent).type # "OBJECT" \/ path = <<>> THEN -3
  ELSE LET i == array_seekPath(f, row, parent, parent + 1, Head(path))
       IN  IF i < 0 \/ Len(path) = 1 THEN i ELSE readPathInterpreted(f, row, i, Tail(path))

RECURSIVE scanInterpreted(_, _, _, _)
scanInterpreted(f, row, i, path) ==
  IF Wild(row, i) THEN <<Anywhere>>
  ELSE IF TokenAt(row, i).start = 0 THEN <<>>
  ELSE <<readPathInterpreted(f, row, i, path)>> \o scanInterpreted(f, row, skipToEnd(row, i, i), path)
scanObjectsInterpreted(f, row, path) == scanInterpreted(f, row, 1, path)

RECURSIVE unnestFrom(_, _, _)
unnestFrom(row, parent, i) ==
  IF Wild(row, i) \/ Wild(row, parent) THEN <<Anywhere>>
  ELSE IF TokenAt(row, i).end <= TokenAt(row, parent).end /\ TokenAt(row, i).end # 0
  THEN <<i>> \o unnestFrom(row, parent, array_afterContents(row, i, i + 1))
  ELSE <<>>
unnestObjectInterpreted(row, parent) == unnestFrom(row, parent, parent + 1)
=============================================================================
