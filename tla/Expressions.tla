---------------------------- MODULE Expressions ----------------------------
(***************************************************************************)
(* What the code generated for an expression computes                      *)
(* (ExpressionGeneratorVisitor).  A value is [v, null, err]: the integers  *)
(* are two's complement of Bits[type] bits, so that the i1 of a true BOOL  *)
(* reads -1; a FLOAT is a reduced fraction <<n, d>>, <<0, 0>> its NaN and  *)
(* <<1, 0>>, <<-1, 0>> the infinities; a RECORD is the sequence of its     *)
(* fields.  err is "throw" when the visitor throws or asserts, and         *)
(* "undefined" when the instruction has no defined result.                 *)
(*                                                                         *)
(* A state s holds the bindings of the child operator (by relation and     *)
(* attribute), the plugin of every relation of the catalog, the parameters *)
(* of the session and the memory that references point into.  Nothing      *)
(* registers a binary cache, so that getCache never finds one.             *)
(***************************************************************************)
EXTENDS Integers, Sequences, SequencesExt, FiniteSets

CONSTANTS
  Bits,                 \* the width of every integer type
  MS_PER_S, S_PER_M, M_PER_H, H_PER_DAY

activeLoop == "oid"
T(id) == [id |-> id, of |-> <<>>, names |-> <<>>]
Whole == {"INT", "INT64", "DATE", "DSTRING", "BOOL"}
Primitive == Whole \cup {"FLOAT", "STRING"}

---------------------------------------------------------------------------
(* Machine arithmetic *)

Unsigned(x, w) == x % 2^w
Wrap(x, w) == ((x + 2^(w - 1)) % 2^w) - 2^(w - 1)
Bool(b) == IF b THEN -1 ELSE 0
Abs(x) == IF x < 0 THEN -x ELSE x
SDiv(x, y) == LET q == Abs(x) \div Abs(y) IN IF (x < 0) = (y < 0) THEN q ELSE -q
SRem(x, y) == x - SDiv(x, y) * y
Bit(x, w, i) == (Unsigned(x, w) \div 2^i) % 2
FromBits(w, b) == Wrap(FoldLeft(LAMBDA a, i : 2 * a + b[w - i], 0, [i \in 1 .. w |-> i]), w)

NaN == <<0, 0>>
Gcd(a, b) == CHOOSE g \in 1 .. a + b :
               /\ a % g = 0 /\ b % g = 0
               /\ \A h \in g + 1 .. a + b : ~(a % h = 0 /\ b % h = 0)
Reduced(n, d) ==
  CASE n = 0 /\ d = 0 -> NaN
    [] d = 0 -> <<IF n > 0 THEN 1 ELSE -1, 0>>
    [] OTHER -> LET g == Gcd(Abs(n), Abs(d))
                IN  <<(IF d < 0 THEN -n ELSE n) \div g, Abs(d) \div g>>
FAdd(x, y) == IF x[2] = 0 /\ y[2] = 0
              THEN IF x = y THEN x ELSE NaN
              ELSE Reduced(x[1] * y[2] + y[1] * x[2], x[2] * y[2])
FNeg(x) == <<-x[1], x[2]>>
FMul(x, y) == Reduced(x[1] * y[1], x[2] * y[2])
FDiv(x, y) == Reduced(x[1] * y[2], x[2] * y[1])
FRem(x, y) == IF x[2] = 0 \/ y[1] = 0 THEN NaN
              ELSE IF y[2] = 0 THEN x
              ELSE FAdd(x, FNeg(FMul(<<SDiv(x[1] * y[2], x[2] * y[1]), 1>>, y)))
FLess(x, y) == IF x[2] = 0 /\ y[2] = 0 THEN x[1] < y[1] ELSE x[1] * y[2] < y[1] * x[2]
Ordered(x, y) == x # NaN /\ y # NaN

---------------------------------------------------------------------------
(* Expressions and their types *)

RECURSIVE TypeOf(_)
TypeOf(e) ==
  CASE e.op \in {"const", "value", "placeholder", "proj", "arg", "cast", "ref"} -> e.t
    [] e.op = "record" -> [id |-> "RECORD", of |-> [i \in DOMAIN e.atts |-> TypeOf(e.atts[i])],
                           names |-> e.names]
    [] e.op = "if" -> TypeOf(e.el)
    [] e.op \in {"Eq", "Ne", "Ge", "Gt", "Le", "Lt", "testnull"} -> T("BOOL")
    [] e.op = "hash" -> T("INT64")
    [] e.op \in {"rand", "extract"} -> T("INT")
    [] e.op \in {"neg", "hint"} -> TypeOf(e.e)
    [] OTHER -> TypeOf(e.l)

Operands(e) ==
  CASE e.op \in {"const", "value", "placeholder", "arg", "rand"} -> <<>>
    [] e.op \in {"proj", "neg", "hint", "hash", "extract", "testnull", "cast", "ref"} -> <<e.e>>
    [] e.op = "record" -> e.atts
    [] e.op = "if" -> <<e.c, e.th, e.el>>
    [] OTHER -> <<e.l, e.r>>

\* A visitor keeps the relation of the last projection it went through.
RECURSIVE activeAfter(_, _)
activeAfter(e, rel) ==
  FoldLeft(LAMBDA a, c : activeAfter(c, a), IF e.op = "proj" THEN e.rel ELSE rel, Operands(e))

---------------------------------------------------------------------------
(* Comparing an expression with a string: one of a dictionary is replaced by *)
(* its code, and a string on the left turns the inequality around.           *)

probeDictionary(dict, v) == CHOOSE code \in DOMAIN dict : dict[code] = v
Literal(lhs, dict, v) ==
  IF TypeOf(lhs).id = "DSTRING" THEN [op |-> "const", t |-> T("DSTRING"), v |-> probeDictionary(dict, v)]
  ELSE [op |-> "const", t |-> T("STRING"), v |-> v]
eq(lhs, dict, v) == [op |-> "Eq", l |-> lhs, r |-> Literal(lhs, dict, v)]
ne(lhs, dict, v) == [op |-> "Ne", l |-> lhs, r |-> Literal(lhs, dict, v)]
ge(lhs, dict, v) == [op |-> "Ge", l |-> lhs, r |-> Literal(lhs, dict, v)]
gt(lhs, dict, v) == [op |-> "Gt", l |-> lhs, r |-> Literal(lhs, dict, v)]
le(lhs, dict, v) == [op |-> "Le", l |-> lhs, r |-> Literal(lhs, dict, v)]
lt(lhs, dict, v) == [op |-> "Lt", l |-> lhs, r |-> Literal(lhs, dict, v)]
\* Variant: the inequality is kept.
gtLeftKept(v, dict, rhs) == gt(rhs, dict, v)
geLeft(v, dict, rhs) == le(rhs, dict, v)
gtLeft(v, dict, rhs) == lt(rhs, dict, v)
leLeft(v, dict, rhs) == ge(rhs, dict, v)
ltLeft(v, dict, rhs) == gt(rhs, dict, v)

---------------------------------------------------------------------------
(* The visit functions *)

Ok(v, null) == [v |-> v, null |-> null, err |-> "none"]
Err(x) == [v |-> 0, null |-> FALSE, err |-> x]
Chain(l, r, res) == IF l.err # "none" THEN l ELSE IF r.err # "none" THEN r ELSE res
Typed(ok, v) == IF ok THEN Ok(v, FALSE) ELSE Err("throw")

\* A string is the pointer to its characters and their number.
Constant(e) == Ok(e.v, FALSE)
Placeholder(e, s) == Ok(s.params[e.i], FALSE)
RefExpression(s, p) == IF p.err # "none" THEN p ELSE Ok(s.mem[p.v], p.null)

\* Below an active relation, the tuple the relation's loop is at; otherwise
\* the last of the argument's loop variables that is bound.
InputArgument(e, rel, s) ==
  LET oids == SelectSeq(e.rels, LAMBDA r : <<r, activeLoop>> \in DOMAIN s.bindings)
  IN  CASE rel # "" -> IF <<rel, activeLoop>> \in DOMAIN s.bindings
                       THEN s.bindings[<<rel, activeLoop>>] ELSE Err("throw")
        [] oids # <<>> -> s.bindings[<<oids[Len(oids)], activeLoop>>]
        [] OTHER -> Err("throw")

\* projectArg: the field of a record that was constructed by the expression
\* below; the argument of an operator is no such struct.
Projected(e) ==
  /\ e.attr # activeLoop
  /\ e.e.op \in {"record", "value", "if"}
  /\ TypeOf(e.e).id = "RECORD"
  /\ \E i \in DOMAIN TypeOf(e.e).names : TypeOf(e.e).names[i] = e.attr
projectArg(e, record) ==
  record.v[CHOOSE i \in DOMAIN TypeOf(e.e).names : TypeOf(e.e).names[i] = e.attr]

\* readPath goes to the relation that is active once the record was visited.
readPath(e, s) == <<activeAfter(e.e, e.rel), e.attr>>
RecordProjection(e, s, record) ==
  CASE record.err # "none" -> record
    [] e.rel \notin DOMAIN s.plugins -> Err("throw")
    [] Projected(e) -> Ok(projectArg(e, record), record.null)
    [] readPath(e, s) \notin DOMAIN s.bindings -> Err("throw")
    [] OTHER -> s.bindings[readPath(e, s)]

RecordConstruction(vals) ==
  IF \E i \in DOMAIN vals : vals[i].err # "none"
  THEN Err(vals[CHOOSE i \in DOMAIN vals : vals[i].err # "none"].err)
  ELSE Ok([i \in DOMAIN vals |-> vals[i].v], \E i \in DOMAIN vals : vals[i].null)

\* Both branches are generated, one is executed.
IfThenElse(c, th, el) ==
  CASE c.err # "none" -> c
    [] th.err = "throw" \/ el.err = "throw" -> Err("throw")
    [] OTHER -> IF c.v = 0 THEN el ELSE th

RECURSIVE Equal(_, _, _)
Equal(t, x, y) ==
  CASE t.id = "FLOAT" -> Ordered(x, y) /\ x = y
    [] t.id = "RECORD" -> \A i \in DOMAIN t.of : Equal(t.of[i], x[i], y[i])
    [] OTHER -> x = y
RECURSIVE Comparable(_)
Comparable(t) == \/ t.id \in Primitive
                 \/ t.id = "RECORD" /\ t.of # <<>> /\ \A i \in DOMAIN t.of : Comparable(t.of[i])

Words == Whole \cup {"FLOAT"}
Less(t, x, y) == IF t.id = "FLOAT" THEN Ordered(x, y) /\ FLess(x, y) ELSE x < y
LessEq(t, x, y) == IF t.id = "FLOAT" THEN Ordered(x, y) /\ ~FLess(y, x) ELSE x <= y

EqExpression(t, l, r) == Chain(l, r, Typed(Comparable(t), Bool(Equal(t, l.v, r.v))))
NeExpression(t, l, r) ==
  Chain(l, r, Typed(t.id \in Words, Bool((t.id = "FLOAT" => Ordered(l.v, r.v)) /\ l.v # r.v)))
GeExpression(t, l, r) == Chain(l, r, Typed(t.id \in Words, Bool(LessEq(t, r.v, l.v))))
GtExpression(t, l, r) == Chain(l, r, Typed(t.id \in Words, Bool(Less(t, r.v, l.v))))
LeExpression(t, l, r) == Chain(l, r, Typed(t.id \in Words, Bool(LessEq(t, l.v, r.v))))
LtExpression(t, l, r) == Chain(l, r, Typed(t.id \in Words, Bool(Less(t, l.v, r.v))))

MaxExpression(t, l, r) == IfThenElse(GtExpression(t, l, r), l, r)
MinExpression(t, l, r) == IfThenElse(LtExpression(t, l, r), l, r)

\* The arithmetic drops the nulls of its operands.
Word(t, x) == Wrap(x, Bits[t.id])
AddExpression(t, l, r) ==
  Chain(l, r, IF t.id = "FLOAT" THEN Ok(FAdd(l.v, r.v), FALSE)
              ELSE Typed(t.id \in Whole \ {"DSTRING"}, Word(t, l.v + r.v)))
SubExpression(t, l, r) ==
  Chain(l, r, IF t.id = "FLOAT" THEN Ok(FAdd(l.v, FNeg(r.v)), FALSE)
              ELSE Typed(t.id \in Whole \ {"DSTRING"}, Word(t, l.v - r.v)))
MultExpression(t, l, r) ==
  Chain(l, r, IF t.id = "FLOAT" THEN Ok(FMul(l.v, r.v), FALSE)
              ELSE Typed(t.id \in {"INT64", "INT", "BOOL"}, Word(t, l.v * r.v)))

\* A division by zero, and the least number divided by -1, have no result.
DivExpression(t, l, r) ==
  Chain(l, r, CASE t.id = "FLOAT" -> Ok(FDiv(l.v, r.v), FALSE)
                [] t.id \notin {"INT64", "INT", "BOOL"} -> Err("throw")
                [] r.v = 0 \/ SDiv(l.v, r.v) # Word(t, SDiv(l.v, r.v)) -> Err("undefined")
                [] OTHER -> Ok(SDiv(l.v, r.v), FALSE))
ModExpression(t, l, r) ==
  Chain(l, r, CASE t.id = "FLOAT" -> Ok(FRem(l.v, r.v), FALSE)
                [] t.id \notin {"INT64", "INT", "BOOL"} -> Err("throw")
                [] r.v = 0 -> Err("undefined")
                [] OTHER -> Ok(Word(t, Unsigned(l.v, Bits[t.id]) % Unsigned(r.v, Bits[t.id])), FALSE))

Bitwise2(w, x, y, f) ==
  FromBits(w, [i \in 0 .. w - 1 |->
    LET a == Bit(x, w, i) b == Bit(y, w, i)
    IN  CASE f = "And" -> a * b
          [] f = "Or" -> IF a + b = 0 THEN 0 ELSE 1
          [] OTHER -> (a + b) % 2])
\* A shift by the width or more has no result, nor has one of a FLOAT.
BitExpression(t, f, l, r) ==
  LET w == Bits[t.id]
  IN  Chain(l, r,
        CASE t.id \notin Whole -> Err("undefined")
          [] f \in {"And", "Or", "Xor"} -> Ok(Bitwise2(w, l.v, r.v, f), FALSE)
          [] Unsigned(r.v, w) >= w -> Err("undefined")
          [] f = "Shl" -> Ok(Wrap(l.v * 2^r.v, w), FALSE)
          [] f = "Ashr" -> Ok(l.v \div 2^r.v, FALSE)
          [] OTHER -> Ok(Wrap(Unsigned(l.v, w) \div 2^r.v, w), FALSE))

\* CreateNeg: the least number is its own negation; the null stays.
NegExpression(t, x) ==
  CASE x.err # "none" -> x
    [] t.id = "FLOAT" -> Ok(FNeg(x.v), x.null)
    [] t.id \in Whole -> Ok(Word(t, -x.v), x.null)
    [] OTHER -> Err("undefined")
\* The intrinsic compares with a true i1: no other type can be hinted.
HintExpression(t, x) == IF x.err = "none" /\ t.id # "BOOL" THEN Err("undefined") ELSE x
TestNullExpression(e, x) == IF x.err # "none" THEN x ELSE Ok(Bool(x.null = e.isnull), FALSE)

\* Integers are extended by their sign, a true BOOL to -1; the conversion of a
\* FLOAT that does not fit has no result.
CastExpression(from, to, x) ==
  LET trunc == SDiv(x.v[1], x.v[2])
  IN  CASE x.err # "none" -> x
        [] ~({from.id, to.id} \subseteq Words) -> Err("undefined")
        [] from.id \in Whole /\ to.id \in Whole -> Ok(Word(to, x.v), x.null)
        [] from.id \in Whole -> Ok(<<x.v, 1>>, x.null)
        [] to.id \notin Whole -> x
        [] x.v[2] = 0 \/ trunc # Word(to, trunc) -> Err("undefined")
        [] OTHER -> Ok(trunc, x.null)

---------------------------------------------------------------------------
(* Extract: the civil date and the time of a DATE in milliseconds *)

floorDiv(x, y) == LET r == SDiv(x, y) IN IF (x < 0) # (y < 0) /\ r * y # x THEN r - 1 ELSE r
floorMod(x, y) == x - floorDiv(x, y) * y

MS_PER_M == S_PER_M * MS_PER_S
MS_PER_H == M_PER_H * MS_PER_M
MS_PER_DAY == H_PER_DAY * MS_PER_H
EPOCH_JULIAN == 2440588

julianOf(v) == (Unsigned(v, Bits["DATE"]) \div MS_PER_DAY) + EPOCH_JULIAN
\* March is the first month of these years, so that a leap day ends one.
inYear(y, da) ==
  LET m == SDiv(da * 5 + 308, 153) - 2
  IN  [year |-> y - 4800 + SDiv(m + 2, 12), month |-> SRem(m + 2, 12) + 1,
       day |-> da - SDiv((m + 4) * 153, 5) + 122 + 1]
inCycle(y, db) == LET a == SDiv((SDiv(db, 365) + 1) * 3, 4) IN inYear(y + a, db - a * 365)
inCentury(y, dc) == inCycle(y + SDiv(dc, 1461) * 4, SRem(dc, 1461))
inEra(y, dg) == LET c == SDiv((SDiv(dg, 36524) + 1) * 3, 4) IN inCentury(y + c * 100, dg - c * 36524)
civil(julian) == inEra(SDiv(julian + 32044, 146097) * 400, SRem(julian + 32044, 146097))

getYearDiv(u) == CASE u = "YEAR" -> 1 [] u = "DECADE" -> 10 [] u = "CENTURY" -> 100 [] OTHER -> 1000
getYearAbsOffset(u) == CASE u \in {"YEAR", "DECADE"} -> 0 [] u = "CENTURY" -> 99 [] OTHER -> 999

\* createReturnType: the expression of any other unit cannot be built.
Extractable == {"SECOND", "MINUTE", "HOUR", "DAYOFWEEK", "DAYOFMONTH", "DAYOFYEAR", "WEEK",
                "MONTH", "QUARTER", "YEAR", "MILLENNIUM", "CENTURY", "DECADE"}
DayOfYear(y) == 365 * y + SDiv(y, 4) - SDiv(y, 100) + SDiv(y, 400) - 31738
ofTime(u, vtime) ==
  CASE u = "SECOND" -> (vtime \div MS_PER_S) % S_PER_M
    [] u = "MINUTE" -> (vtime \div MS_PER_M) % M_PER_H
    [] OTHER -> vtime \div MS_PER_H
ofDate(u, date) ==
  CASE u = "DAYOFMONTH" -> date.day
    [] u = "DAYOFYEAR" -> DayOfYear(date.year + 4799)
    [] u = "MONTH" -> date.month
    [] u = "QUARTER" -> (date.month + 2) \div 3
    [] OTHER -> SDiv(date.year + (IF date.year > 0 THEN getYearAbsOffset(u) ELSE -getYearAbsOffset(u)),
                     getYearDiv(u))
ExtractExpression(u, x) ==
  CASE u \notin Extractable \/ u = "WEEK" -> Err("throw")
    [] x.err # "none" -> x
    [] OTHER -> Ok(Word(T("INT"), CASE u \in {"SECOND", "MINUTE", "HOUR"} -> ofTime(u, floorMod(x.v, MS_PER_DAY))
                                    [] u = "DAYOFWEEK" -> floorMod(julianOf(x.v) + 1, 7) + 1
                                    [] OTHER -> ofDate(u, civil(julianOf(x.v)))), x.null)

---------------------------------------------------------------------------
(* The visitor *)

Binary(e, t, l, r) ==
  CASE e.op = "Eq" -> EqExpression(t, l, r)
    [] e.op = "Ne" -> NeExpression(t, l, r)
    [] e.op = "Ge" -> GeExpression(t, l, r)
    [] e.op = "Gt" -> GtExpression(t, l, r)
    [] e.op = "Le" -> LeExpression(t, l, r)
    [] e.op = "Lt" -> LtExpression(t, l, r)
    [] e.op = "Add" -> AddExpression(t, l, r)
    [] e.op = "Sub" -> SubExpression(t, l, r)
    [] e.op = "Mult" -> MultExpression(t, l, r)
    [] e.op = "Div" -> DivExpression(t, l, r)
    [] e.op = "Mod" -> ModExpression(t, l, r)
    [] e.op = "max" -> MaxExpression(t, l, r)
    [] e.op = "min" -> MinExpression(t, l, r)
    [] OTHER -> BitExpression(t, e.op, l, r)

\* What an expression gives from the values of its operands.
Visit(e, rel, s, xs) ==
  CASE e.op = "const" -> Constant(e)
    [] e.op = "value" -> Ok(e.v, e.null)
    [] e.op = "placeholder" -> Placeholder(e, s)
    [] e.op = "arg" -> InputArgument(e, rel, s)
    [] e.op = "proj" -> RecordProjection(e, s, xs[1])
    [] e.op = "record" -> RecordConstruction(xs)
    [] e.op = "if" -> IfThenElse(xs[1], xs[2], xs[3])
    [] e.op = "hint" -> HintExpression(TypeOf(e), xs[1])
    [] e.op = "neg" -> NegExpression(TypeOf(e), xs[1])
    [] e.op = "testnull" -> TestNullExpression(e, xs[1])
    [] e.op = "cast" -> CastExpression(TypeOf(e.e), e.t, xs[1])
    [] e.op = "extract" -> ExtractExpression(e.unit, xs[1])
    [] e.op = "ref" -> RefExpression(s, xs[1])
    [] OTHER -> Binary(e, TypeOf(e.l), xs[1], xs[2])

\* The relation that is active when the i-th operand is visited.
ActiveAt(e, rel, i) ==
  FoldLeft(LAMBDA a, c : activeAfter(c, a), IF e.op = "proj" THEN e.rel ELSE rel,
           SubSeq(Operands(e), 1, i - 1))

RECURSIVE generate(_, _, _)
generate(e, rel, s) ==
  Visit(e, rel, s, [i \in DOMAIN Operands(e) |-> generate(Operands(e)[i], ActiveAt(e, rel, i), s)])


(***************************************************************************)
(* The hash of an expression (ExpressionHasherVisitor), which joins and    *)
(* groupings compute once over the build side's and once over the probe    *)
(* side's expression.  A hash is a term: the function and what it was      *)
(* applied to, so that two hashes are equal exactly when the same function *)
(* was applied to the same value.  A relation is read by a plugin of kind  *)
(* "block", "csv" or "json".                                               *)
(***************************************************************************)

\* hashInt32 and hashInt64 are different mixers; the others are std::hash.
hashOf(t, x) ==
  CASE x.err # "none" -> x
    [] t.id \in {"INT", "DSTRING"} -> Ok(<<"hashInt32", x.v>>, x.null)
    [] t.id \in {"INT64", "DATE"} -> Ok(<<"hashInt64", x.v>>, x.null)
    [] t.id = "FLOAT" -> Ok(<<"hashDouble", x.v>>, x.null)
    [] t.id = "BOOL" -> Ok(<<"hashBoolean", x.v # 0>>, x.null)
    [] t.id = "STRING" -> Ok(<<"hashString", x.v>>, FALSE)
    [] OTHER -> Err("throw")
hashPrimitive(e, s) == IF TypeOf(e).id \in Primitive THEN hashOf(TypeOf(e), generate(e, "", s)) ELSE Err("throw")

Combine(h, v) == <<"combine", <<h, v>>>>

\* The JSON plugin hashes the integer it parsed with std::hash, a string where
\* it lies in the file; for BOOL and FLOAT it calls the parser twice.
jsonHashValue(t, x) ==
  CASE x.err # "none" -> x
    [] t.id \notin {"INT", "STRING"} -> Err("throw")
    [] x.null -> Ok(<<"none", 0>>, TRUE)
    [] t.id = "INT" -> Ok(<<"hashInt", x.v>>, FALSE)
    [] OTHER -> Ok(<<"hashString", x.v>>, FALSE)
jsonHashValueEager(t, x) ==
  CASE x.err # "none" -> x
    [] t.id = "BOOL" -> Ok(<<"hashBoolean", x.v # 0>>, FALSE)
    [] t.id = "FLOAT" -> Ok(<<"hashDouble", x.v>>, FALSE)
    [] t.id = "INT" -> Ok(<<"hashInt", x.v>>, FALSE)
    [] OTHER -> Err("throw")
hashValue(kind, t, x) == IF kind = "json" THEN jsonHashValue(t, x) ELSE hashOf(t, x)
hashValueEager(kind, t, x) == IF kind = "json" THEN jsonHashValueEager(t, x) ELSE hashOf(t, x)

\* Only a plugin that hashes whole records can hash an argument's tuples.
HashArgument(e, s) ==
  IF \E i \in DOMAIN e.rels : <<e.rels[i], activeLoop>> \in DOMAIN s.bindings
  THEN Err("throw") ELSE Ok(<<"none", 0>>, FALSE)

HashProjection(e, s) ==
  LET record == generate(e.e, e.rel, s)
      val == RecordProjection(e, s, record)
  IN  CASE val.err # "none" -> val
        [] Projected(e) -> hashValueEager(s.plugins[e.rel], e.t, val)
        [] OTHER -> hashValue(s.plugins[e.rel], e.t, val)

\* c is the condition's value, th and el are the hashes of the branches.
HashIf(c, th, el) ==
  CASE c.err # "none" -> c
    [] "throw" \in {th.err, el.err} -> Err("throw")
    [] c.v = 0 -> [el EXCEPT !.null = FALSE]
    [] OTHER -> [th EXCEPT !.null = FALSE]

\* The hashes hs of the fields in turn.
HashRecord(hs) ==
  FoldLeft(LAMBDA seed, h : Chain(seed, h, Ok(Combine(seed.v, h.v), FALSE)), Ok(<<"none", 0>>, FALSE), hs)

\* A constant string is hashed when the query is compiled.
HashConstant(e, s) == IF e.t.id = "STRING" THEN Ok(<<"hashString", e.v>>, FALSE) ELSE hashPrimitive(e, s)

\* A raw value that is not primitive is left to the plugin of the relation that
\* was visited last.
HashValue(e, rel, s) ==
  CASE TypeOf(e).id \in Primitive -> hashPrimitive(e, s)
    [] rel \notin DOMAIN s.plugins -> Err("throw")
    [] OTHER -> hashValueEager(s.plugins[rel], TypeOf(e), Ok(e.v, e.null))

\* MaxExpression and MinExpression are the conditional they were built with.
AsCond(e) ==
  IF e.op \in {"max", "min"}
  THEN [op |-> "if", c |-> [op |-> IF e.op = "max" THEN "Gt" ELSE "Lt", l |-> e.l, r |-> e.r],
        th |-> e.l, el |-> e.r]
  ELSE e

\* Comparisons, arithmetic and the unary operators: the value is hashed.
HashComparison(e, s) == hashPrimitive(e, s)
HashArithmetic(e, s) == hashPrimitive(e, s)
HashUnary(e, s) == hashPrimitive(e, s)

\* The operands the visitor itself goes through, and the relation that is
\* active afterwards.
Hashed(e) ==
  CASE e.op = "record" -> e.atts
    [] e.op = "if" -> <<e.th, e.el>>
    [] e.op \in {"hint", "ref"} -> <<e.e>>
    [] OTHER -> <<>>
RECURSIVE activeHashed(_, _)
activeHashed(e, rel) ==
  IF e.op = "proj" THEN e.rel ELSE FoldLeft(LAMBDA a, c : activeHashed(AsCond(c), a), rel, Hashed(e))

\* hs are the hashes of the operands.  The hash of a reference is the hash of
\* what it points with.
VisitHash(e, rel, s, hs) ==
  CASE e.op = "const" -> HashConstant(e, s)
    [] e.op = "arg" -> HashArgument(e, s)
    [] e.op = "value" -> HashValue(e, rel, s)
    [] e.op = "proj" -> HashProjection(e, s)
    [] e.op = "if" -> HashIf(generate(e.c, "", s), hs[1], hs[2])
    [] e.op = "record" -> HashRecord(hs)
    [] e.op \in {"hint", "ref"} -> hs[1]
    [] e.op \in {"hash", "assign"} -> Err("throw")
    [] e.op \in {"Eq", "Ne", "Ge", "Gt", "Le", "Lt", "And", "Or"} -> HashComparison(e, s)
    [] e.op \in {"neg", "extract", "testnull", "cast"} -> HashUnary(e, s)
    [] OTHER -> HashArithmetic(e, s)

RECURSIVE hashCond(_, _, _)
hashCond(e, rel, s) ==
  VisitHash(e, rel, s,
    [i \in DOMAIN Hashed(e) |->
       hashCond(AsCond(Hashed(e)[i]),
                FoldLeft(LAMBDA a, c : activeHashed(AsCond(c), a), rel, SubSeq(Hashed(e), 1, i - 1)), s)])
hash(e, rel, s) == hashCond(AsCond(e), rel, s)

(***************************************************************************)
(* The comparison of a grouping key under the bindings of two tuples       *)
(* (ExpressionDotVisitor, used by the radix grouping): left and right are  *)
(* expressions of the same shape, s1 and s2 the states of the two tuples.  *)
(***************************************************************************)

Same(types, t, l, r) == IF t.id \in types THEN EqExpression(t, l, r) ELSE Chain(l, r, Err("throw"))
SameIn(types, e1, s1, e2, s2) ==
  Same(types, TypeOf(e1), generate(e1, "", s1), generate(e2, "", s2))

\* Comparisons and connectives: the bits of the two values.
dotLogic(e1, s1, e2, s2) == SameIn(Whole, e1, s1, e2, s2)
dotArithmetic(e1, s1, e2, s2) ==
  IF TypeOf(e1.l).id \in {"INT", "FLOAT", "BOOL"} THEN SameIn(Words, e1, s1, e2, s2) ELSE Err("throw")
compareThroughEvaluation(e1, s1, e2, s2) == SameIn({"INT", "FLOAT", "BOOL"}, e1, s1, e2, s2)

SameHash(h1, h2) == Chain(h1, h2, Ok(Bool(h1.v = h2.v), FALSE))
\* INT64 counts as primitive but has no case of its own.
dotProjection(e1, s1, e2, s2) ==
  IF e1.t.id \in {"INT", "FLOAT", "BOOL", "STRING", "INT64"}
  THEN SameIn({"INT", "FLOAT", "BOOL", "STRING"}, e1, s1, e2, s2)
  ELSE SameHash(HashProjection(e1, s1), HashProjection(e2, s2))
dotIf(e1, s1, e2, s2) == SameIn({"INT", "FLOAT", "BOOL", "STRING"}, e1, s1, e2, s2)
dotUnary(e1, s1, e2, s2) == SameIn({"DSTRING", "INT", "FLOAT", "BOOL"}, e1, s1, e2, s2)
\* Parameters of the session, under the left tuple.
dotValue(e1, s1, e2, s2) == EqExpression(TypeOf(e1), generate(e1, "", s1), generate(e2, "", s1))
dotConstant(e1, e2) == EqExpression(e1.t, Ok(e1.v, FALSE), Ok(e2.v, FALSE))

\* The fields one after the other, as far as the shorter record goes.
dotRecord(ds) ==
  IF \E i \in DOMAIN ds : ds[i].err # "none" THEN Err("throw")
  ELSE Ok(Bool(\A i \in DOMAIN ds : ds[i].v # 0), FALSE)

\* The operands the visitor itself goes through: a cast compares what it casts,
\* a reference what it points with.
Dotted(e) ==
  CASE e.op = "record" -> e.atts
    [] e.op \in {"hint", "cast", "ref"} -> <<e.e>>
    [] OTHER -> <<>>
VisitDot(e1, s1, e2, s2, ds) ==
  CASE e1.op = "const" -> dotConstant(e1, e2)
    [] e1.op \in {"Eq", "Ne", "Ge", "Gt", "Le", "Lt", "And", "Or", "testnull"} -> dotLogic(e1, s1, e2, s2)
    [] e1.op \in {"Add", "Sub", "Mult", "Div", "Mod"} -> dotArithmetic(e1, s1, e2, s2)
    [] e1.op \in {"Shl", "Lshr", "Ashr", "Xor"} -> compareThroughEvaluation(e1, s1, e2, s2)
    [] e1.op = "record" -> dotRecord(ds)
    [] e1.op \in {"value", "placeholder", "rand"} -> dotValue(e1, s1, e2, s2)
    [] e1.op = "proj" -> dotProjection(e1, s1, e2, s2)
    [] e1.op = "if" -> dotIf(e1, s1, e2, s2)
    [] e1.op \in {"neg", "extract"} -> dotUnary(e1, s1, e2, s2)
    [] e1.op \in {"hint", "cast", "ref"} -> ds[1]
    [] OTHER -> Err("throw")

RECURSIVE dotCond(_, _, _, _)
dotCond(e1, s1, e2, s2) ==
  VisitDot(e1, s1, e2, s2,
    [i \in DOMAIN Dotted(e1) \cap DOMAIN Dotted(e2) |->
       dotCond(AsCond(Dotted(e1)[i]), s1, AsCond(Dotted(e2)[i]), s2)])
dot(e1, s1, e2, s2) == dotCond(AsCond(e1), s1, AsCond(e2), s2)

(***************************************************************************)
(* Writing the value of an expression to the result (ExpressionFlusher-    *)
(* Visitor).  What is written is <<writer, value>>: the flush function     *)
(* that is called and its argument.  The flusher is created for one        *)
(* relation and never changes it.                                          *)
(***************************************************************************)

Writers == [INT64 |-> "flushInt64", INT |-> "flushInt", FLOAT |-> "flushDouble", BOOL |-> "flushBoolean"]
Written(types, t, x) ==
  CASE x.err # "none" -> x
    [] t.id \in types -> Ok(<<Writers[t.id], x.v>>, FALSE)
    [] OTHER -> Err("throw")
Numbers == {"INT64", "INT", "FLOAT", "BOOL"}

\* The plugins' flushValueEager and flushValue: by the value's own type.
flushValueEager(t, x) ==
  CASE x.err # "none" -> x
    [] t.id \in Numbers -> Ok(<<Writers[t.id], x.v>>, FALSE)
    [] t.id = "STRING" -> Ok(<<"flushStringObj", x.v>>, FALSE)
    [] t.id = "DATE" -> Ok(<<"flushDate", x.v>>, FALSE)
    [] t.id = "DSTRING" -> Ok(<<"flushDString", x.v>>, FALSE)
    [] t.id = "RECORD" -> Ok(<<"record", x.v>>, FALSE)
    [] OTHER -> Err("throw")

\* The code of a dictionary cannot be written.
flushConstant(e) ==
  CASE e.t.id = "DSTRING" -> Err("throw")
    [] e.t.id = "STRING" -> Ok(<<"flushStringObj", e.v>>, FALSE)
    [] e.t.id = "DATE" -> Ok(<<"flushDate", e.v>>, FALSE)
    [] OTHER -> Ok(<<Writers[e.t.id], e.v>>, FALSE)

flushProjection(e, rel, s) ==
  IF rel \notin DOMAIN s.plugins THEN Err("throw")
  ELSE flushValueEager(e.t, generate(e, IF rel = e.rel THEN rel ELSE "", s))

flushRaw(e, rel, s) ==
  IF rel \notin DOMAIN s.plugins THEN Err("throw") ELSE flushValueEager(TypeOf(e), generate(e, "", s))

\* The plugin of the flusher writes the record, whatever the relations in it.
flushRecord(e, s) == flushValueEager(TypeOf(e), generate(e, "", s))

\* The comparisons hand flushBoolean the value without the name of the file.
flushLogic(e, s) ==
  Chain(generate(e, "", s), Ok(0, FALSE), Err("badcall"))
\* By the type of the left operand; a division has no case for INT64.
flushArithmetic(e, s) == Written(Numbers, TypeOf(e.l), generate(e, "", s))
flushDivision(e, s) == Written(Numbers \ {"INT64"}, TypeOf(e.l), generate(e, "", s))
flushNeg(e, s) == Written(Numbers, TypeOf(e.e), generate(e, "", s))
flushExtract(e, s) == Written(Numbers, TypeOf(e), generate(e, "", s))
flushTestNull(e, s) == Written({"BOOL"}, TypeOf(e), generate(e, "", s))
\* By the type of what is cast.
flushCast(e, s) == Written(Numbers, TypeOf(e.e), generate(e, "", s))

\* c is the condition's value, th and el what the branches write.
flushIf(c, th, el) ==
  CASE c.err # "none" -> c
    [] th.err \in {"throw", "badcall"} -> th
    [] el.err \in {"throw", "badcall"} -> el
    [] OTHER -> IF c.v = 0 THEN el ELSE th

Flushed(e) ==
  CASE e.op = "if" -> <<e.th, e.el>>
    [] e.op \in {"hint", "ref"} -> <<e.e>>
    [] OTHER -> <<>>
\* fs is what the operands the visitor goes through write.
VisitFlush(e, rel, s, fs) ==
  CASE e.op = "const" -> flushConstant(e)
    [] e.op \in {"placeholder", "value", "rand", "hash", "Shl", "Lshr", "Ashr", "Xor"} -> flushRaw(e, rel, s)
    [] e.op = "proj" -> flushProjection(e, rel, s)
    [] e.op = "record" -> flushRecord(e, s)
    [] e.op = "if" -> flushIf(generate(e.c, "", s), fs[1], fs[2])
    [] e.op \in {"Eq", "Ne", "Ge", "Gt", "Le", "Lt", "And", "Or"} -> flushLogic(e, s)
    [] e.op \in {"Add", "Sub", "Mult"} -> flushArithmetic(e, s)
    [] e.op \in {"Div", "Mod"} -> flushDivision(e, s)
    [] e.op = "neg" -> flushNeg(e, s)
    [] e.op = "extract" -> flushExtract(e, s)
    [] e.op = "testnull" -> flushTestNull(e, s)
    [] e.op = "cast" -> flushCast(e, s)
    [] e.op \in {"hint", "ref"} -> fs[1]
    [] OTHER -> Err("throw")

RECURSIVE flushCond(_, _, _)
flushCond(e, rel, s) ==
  VisitFlush(e, rel, s, [i \in DOMAIN Flushed(e) |-> flushCond(AsCond(Flushed(e)[i]), rel, s)])
flush(e, rel, s) == flushCond(AsCond(e), rel, s)
=============================================================================
