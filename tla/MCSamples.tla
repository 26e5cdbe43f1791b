------------------------------ MODULE MCSamples ------------------------------
(***************************************************************************)
(* A behaviour is one sample.  Plans: every prepared query under every     *)
(* query shaper on small clusters.  Expressions: every pair of sample      *)
(* values of every type, under every operator, and every pair of key       *)
(* expressions over two tuples.  Integers have four and five bits, so that *)
(* every overflow happens; for the dates they are wide enough and a day    *)
(* has sixteen milliseconds.  Input plugins: small files, every choice of  *)
(* fields of tables of up to six columns, under every policy of the        *)
(* positional map, and every short field of every type; their ints have    *)
(* ten bits and the shorts of a positional map five, so that both overflow.*)
(***************************************************************************)
EXTENDS Integers, Sequences, FiniteSets, FiniteSetsExt, SequencesExt, TLC

VARIABLES about, sample

-----------------------------------------------------------------------------
(* Plans *)
SS == INSTANCE SsbPlans
CH == INSTANCE ChPlans

Rows == [t \in {"lineorder", "orderline", "supplier", "tpcc_orderline", "tpcc_order", "tpcc_neworder"} |-> 4]
        @@ [t \in {"date", "part", "customer", "order", "tpcc_item", "tpcc_district", "tpcc_warehouse"} |-> 3]
Thirds == {"d_datekey", "lo_orderdate", "p_partkey", "s_suppkey", "c_custkey", "lo_custkey", "lo_partkey",
           "d_year", "c_nation", "s_nation", "o_id", "ol_o_id", "i_id", "ol_i_id"}
RB == INSTANCE RelBuilder WITH TableRows <- Rows, Third <- Thirds, BlockRows <- 3, MaxStreams <- 4

SsbNames == {"11", "12", "13", "21", "22", "23", "31", "32", "33", "34", "41", "42", "43", "41 pushdown"}
SsbQuery(e, q) ==
  CASE q = "11" -> SS!prepare11
    [] q = "12" -> SS!prepare12
    [] q = "13" -> SS!prepare13
    [] q = "21" -> SS!prepare21
    [] q = "22" -> SS!prepare22
    [] q = "23" -> SS!prepare23
    [] q = "31" -> SS!prepare31
    [] q = "32" -> SS!prepare32
    [] q = "33" -> SS!prepare33
    [] q = "34" -> SS!prepare34
    [] q = "41" -> SS!prepare41
    [] q = "42" -> SS!prepare42
    [] q = "43" -> SS!prepare43
    [] q = "41 pushdown" -> SS!prepare41_pushdown(e)

Shapers == "gpu" :> SS!GPUOnlySingleServer @@ "lazy gpu" :> SS!LazyGPUOnlySingleServer
  @@ "cpu" :> SS!CPUOnlySingleServer @@ "cpu morsel" :> SS!CPUOnlySingleServerMorsel
  @@ "hybrid" :> SS!HybridSingleServer @@ "lazy hybrid" :> SS!LazyHybridSingleServer
  @@ "hybrid morsel" :> SS!HybridSingleServerMorsel @@ "lazy hybrid morsel" :> SS!LazyHybridSingleServerMorsel
  @@ "gpu half" :> SS!GPUOnlyHalfFile @@ "cpu half" :> SS!CPUOnlyHalfFile
ScaleOut == "cpu no shuffle" :> SS!CPUOnlyNoShuffle @@ "cpu shuffle" :> SS!CPUOnlyShuffleAll
  @@ "gpu shuffle" :> SS!GPUOnlyShuffleAll @@ "cpu shuffle correct" :> SS!CPUOnlyShuffleAllCorrectPlan
  @@ "gpu shuffle correct" :> SS!GPUOnlyShuffleAllCorrectPlan @@ "lazy gpu no shuffle" :> SS!LazyGPUNoShuffle
  @@ "gpu local" :> SS!GPUOnlyLocalAllCorrectPlan @@ "lazy gpu local" :> SS!LazyGPUOnlyLocalAllCorrectPlan

\* The Bloom plans; those named _b, _c, ... measure the filter of the query they
\* are named after.
Filters == {"BLOOM_CPUFILTER_PROJECT", "BLOOM_CPUFILTER_NOPROJECT", "BLOOM_GPUFILTER_NOPROJECT"}
BloomNames(c) == IF c = "any" THEN {"21", "22", "23", "31", "32", "33", "34", "41", "42", "43"} ELSE {"11", "12", "13"}
BloomPlan(e, m, c, q) ==
  CASE q = "11" -> SS!bloom_prepare11(e, m, c)
    [] q = "12" -> SS!bloom_prepare12(e, m, c)
    [] q = "13" -> SS!bloom_prepare13(e, m, c)
    [] q = "21" -> SS!bloom_prepare21(e, m)
    [] q = "22" -> SS!bloom_prepare22(e, m)
    [] q = "23" -> SS!bloom_prepare23(e, m)
    [] q = "31" -> SS!bloom_prepare31(e, m)
    [] q = "32" -> SS!bloom_prepare32(e, m)
    [] q = "33" -> SS!bloom_prepare33(e, m)
    [] q = "34" -> SS!bloom_prepare34(e, m)
    [] q = "41" -> SS!bloom_prepare41(e, m)
    [] q = "42" -> SS!bloom_prepare42(e, m)
    [] q = "43" -> SS!bloom_prepare43(e, m)
Measures(e, m, q) ==
  CASE q = "11" -> <<SS!prepare11_b(e, m)>>
    [] q = "12" -> <<SS!prepare12_b(e, m)>>
    [] q = "13" -> <<SS!prepare13_b(e, m)>>
    [] q = "21" -> <<SS!prepare21_b(e, m)>>
    [] q = "22" -> <<SS!prepare22_b(e, m)>>
    [] q = "23" -> <<SS!prepare23_b(e, m), SS!prepare23_b2(e, m), SS!prepare23_c(e, m), SS!prepare23_d(e, m), SS!prepare23_e(e, m), SS!prepare23_mat(e, m)>>
    [] q = "31" -> <<SS!prepare31_b(e, m)>>
    [] q = "32" -> <<SS!prepare32_b(e, m)>>
    [] q = "33" -> <<SS!prepare33_b(e, m)>>
    [] q = "34" -> <<SS!prepare34_b(e, m)>>
    [] q = "41" -> <<SS!prepare41_b(e, m), SS!prepare41_c(e, m)>>
    [] q = "42" -> <<SS!prepare42_b(e, m)>>
    [] q = "43" -> <<SS!prepare43_b(e, m)>>

HtapNames == {"Q1", "Q4", "Q6", "Q6 gpu", "Q19", "check 1", "check 1 rows", "check 2 orders", "check 2 new orders", "check 2 districts", "check 3", "check 3 rows", "check 4", "check 4 rows"}
HtapPlan(e, q) ==
  CASE q = "Q1" -> CH!Q_1_cpar(2)
    [] q = "Q4" -> CH!Q_4_cpar(2)
    [] q = "Q6" -> CH!Q_6_cpar(2, "CPU")
    [] q = "Q6 gpu" -> CH!Q_6_cpar(2, "GPU")
    [] q = "Q19" -> CH!Q_19_cpar(2)
    [] q = "check 1" -> CH!consistency_check_1_query_builder(e, TRUE)
    [] q = "check 1 rows" -> CH!consistency_check_1_query_builder(e, FALSE)
    [] q = "check 2 orders" -> CH!consistency_check_2_query_builder[1]
    [] q = "check 2 new orders" -> CH!consistency_check_2_query_builder[2]
    [] q = "check 2 districts" -> CH!consistency_check_2_query_builder[3]
    [] q = "check 3" -> CH!consistency_check_3_query_builder(e, TRUE)
    [] q = "check 3 rows" -> CH!consistency_check_3_query_builder(e, FALSE)
    [] q = "check 4" -> CH!consistency_check_4_query_builder(e, TRUE)
    [] q = "check 4 rows" -> CH!consistency_check_4_query_builder(e, FALSE)

Cluster(s, p) == [cores |-> 2, gpus |-> 2, servers |-> s, nodes |-> 2, pick |-> p, fp |-> FALSE, hint |-> <<1, 1>>]
Picks == {"spread", "first", "last"}

Plans ==
  { <<<<"ssb", q, m>>, Cluster(1, p)>> : q \in SsbNames, m \in DOMAIN Shapers, p \in Picks }
  \cup { <<<<"ssb", q, m>>, Cluster(s, p)>> : q \in SsbNames, m \in DOMAIN ScaleOut, s \in 1 .. 2, p \in Picks }
  \cup { <<<<"ssb", q, m>>, Cluster(3, "spread")>> : q \in {"11", "23", "34", "41 pushdown"}, m \in DOMAIN ScaleOut }
  \cup { <<<<"ssb", q, m>>, [Cluster(s, "spread") EXCEPT !.hint = h]>> :
           q \in SsbNames, m \in {"cpu no shuffle"}, s \in 1 .. 2, h \in {<<1, 2>>, <<2, 1>>} }
  \cup { <<<<"ch", q, b>>, Cluster(1, p)>> : q \in {"01", "06", "19"}, b \in BOOLEAN, p \in Picks }
  \cup UNION { { <<<<"bloom", q, b, c>>, [Cluster(1, p) EXCEPT !.fp = f]>> :
                   q \in BloomNames(c), b \in BOOLEAN, p \in Picks, f \in BOOLEAN } : c \in Filters \cup {"any"} }
  \cup { <<<<"htap", q>>, Cluster(1, p)>> : q \in HtapNames, p \in Picks }

query == sample[1]
cluster == sample[2]

ChPlan(k) ==
  CASE k[2] = "01" -> CH!prepare01(k[3]) [] k[2] = "06" -> CH!prepare06(k[3]) [] OTHER -> CH!prepare19(k[3])
Ssb == SsbQuery(cluster, query[2])
Plan == CASE query[1] = "ssb" -> SS!shaped(cluster, (Shapers @@ ScaleOut)[query[3]], Ssb)
          [] query[1] = "ch" -> ChPlan(query)
          [] query[1] = "htap" -> HtapPlan(cluster, query[2])
          [] OTHER -> BloomPlan(cluster, query[3], query[4], query[2])
Measured == IF query[1] = "bloom" /\ query[4] \in {"any", "BLOOM_CPUFILTER_PROJECT"}
            THEN Measures(cluster, query[3], query[2]) ELSE <<>>

\* The join that prepare41_pushdown makes before the shaper distributes the query
\* sees one server's share of both tables.
Pushdowns == query[1] = "ssb" /\ query[2] = "41 pushdown" /\ cluster.servers > 1

\* What the tables sized from hints rely on: the hints promise no fewer rows than pass,
\* and the cluster has no more than the two servers that Scan::getDOPServers assumes.
HintsHold == cluster.hint[1] >= cluster.hint[2] /\ cluster.servers <= 2


-----------------------------------------------------------------------------
(* Expressions *)
Width == [BOOL |-> 1, INT |-> 4, INT64 |-> 5, DSTRING |-> 4, DATE |-> 5]
X == INSTANCE Expressions WITH
       Bits <- Width,
       MS_PER_S <- 2, S_PER_M <- 2, M_PER_H <- 2, H_PER_DAY <- 2
DateBits == 28
D == INSTANCE Expressions WITH
       Bits <- [BOOL |-> 1, INT |-> 26, INT64 |-> DateBits, DSTRING |-> 26, DATE |-> DateBits],
       MS_PER_S <- 2, S_PER_M <- 2, M_PER_H <- 2, H_PER_DAY <- 2

Types == {"BOOL", "INT", "INT64", "DATE", "DSTRING", "FLOAT", "STRING"}
Samples(t) ==
  CASE t = "BOOL" -> <<0, -1>>
    [] t = "FLOAT" -> <<<<0, 1>>, <<1, 2>>, <<-3, 1>>, <<0, 0>>, <<1, 0>>, <<-1, 0>>>>
    [] t = "STRING" -> <<"a", "b">>
    [] t \in {"INT", "DSTRING"} -> <<-8, -7, -1, 0, 1, 2, 7>>
    [] OTHER -> <<-16, -9, -1, 0, 1, 3, 15>>

---------------------------------------------------------------------------
(* Operators *)

Val(t, i) == X!Ok(Samples(t)[i], FALSE)
Truth(r) == r.v # 0

\* The comparisons generated for two values agree with one another: less, equal and
\* greater exclude each other and one holds, unless a NaN is compared, of which all six
\* comparisons are false, ne too; the maximum and the minimum are the operands in order.
\* Of strings there is only the equality.
ComparisonsAgree(t, i, j) ==
  LET l == Val(t, i) r == Val(t, j) ty == X!T(t)
      lt == X!LtExpression(ty, l, r) gt == X!GtExpression(ty, l, r)
      le == X!LeExpression(ty, l, r) ge == X!GeExpression(ty, l, r)
      eq == X!EqExpression(ty, l, r) ne == X!NeExpression(ty, l, r)
      max == X!MaxExpression(ty, l, r) min == X!MinExpression(ty, l, r)
  IN  CASE t = "STRING" -> lt.err = "throw" /\ ne.err = "throw" /\ (Truth(eq) <=> l.v = r.v)
        [] t = "FLOAT" /\ X!NaN \in {l.v, r.v} ->
             \A x \in {lt, gt, le, ge, eq, ne} : ~Truth(x)
        [] OTHER -> /\ Truth(le) <=> ~Truth(gt)
                    /\ Truth(ge) <=> ~Truth(lt)
                    /\ Truth(ne) <=> ~Truth(eq)
                    /\ Truth(le) <=> Truth(lt) \/ Truth(eq)
                    /\ ~(Truth(lt) /\ Truth(eq))
                    /\ {max.v, min.v} = {l.v, r.v}
                    /\ Truth(X!GeExpression(ty, max, min))

\* The arithmetic of a width is that of the integers modulo two to the width:
\* subtraction undoes addition, a quotient and an unsigned remainder make up
\* the dividend, shifts multiply and divide, and a sum is the exclusive or and
\* twice the and.
ArithmeticAgrees(t, i, j) ==
  LET l == Val(t, i) r == Val(t, j) ty == X!T(t) w == Width[t]
      add == X!AddExpression(ty, l, r)
      div == X!DivExpression(ty, l, r)
      mod == X!ModExpression(ty, l, r)
      bit(f) == X!BitExpression(ty, f, l, r)
  IN  /\ X!SubExpression(ty, add, r) = l
      /\ X!NegExpression(ty, l) = X!SubExpression(ty, X!Ok(0, FALSE), l)
      /\ add.v = X!Wrap(bit("Xor").v + 2 * bit("And").v, w)
      /\ bit("Or").v = X!Wrap(bit("Xor").v + bit("And").v, w)
      /\ t = "DATE" => div.err = "throw" /\ mod.err = "throw"
      /\ (t # "DATE" /\ r.v # 0 /\ div.err = "none" /\ l.v >= 0 /\ r.v > 0) =>
           X!AddExpression(ty, X!MultExpression(ty, div, r), mod) = l
      /\ (t # "DATE" /\ r.v # 0 /\ div.err # "none") => l.v = -(2^(w - 1)) /\ r.v = -1
      /\ (t # "DATE" /\ r.v \in 0 .. w - 2) =>
           /\ bit("Shl") = X!MultExpression(ty, l, X!Ok(2^r.v, FALSE))
           /\ X!floorDiv(l.v, 2^r.v) = bit("Ashr").v
           /\ l.v >= 0 => bit("Lshr") = bit("Ashr")

---------------------------------------------------------------------------
(* Keys: the attribute a of relation "r" of a tuple *)

State(t, i, kind) ==
  [bindings |-> (<<"r", "oid">> :> X!Ok(i, FALSE)) @@ (<<"r", "a">> :> X!Ok(Samples(t)[i], FALSE)),
   plugins |-> ("r" :> kind), params |-> <<Samples(t)[i]>>, mem |-> Samples(t)]
Arg == [op |-> "arg", t |-> X!T("RECORD"), rels |-> <<"r">>]
Attr(t) == [op |-> "proj", e |-> Arg, rel |-> "r", attr |-> "a", t |-> X!T(t)]
Const(t, v) == [op |-> "const", t |-> X!T(t), v |-> v]
Pair(t) == [op |-> "record", atts |-> <<Attr(t), Const(t, Samples(t)[1])>>, names |-> <<"a", "k">>]
Key(k, t) ==
  CASE k = "attr" -> Attr(t)
    [] k = "const" -> Const(t, Samples(t)[2])
    [] k = "param" -> [op |-> "placeholder", t |-> X!T(t), i |-> 1]
    [] k = "hint" -> [op |-> "hint", e |-> Attr(t)]
    [] k = "sum" -> [op |-> "Add", l |-> Attr(t), r |-> Const(t, Samples(t)[1])]
    [] k = "quotient" -> [op |-> "Div", l |-> Attr(t), r |-> Const(t, Samples(t)[2])]
    [] k = "xor" -> [op |-> "Xor", l |-> Attr(t), r |-> Const(t, Samples(t)[1])]
    [] k = "neg" -> [op |-> "neg", e |-> Attr(t)]
    [] k = "if" -> [op |-> "if", c |-> [op |-> "Eq", l |-> Attr(t), r |-> Const(t, Samples(t)[2])],
                    th |-> Const(t, Samples(t)[1]), el |-> Attr(t)]
    [] k = "max" -> [op |-> "max", l |-> Attr(t), r |-> Const(t, Samples(t)[2])]
    [] k = "field" -> [op |-> "proj", e |-> Pair(t), rel |-> "r", attr |-> "a", t |-> X!T(t)]
    [] k = "cast" -> [op |-> "cast", e |-> Attr(t), t |-> X!T(IF t = "INT" THEN "INT64" ELSE "INT")]
    [] k = "test" -> [op |-> "testnull", e |-> Attr(t), isnull |-> FALSE]
    [] k = "less" -> [op |-> "Lt", l |-> Attr(t), r |-> Const(t, Samples(t)[2])]
    [] OTHER -> Pair(t)
Plain == {"attr", "const", "param", "hint", "sum", "quotient", "xor", "neg", "if", "max", "field"}
Kinds == Plain \cup {"cast", "test", "less", "pair"}

\* Keys that are equal hash alike, on whichever side of a join each is
\* computed and however its expression is built, unless a JSON file supplies
\* one of them and something else the other.
HashesAgree(t, k1, k2, i, j, p) ==
  \A e1 \in {Key(k1, t)}, e2 \in {Key(k2, t)}, s1 \in {State(t, i, p)}, s2 \in {State(t, j, p)} :
  \A h1 \in {X!hash(e1, "", s1)}, h2 \in {X!hash(e2, "", s2)},
     v1 \in {X!generate(e1, "", s1)}, v2 \in {X!generate(e2, "", s2)} :
    (/\ X!TypeOf(e1).id = X!TypeOf(e2).id
     /\ v1.err = "none" /\ v2.err = "none" /\ h1.err = "none" /\ h2.err = "none"
     /\ p = "json" => k1 = "attr" /\ k2 = "attr"
     /\ Truth(X!EqExpression(X!TypeOf(e1), v1, v2))) => h1 = h2

\* The radix grouping tells two tuples apart exactly when their keys differ
\* (a cast, which compares what it casts, may tell equal keys apart).
DotsAgree(t, k, i, j) ==
  \A e \in {Key(k, t)}, s1 \in {State(t, i, "block")}, s2 \in {State(t, j, "block")} :
  \A d \in {X!dot(e, s1, e, s2)},
     q \in {X!EqExpression(X!TypeOf(e), X!generate(e, "", s1), X!generate(e, "", s2))} :
    q.err = "none" /\ d.err = "none" /\ k # "param" =>
      IF k = "cast" THEN Truth(d) => Truth(q) ELSE Truth(d) <=> Truth(q)

\* What cannot be written: a comparison, whose call of flushBoolean lacks the file; a
\* quotient of INT64; a computed DATE; a code of a dictionary that is not an attribute.
Unwritable(t, k) ==
  \/ k = "less"
  \/ t = "INT64" /\ k = "quotient"
  \/ t = "DATE" /\ k \in {"sum", "neg", "cast"}
  \/ t = "DSTRING" /\ k \in {"const", "if", "max", "neg", "cast"}

\* What is written for any other expression is its value, by the function of its
\* type (a cast is written by the function of the type it casts from).
FlushesAgree(t, k, i) ==
  \A e \in {Key(k, t)}, s \in {State(t, i, "block")} :
  \A f \in {X!flush(e, "r", s)}, v \in {X!generate(e, "", s)} :
    v.err = "none" =>
      IF Unwritable(t, k) THEN f.err # "none"
      ELSE f = X!flushValueEager(IF k = "cast" THEN X!T(t) ELSE X!TypeOf(e), v)

\* A comparison with a string, on either side, decides for the code as for the
\* string it stands for: always for equality, and for the inequalities if the
\* codes of the dictionary are in the order of its strings.
LiteralsAgree(dict, code, v) ==
  LET s == [bindings |-> (<<"r", "oid">> :> X!Ok(1, FALSE)) @@ (<<"r", "a">> :> X!Ok(code, FALSE)),
            plugins |-> ("r" :> "block"), params |-> <<>>, mem |-> <<>>]
      a == Attr("DSTRING")
      x == dict[code]
      sorted == \A c, d \in DOMAIN dict : c < d => dict[c] < dict[d]
      cases == <<<<X!eq(a, dict, v), x = v>>, <<X!ne(a, dict, v), x # v>>,
                 <<X!ge(a, dict, v), x >= v>>, <<X!gt(a, dict, v), x > v>>,
                 <<X!le(a, dict, v), x <= v>>, <<X!lt(a, dict, v), x < v>>,
                 <<X!geLeft(v, dict, a), v >= x>>, <<X!gtLeft(v, dict, a), v > x>>,
                 <<X!leLeft(v, dict, a), v <= x>>, <<X!ltLeft(v, dict, a), v < x>>>>
  IN  \A i \in 1 .. IF sorted THEN 10 ELSE 2 :
        Truth(X!generate(cases[i][1], "", s)) <=> cases[i][2]

---------------------------------------------------------------------------
(* Dates *)

Leaps(y) == ((y - 1) \div 4) - ((y - 1) \div 100) + ((y - 1) \div 400)
IsLeap(y) == (y % 4 = 0 /\ y % 100 # 0) \/ y % 400 = 0
Length(y, m) == CASE m = 2 -> IF IsLeap(y) THEN 29 ELSE 28 [] m \in {4, 6, 9, 11} -> 30 [] OTHER -> 31
Before == [m \in 1 .. 12 |-> (<<0, 31, 59, 90, 120, 151, 181, 212, 243, 273, 304, 334>>)[m]]
DayNumber(y, m, d) ==
  365 * (y - 1970) + Leaps(y) - Leaps(1970) + Before[m] + (IF m > 2 /\ IsLeap(y) THEN 1 ELSE 0) + d - 1

\* Extract gives the proleptic Gregorian date, the weekday and the time of day of every
\* date from the epoch on. Before it, the time of day is right and the date is that of
\* the milliseconds read without their sign (CreateUDiv). DAYOFYEAR is never the day of
\* the year: it is the Julian day of the year's first of January, whatever the month and
\* the day (expressions-generator.cpp:1479, 1597-1634).
DatesAgree(n, tick) ==
  LET ms == n * D!MS_PER_DAY + tick
      day == D!Unsigned(ms, DateBits) \div D!MS_PER_DAY
      get(u) == D!ExtractExpression(u, D!Ok(ms, FALSE)).v
      y == get("YEAR") m == get("MONTH") d == get("DAYOFMONTH")
  IN  /\ n >= 0 => day = n
      /\ m \in 1 .. 12 /\ d \in 1 .. Length(y, m) /\ DayNumber(y, m, d) = day
      /\ get("DAYOFYEAR") = D!EPOCH_JULIAN + DayNumber(y, 1, 1)
      /\ get("QUARTER") = (m + 2) \div 3
      /\ get("DAYOFWEEK") = ((day + 4) % 7) + 1
      /\ get("CENTURY") = (y + 99) \div 100 /\ get("DECADE") = y \div 10
      /\ get("MILLENNIUM") = (y + 999) \div 1000
      /\ (get("HOUR") * 2 + get("MINUTE")) * 2 + get("SECOND") = tick \div 2

-----------------------------------------------------------------------------
(* Input plugins *)

DateText == <<100>>
V == INSTANCE CsvPlugin WITH
       IntBits <- 10, delimInner <- 59, stringBrackets <- FALSE, ShortBits <- 5,
       Dates <- (DateText :> 3)
J == INSTANCE JsonPlugin WITH IntBits <- 10, MAXTOKENS <- 6
B == INSTANCE BinaryPlugins WITH Beyond <- <<0>>

---------------------------------------------------------------------------
(* CSV *)

\* A table of n rows and k columns: digits, of a length that varies.
Cell(i, j, seed) == SubSeq(<<49, 55, 52>>, 1, 1 + ((2 * i + j * seed) % 3))
CellType(j, seed) == IF (j + seed) % 3 = 0 THEN "STRING" ELSE IF (j + seed) % 3 = 1 THEN "INT" ELSE "FLOAT"
RECURSIVE Line(_, _, _, _)
Line(i, j, k, seed) ==
  Cell(i, j, seed) \o (IF j = k THEN <<10>> ELSE <<59>> \o Line(i, j + 1, k, seed))
File(k, seed) == Line(1, 1, k, seed) \o (IF seed = 0 THEN <<13, 10>> ELSE <<>>) \o Line(2, 1, k, seed)
ColumnTypes(k, seed) == [j \in 1 .. k |-> CellType(j, seed)]

Decimal(b) == FoldLeft(LAMBDA n, c : 10 * n + (c - 48), 0, b)
Means(t, b) ==
  CASE t = "STRING" -> b
    [] t = "INT" -> ((Decimal(b) + 512) % 1024) - 512
    [] t = "FLOAT" -> Decimal(b)
Table(k, seed, wanted) ==
  [i \in 1 .. 2 |-> [w \in DOMAIN wanted |->
     Means(CellType(wanted[w], seed), Cell(i, wanted[w], seed))]]

Ordered(S) == SetToSortSeq(S, <)

\* The scan jumps backwards to the field from one that no line has.  What it reads are
\* the fields wanted that are not cached.
Overshoots(k, policy, reads) ==
  \E w \in DOMAIN reads :
    LET needed == reads[w] - 1
        curr == IF w = 1 THEN 0 ELSE reads[w - 1]
    IN  /\ 2 * (needed % policy) > policy
        /\ needed - curr > policy - (needed % policy)
        /\ (needed \div policy + 1) * policy >= k

\* The caching service has the fields S whole, and of the others nothing a scan takes:
\* the first field of a structure, or one that is not full.
CachedFields(k, seed, S) ==
  [a \in 1 .. k |-> [structFieldNo |-> IF a \in S THEN 1 ELSE a % 2, isFull |-> a \in S \/ a % 2 = 0,
                     payload |-> [i \in 1 .. 2 |-> Means(CellType(a, seed), Cell(i, a, seed))]]]
CacheChoices(wanted) == IF Len(wanted) <= 3 THEN SUBSET ToSet(wanted) ELSE {{}, {wanted[1], wanted[3]}}

Fits(k, seed) == \A i \in 1 .. 2 : Len(Line(i, 1, k, seed)) <= 16

\* The first scan of a file reads the fields of its lines, and stays within
\* the map unless there are more lines than it was told.  The second, which
\* jumps to the fields that are not cached, reads the same from as many lines as it was
\* told, unless it meets a place the map has not: a line or an offset that was not
\* noted.  Lines whose offsets do not fit a short are left to the first scan.
\* (csv-plugin-pm.cpp:1522-2112)
CsvExact(k, seed, policy, hint, wanted) ==
  \A f \in {File(k, seed)}, rec \in {ColumnTypes(k, seed)}, rows \in {Table(k, seed, wanted)} :
  \A pg \in {V!CSVPluginDelim(rec, Reverse(wanted), hint, policy, FALSE, {})} :
  \A first \in {V!generate(pg, f, V!registered({}), <<>>)} :
    /\ first.err = "none" /\ first.rows = rows
    /\ first.pm.overflow <=> hint < 2
    /\ Fits(k, seed) => \A S \in CacheChoices(wanted) :
         \A second \in {V!generate([pg EXCEPT !.hasPM = TRUE], f, {first.pm}, CachedFields(k, seed, S))},
            unset \in {Overshoots(k, policy, SelectSeq(wanted, LAMBDA a : a \notin S))} :
           /\ second.err = IF unset \/ hint > 2 THEN "unset" ELSE "none"
           /\ ~unset => second.rows = SubSeq(rows, 1, Min({hint, 2}))
    /\ (seed # 0 /\ \A w \in DOMAIN wanted : rec[wanted[w]] # "STRING") =>
         V!scanCSV(rec, wanted, f, 0, <<>>) = [err |-> "none", rows |-> rows]

\* The constructor without a delimiter has room for the offsets of a line only
\* if the policy divides the number of the fields; a header is not read.
\* (csv-plugin-pm.cpp:47-127, 314-317)
CsvRoom(k, seed, policy) ==
  \A rec \in {ColumnTypes(k, seed)} : \A pg \in {V!CSVPlugin(rec, <<1>>, 2, policy, {})} :
    /\ pg.err = "throw" <=> policy > k
    /\ pg.err = "none" =>
         (V!generate(pg, File(k, seed), V!registered({}), <<>>).pm.overflow <=> k % policy # 0)
    /\ V!generate([V!CSVPluginDelim(rec, <<k>>, 1, policy, TRUE, {}) EXCEPT !.wanted = <<k>>],
                   File(k, seed), V!registered({}), <<>>).rows = Tail(Table(k, seed, <<k>>))

Minus5 == <<45, 53>>
Texts ==
  UNION {[1 .. n -> {48, 57}] : n \in 0 .. 3} \cup {DateText, <<49, 48>>, <<116, 114, 117, 101>>}
    \cup {[i \in 1 .. n |-> 48 + (i % 10)] : n \in 8 .. 11} \cup {Minus5, <<45, 49, 48>>}
Digital(b) == \A i \in DOMAIN b : b[i] \in 48 .. 57

Number(b) == IF b # <<>> /\ b[1] = 45 THEN -Decimal(Tail(b)) ELSE Decimal(b)
Numeric(b) == Digital(b) \/ (Len(b) > 1 /\ b[1] = 45 /\ Digital(Tail(b)))

\* A text is converted to itself, a boolean and a date if they are spelled as the code
\* knows them, a float to the number it says.  An integer is what its one to ten
\* characters amount to in the width of an int if every one counts as its distance from
\* '0': the number it says if they are digits, and never if it is negative (-5 is -25).
\* An empty number or date ends the query, except a float, which is then read from the
\* next line if its line ends.  (csv-plugin-pm.cpp:1026-1520, atois.cpp)
FieldExact(id, b, after) ==
  \A f \in {b \o <<after, 51, 10>>} : \A r \in {V!readField(id, f, 0)} :
    CASE id = "STRING" -> r = V!Ok(b)
      [] id = "BOOL" -> r = IF b = <<48>> THEN V!Ok(0)
                            ELSE IF b = <<116, 114, 117, 101>> THEN V!Ok(1) ELSE V!Err("throw")
      [] id = "DATE" -> r = IF b = DateText THEN V!Ok(3) ELSE V!Err("abort")
      [] id = "INT" -> /\ r = IF Len(b) \in 1 .. 10 THEN V!Ok(Means("INT", b)) ELSE V!Err("trap")
                       /\ Numeric(b) /\ Len(b) \in 1 .. 2 => (r.v = Number(b) <=> Digital(b))
      [] id = "FLOAT" -> Numeric(b) /\ Len(b) < 10 =>
           r = V!Ok(IF b = <<>> /\ after = 10 THEN 3 ELSE Number(b))

CsvInit ==
  \E k \in 1 .. 6, seed \in 0 .. 2, policy \in 1 .. 5, hint \in 1 .. 3 :
    \E S \in SUBSET (1 .. k) \ {{}} :
      /\ hint # 2 => Cardinality(S) = 1
      /\ sample = <<k, seed, policy, hint, Ordered(S)>>
FieldInit ==
  \E id \in {"STRING", "BOOL", "DATE", "INT", "FLOAT"}, b \in Texts, after \in {59, 10} :
    (id = "FLOAT" => Len(b) < 10) /\ sample = <<id, b, after>>

---------------------------------------------------------------------------
(* JSON.  A value is a pair: a number or a string and its characters, an   *)
(* array and its values, an object and its pairs of a key and a value.     *)

Num == <<"n", <<55>>>>
Neg == <<"n", Minus5>>
Str == <<"s", <<97>>>>
Arr(vs) == <<"a", vs>>
Obj(vs) == <<"o", vs>>
Keys == <<<<97>>, <<98, 98>>, <<99>>>>
Keyed(vs) == Obj([i \in DOMAIN vs |-> <<Keys[i], vs[i]>>])

Flat ==
  {Num, Neg, Str, Arr(<<>>), Arr(<<Num>>), Arr(<<Str, Num>>), Keyed(<<>>), Keyed(<<Str>>), Keyed(<<Num, Str>>)}
Deep == {Arr(<<Arr(<<Num, Str>>), Num>>), Keyed(<<Keyed(<<Num>>), Str>>),
         Arr(<<Keyed(<<Num>>), Keyed(<<Str>>)>>), Arr(<<Arr(<<>>), Arr(<<Arr(<<>>)>>)>>)}

RECURSIVE Shown(_), ShownAll(_, _), TokensOf(_), TokensOfAll(_)
Shown(v) ==
  CASE v[1] = "n" -> v[2]
    [] v[1] = "s" -> <<34>> \o v[2] \o <<34>>
    [] v[1] = "a" -> <<91>> \o ShownAll(v[2], FALSE) \o <<93>>
    [] v[1] = "o" -> <<123>> \o ShownAll(v[2], TRUE) \o <<125>>
ShownAll(vs, keyed) ==
  IF vs = <<>> THEN <<>>
  ELSE (IF keyed THEN <<34>> \o vs[1][1] \o <<34, 58>> \o Shown(vs[1][2]) ELSE Shown(vs[1]))
         \o (IF Len(vs) = 1 THEN <<>> ELSE <<44>> \o ShownAll(Tail(vs), keyed))

\* The values of a collection: those of an object follow their keys.
Members(v) ==
  CASE v[1] = "a" -> v[2]
    [] v[1] = "o" -> FlattenSeq([i \in DOMAIN v[2] |-> <<<<"s", v[2][i][1]>>, v[2][i][2]>>])
    [] OTHER -> <<>>
TokensOf(v) == 1 + TokensOfAll(Members(v))
TokensOfAll(vs) == IF vs = <<>> THEN 0 ELSE TokensOf(vs[1]) + TokensOfAll(Tail(vs))

\* The token of the k-th member of the value whose token is n.
MemberAt(v, n, k) == n + 1 + TokensOfAll(SubSeq(Members(v), 1, k - 1))

\* The number of a field's value among the members.
ValueOf(k) == 2 * k
\* A value is passed over rightly if nothing is in what is in it.
Passable(v) == \A i \in DOMAIN Members(v) : Members(Members(v)[i]) = <<>>

\* The tokens of the members, and any further ones if what follows them is beyond the
\* array: the line fills it, and the value ends with the line's last token.
AtTheEnd(row, n, v) == n + TokensOf(v) = row.cap
MembersFrom(row, n, v) ==
  [k \in 1 .. Len(Members(v)) |-> MemberAt(v, n, k)] \o (IF AtTheEnd(row, n, v) THEN <<J!Anywhere>> ELSE <<>>)

RECURSIVE Unnested(_, _, _)
Unnested(row, id, i) ==
  CASE J!collectionHasNext(row, id, i) = {TRUE} -> <<i>> \o Unnested(row, id, J!collectionGetNext(row, i))
    [] J!collectionHasNext(row, id, i) = {FALSE} -> <<>>
    [] OTHER -> <<J!Anywhere>>

\* A path leads to the field it names if no field before it has something
\* nested in what it holds; a field that an object has not is not found, but
\* only a token after the object ends the search for it.
\* (json-plugin.cpp:1142-1613)
PathExact(f, row, id, v) ==
  \A k \in 1 .. 3 : \A vs \in {v[2]} :
    (\A i \in 1 .. Min({k - 1, Len(vs)}) : Passable(vs[i][2])) =>
      IF k <= Len(vs)
      THEN /\ J!readPath([staticSchema |-> FALSE], f, row, id, Keys[k], 0).tokenNo = MemberAt(v, id.tokenNo, ValueOf(k))
           /\ J!readPath([staticSchema |-> TRUE], f, row, id, Keys[k], k).tokenNo = MemberAt(v, id.tokenNo, ValueOf(k))
      ELSE (\A i \in DOMAIN vs : Passable(vs[i][2])) =>
             J!readPath([staticSchema |-> FALSE], f, row, id, Keys[k], 0).tokenNo
               = IF id.tokenNo + TokensOf(v) < Len(row.tokens) THEN -1 ELSE J!Anywhere

\* A collection is unnested into the values directly in it, however deep they are,
\* unless it ends with the last token of a line that fills the array: then the code goes
\* on beyond it.  A value is the text it was written as; an integer that is negative is
\* not read as such.  (json-plugin.cpp:426-851, 1801-2065, 2555-2614)
ValueExact(f, row, id, v) ==
  /\ v[1] \in {"a", "o"} =>
       Unnested(row, id, J!initCollectionUnnest(id)) = MembersFrom(row, id.tokenNo, v)
  /\ v[1] # "s" => J!flushChunk(f, row, id) = V!Ok(Shown(v))
  /\ J!getValueSize(row, id.tokenNo).v = Len(J!flushChunk(f, row, id).v)
  /\ v[1] = "s" => J!readValue(f, row, id, "STRING") = V!Ok(v[2])
  /\ v[1] = "n" => /\ J!readValue(f, row, id, "INT") = V!Ok(Means("INT", v[2]))
                   /\ J!readValue(f, row, id, "FLOAT") = V!Ok(Number(v[2]))

\* Every line gives one object, and a second scan the same ones.
\* (json-plugin.cpp:853-1033)
JsonExact(vs) ==
  \A v \in {Keyed(vs)} : \A f \in {<<123, 125, 10>> \o Shown(v) \o <<10>>} :
  \A hint \in {1, 2} :
  \A first \in {J!generate(J!JSONPlugin(hint, TRUE, {}), f, J!initPM({}))} :
    /\ first.err = "none"
    /\ first.oids = <<J!oid(0, 0, 0), J!oid(3, 1, 0)>>
    /\ first.pm.overflow <=> hint < 2
    /\ J!generate(J!JSONPlugin(hint, TRUE, {first.pm}), f, J!initPM({first.pm})) = first
    /\ \A row \in {first.pm.rows[2]}, id \in {first.oids[2]} :
         /\ Len(row.tokens) = TokensOf(v) /\ Len(row.tokens) <= row.cap
         /\ PathExact(f, row, id, v)
         /\ ValueExact(f, row, id, v)
         /\ \A k \in DOMAIN vs : \A in \in {[id EXCEPT !.tokenNo = MemberAt(v, 0, ValueOf(k))]} :
              /\ ValueExact(f, row, in, vs[k])
              /\ vs[k][1] = "o" => PathExact(f, row, in, vs[k])

RECURSIVE UnnestedArray(_, _, _)
UnnestedArray(row, parent, i) ==
  CASE J!array_collectionHasNext(row, parent, i) = {TRUE} ->
         <<i>> \o UnnestedArray(row, parent, J!array_collectionGetNext(row, i))
    [] J!array_collectionHasNext(row, parent, i) = {FALSE} -> <<>>
    [] OTHER -> <<J!Anywhere>>

Atomic(v) == v[1] \in {"n", "s"}

\* The plugin for a file that is one array finds its objects, a field that only
\* fields without contents precede, and the values of a collection; the scans
\* that are generated and interpreted agree.  If the file fills the array of tokens, both
\* scans go on beyond it after the last object.  (json-jsmn-plugin.cpp)
ArrayExact(vs) ==
  \A v \in {Arr(<<Keyed(vs), Keyed(<<Num, Str>>)>>)} : \A f \in {Shown(v)} :
  \A row \in {J!array_JSONPlugin(f)}, ts \in {[k \in {1, 2} |-> MemberAt(v, 0, k)]} :
    /\ row.err = "none"
    /\ J!array_scanObjects(row) = <<ts[1], ts[2]>> \o (IF AtTheEnd(row, 0, v) THEN <<J!Anywhere>> ELSE <<>>)
    /\ \A o \in {1, 2}, k \in 1 .. 3 : \A fields \in {v[2][o][2]} :
         (k <= Len(fields) /\ \A i \in 1 .. k - 1 : Atomic(fields[i][2])) =>
           \A t \in {MemberAt(v[2][o], ts[o], ValueOf(k))}, w \in {fields[k][2]} :
             /\ J!array_readPath(f, row, ts[o], Keys[k]) = t
             /\ J!readPathInternal(f, row, ts[o], Keys[k]) = t
             /\ J!scanObjectsInterpreted(f, row, <<Keys[k]>>)[o] = t
             /\ w[1] = "o" /\ Len(w[2]) > 0 =>
                  J!scanObjectsInterpreted(f, row, <<Keys[k], Keys[1]>>)[o] = t + 2
             /\ w[1] # "s" => J!array_flushChunk(f, row, t) = V!Ok(Shown(w))
             /\ w[1] = "n" => J!array_readValue(f, row, t, "INT") = V!Ok(Number(w[2]))
             /\ w[1] = "s" => J!array_readValue(f, row, t, "STRING") = V!Ok(w[2])
             /\ J!array_getValueSize(row, t).v = Len(J!array_flushChunk(f, row, t).v)
             /\ w[1] \in {"a", "o"} =>
                  /\ UnnestedArray(row, t, J!array_initCollectionUnnest(t)) = MembersFrom(row, t, w)
                  /\ J!unnestObjectInterpreted(row, t) = UnnestedArray(row, t, J!array_initCollectionUnnest(t))

\* A text that is cut or whose brackets do not match ends the query.
\* (jsmn.c:262-419)
CutExact(vs) ==
  \A text \in {Shown(Keyed(vs))} :
    /\ \A n \in 1 .. Len(text) - 1 : J!parseLineJSON(text, 0, n).err # "none"
    /\ J!parseLineJSON(Front(text) \o <<93>>, 0, Len(text)).err = "INVAL"

JsonInit ==
  \/ \E a \in Flat \cup Deep, b \in Flat \cup Deep : sample = <<a, b, Num>>
  \/ \E a \in Flat \cup Deep : sample = <<a>>

---------------------------------------------------------------------------
(* Binary files: a byte is named by its row, its field and its number.     *)

Value(i, j, n) == [b \in 1 .. n |-> <<i, j, b>>]

\* The values of the fields wanted, in their order, are read from each row, and
\* the identity of a row is where the next begins; a float brings the bytes
\* after it along.  (binary-row-plugin.cpp:461-697)
RowExact(rec, wanted) ==
  \A row \in {[i \in 1 .. 2 |-> FlattenSeq([j \in DOMAIN rec |-> Value(i, j, B!Width[rec[j]])])]} :
  \A got \in {B!row_generate(rec, wanted, row[1] \o row[2])} :
    /\ Len(got) = 2
    /\ \A i \in 1 .. 2 :
         /\ got[i].oid = i * Len(row[1])
         /\ \A w \in DOMAIN wanted : \A t \in {rec[wanted[w]]} :
              /\ SubSeq(got[i].values[w], 1, B!Width[t]) = Value(i, wanted[w], B!Width[t])
              /\ Len(got[i].values[w]) = B!Width[t] <=> t # "FLOAT"

\* Columns of n and m values: every row of the first one's number is read, the
\* values of a column from after its header unless they are booleans, and from
\* beyond its end where it is shorter.  (binary-col-plugin.cpp:214-352, 971-1222)
ColExact(types, n, m, sizeInFile) ==
  \A count \in {<<n, m>>} :
  \A files \in {[c \in DOMAIN types |->
       (IF sizeInFile THEN Value(0, c, B!Header) ELSE <<>>)
         \o FlattenSeq([i \in 1 .. count[c] |-> Value(i, c, B!SizeOf[types[c]])])]} :
  \A got \in {B!col_scan([c \in DOMAIN types |->
       [type |-> types[c], file |-> files[c], count |-> count[c]]], sizeInFile)} :
    /\ Len(got) = n
    /\ \A i \in 1 .. n :
         /\ got[i].oid = i
         /\ B!readCachedValue(got, got[i].oid) = got[i]
         /\ \A c \in DOMAIN types :
              (~(sizeInFile /\ types[c] = "BOOL") /\ i <= count[c]) <=>
                got[i].values[c] = Value(i, c, B!SizeOf[types[c]])

\* The tuples of every partition are handed on once, in blocks that fit the
\* memory of a block in every column and whose identities do not meet; threads
\* that share a block visit each of its tuples once; all that was pinned is
\* released, unless a column has another number of segments.
\* (binary-block-plugin.cpp:340-401, 456-637, 647-849, 981-1043)
BlockExact(tuples, sizes, block_size, segments) ==
  \A pg \in {B!loadData([c \in DOMAIN sizes |->
       [size |-> sizes[c], pinned |-> FALSE,
        segments |-> [p \in 1 .. (IF c = 1 THEN Len(tuples) ELSE segments) |->
          sizes[c] * (IF p \in DOMAIN tuples THEN tuples[p] ELSE 1)]]])} :
  \A s \in {B!scan(pg, block_size)} :
    IF Len(sizes) > 1 /\ segments # Len(tuples)
    THEN s.pg.err = "throw" /\ s.blocks = <<>>
    ELSE /\ s.pg = pg
         /\ \A p \in DOMAIN tuples : \A t \in 0 .. tuples[p] - 1 :
              Quantify(DOMAIN s.blocks, LAMBDA k :
                s.blocks[k].part = p - 1 /\ t \in s.blocks[k].at .. s.blocks[k].at + s.blocks[k].n - 1) = 1
         /\ \A k \in DOMAIN s.blocks :
              /\ s.blocks[k].at + s.blocks[k].n <= tuples[s.blocks[k].part + 1]
              /\ \A c \in DOMAIN sizes : s.blocks[k].n * sizes[c] <= block_size
              /\ \A l \in 1 .. k - 1 : s.blocks[l].oid + s.blocks[l].n <= s.blocks[k].oid
              /\ \A step \in 1 .. 3 : \A visits \in {FlattenSeq([o \in 1 .. step |->
                   B!forEachInCollection(o - 1, step, s.blocks[k].n)])} :
                   Len(visits) = s.blocks[k].n /\ ToSet(visits) = 0 .. s.blocks[k].n - 1

\* Every value of a record, however deep, goes to a file of its own, one of
\* those that are written out at the end.  (binary-block-plugin.cpp:873-973)
OutputExact(type, v, leaves, path) ==
  \A written \in {B!flushValue(v, type, path)}, flushed \in {B!flushOutput(type, path)} :
    /\ [i \in DOMAIN written |-> written[i][2]] = flushed
    /\ [i \in DOMAIN written |-> written[i][1]] = leaves
    /\ IsInjective(flushed)

\* What joins and nests keep of a tuple comes back whole if it has neither a
\* boolean nor a string and the compiler pads nothing, and only then; what is
\* scanned of it has its identifiers first.
\* (plugins-output.cpp:64-222, functions.cpp:214-225, binary-internal-plugin.cpp:102-231)
KeptExact(types, oids) ==
  \A mat \in {B!Materializer([i \in DOMAIN types |-> [type |-> types[i], isOid |-> i \in oids]])} :
  \A pg \in {B!OutputPlugin(mat)} :
    \/ pg.err = "throw" /\ \E i \in DOMAIN types \ oids : types[i] = "LIST"
    \/ /\ pg.err = "none"
       /\ \A kept \in {B!insertToHT(pg.materializedTypes, pg.payloadTypeSize)} :
            kept = DOMAIN types <=>
              \A ts \in {pg.materializedTypes} : \A i \in DOMAIN ts :
                /\ ts[i] \notin {"BOOL", "STRING"}
                /\ \A j \in 1 .. i - 1 : B!Align[ts[j]] = 4 /\ B!Align[ts[i]] = 8 =>
                     Quantify(1 .. i - 1, LAMBDA k : B!Align[ts[k]] = 4) % 2 = 0
       /\ \A entry \in {[i \in DOMAIN types |-> i]} :
          \A in \in {B!BinaryInternalPlugin(mat.wantedOIDs, mat.wantedFields,
                       [payload |-> <<entry, entry>>, itemCount |-> 2])} :
            /\ B!internal_generate(in).rows = [k \in 1 .. 2 |-> [i \in DOMAIN types |->
                 <<[type |-> pg.materializedTypes[i], isOid |-> i <= Cardinality(oids)], i>>]]
            /\ B!internal_generate(B!Unbuffered).err = "throw"

Scalar == <<"INT">>
Outputs == {
  <<Scalar, "x", <<"x">>>>,
  <<<<"LIST">>, "x", <<"throw">>>>,
  <<<<"RECORD", <<<<"a", Scalar>>, <<"b", Scalar>>>>>>, <<"x", "y">>, <<"x", "y">>>>,
  <<<<"RECORD", <<<<"a", <<"RECORD", <<<<"b", Scalar>>, <<"c", <<"BAG">>>>>>>>>>, <<"b", Scalar>>>>>>,
    <<<<"x", "y">>, "z">>, <<"x", "throw", "z">>>>}
Paths == [relative : BOOLEAN, parts : {<<"d">>, <<"d", "e">>}]

RowInit == \E k \in 1 .. 3 : \E rec \in [1 .. k -> DOMAIN B!Width] :
  \E W \in SUBSET (1 .. k) : sample = <<rec, Ordered(W)>>
ColInit == \E t \in DOMAIN B!SizeOf, u \in DOMAIN B!SizeOf, n \in 1 .. 2, m \in 1 .. 2, h \in BOOLEAN :
  sample = <<<<t, u>>, n, m, h>>
BlockInit == \E k \in 1 .. 3 : \E tuples \in [1 .. k -> 0 .. 3], sizes \in {<<4>>, <<4, 8>>, <<8, 1>>},
    block_size \in {8, 16, 24}, segments \in {2, k} :
  sample = <<tuples, sizes, block_size, segments>>
KeptInit == \E k \in 1 .. 3 : \E types \in [1 .. k -> {"INT", "BOOL", "FLOAT", "STRING", "LIST"}],
    oids \in SUBSET (1 .. k) :
  /\ \A i \in oids : types[i] = "INT"
  /\ sample = <<types, oids>>
OutputInit == \E o \in Outputs, path \in Paths : sample = <<o[1], o[2], o[3], path>>

---------------------------------------------------------------------------
Days == (-400 .. -1) \cup (0 .. 1500) \cup (10900 .. 11400) \cup (47450 .. 47550) \cup (157000 .. 157150)
Init ==
  \/ about = "plan" /\ sample \in Plans
  \/ /\ about = "compare"
     /\ \E t \in Types : \E i, j \in DOMAIN Samples(t) : sample = <<t, i, j>>
  \/ /\ about = "arithmetic"
     /\ \E t \in {"BOOL", "INT", "INT64", "DATE"} : \E i, j \in DOMAIN Samples(t) : sample = <<t, i, j>>
  \/ /\ about = "hash"
     /\ \E t \in Types : \E k2 \in Kinds : \E k1 \in {"attr", k2} : \E i, j \in DOMAIN Samples(t) :
          \E p \in {"block", "json"} : sample = <<t, k1, k2, i, j, p>>
  \/ /\ about = "dot"
     /\ \E t \in Types : \E k \in Kinds : \E i, j \in DOMAIN Samples(t) : sample = <<t, k, i, j>>
  \/ /\ about = "literal"
     /\ \E dict \in {<<3, 5, 9>>, <<5, 3, 9>>, <<9, 5, 3>>} : \E c \in 1 .. 3, v \in {3, 5, 9} :
          sample = <<dict, c, v>>
  \/ /\ about = "date"
     /\ \E n \in Days : sample = <<n, (7 * n) % 16>>
  \/ about = "row" /\ RowInit
  \/ about = "col" /\ ColInit
  \/ about = "block" /\ BlockInit
  \/ about = "output" /\ OutputInit
  \/ about = "kept" /\ KeptInit
  \/ about = "csv" /\ CsvInit
  \/ about = "field" /\ FieldInit
  \/ about = "json" /\ JsonInit

Next == UNCHANGED <<about, sample>>

\* Generated comparisons and arithmetic, hashes, key comparisons, what is
\* written and extracted dates agree with what they stand for, under the conditions
\* the operators above state.
ExpressionsExact ==
  CASE about = "compare" -> ComparisonsAgree(sample[1], sample[2], sample[3])
    [] about = "arithmetic" -> ArithmeticAgrees(sample[1], sample[2], sample[3])
    [] about = "hash" -> HashesAgree(sample[1], sample[2], sample[3], sample[4], sample[5], sample[6])
    [] about = "dot" -> /\ DotsAgree(sample[1], sample[2], sample[3], sample[4])
                        /\ FlushesAgree(sample[1], sample[2], sample[3])
    [] about = "literal" -> LiteralsAgree(sample[1], sample[2], sample[3])
    [] about = "date" -> DatesAgree(sample[1], sample[2])
    [] OTHER -> TRUE

\* What each input plugin reads from a file, at whichever scan of it, is what
\* the file holds, under the conditions the operators above state: the
\* positional maps and the token arrays lead to the same fields as the first
\* scan, and no tuple is read twice or left out.  (core/olap/lib/plugins)
PluginsExact ==
  CASE about = "csv" ->
         /\ CsvExact(sample[1], sample[2], sample[3], sample[4], sample[5])
         /\ sample[5] = <<1>> => CsvRoom(sample[1], sample[2], sample[3])
    [] about = "field" -> FieldExact(sample[1], sample[2], sample[3])
    [] about = "json" -> JsonExact(sample) /\ ArrayExact(sample) /\ CutExact(sample)
    [] about = "row" -> RowExact(sample[1], sample[2])
    [] about = "col" -> ColExact(sample[1], sample[2], sample[3], sample[4])
    [] about = "block" -> BlockExact(sample[1], sample[2], sample[3], sample[4])
    [] about = "kept" -> KeptExact(sample[1], sample[2])
    [] about = "output" -> OutputExact(sample[1], sample[2], sample[3], sample[4])
    [] OTHER -> TRUE
=============================================================================
