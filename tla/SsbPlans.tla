------------------------------ MODULE SsbPlans ------------------------------
(***************************************************************************)
(* The Star Schema Benchmark: the queries written against a query shaper   *)
(* (apps/benchmarks/olap/prepared-queries/ssb), each a record with the     *)
(* fields that QueryShaper.parallel takes, and the plans of ssb100_bloom.  *)
(***************************************************************************)
EXTENDS QueryShaper

prepare11 ==
  [probe  |-> <<scan("lineorder", <<"lo_orderdate", "lo_quantity", "lo_extendedprice", "lo_discount">>)>>,
   builds |-> << <<scan("date", <<"d_datekey", "d_year">>)>> >>,
   pipe   |-> <<unpack, filterHinted(<<"lo_discount", "lo_quantity">>),
              joinHinted(build(1) \o <<unpack, filterHinted(<<"d_year">>), project(<<A("d_datekey")>>)>>,
                A("d_datekey"), A("lo_orderdate")),
              reduce(<<As("revenue", <<"lo_extendedprice", "lo_discount">>)>>)>>,
   top    |-> <<reduce(<<A("revenue")>>), printAll>>]

prepare12 ==
  [probe  |-> <<scan("lineorder", <<"lo_orderdate", "lo_quantity", "lo_extendedprice", "lo_discount">>)>>,
   builds |-> << <<scan("date", <<"d_datekey", "d_yearmonthnum">>)>> >>,
   pipe   |-> <<unpack,
              join(build(1) \o <<unpack, filterHinted(<<"d_yearmonthnum">>), project(<<A("d_datekey")>>)>>,
                A("d_datekey"), A("lo_orderdate")), filterHinted(<<"lo_discount", "lo_quantity">>),
              reduce(<<As("revenue", <<"lo_extendedprice", "lo_discount">>)>>)>>,
   top    |-> <<reduce(<<A("revenue")>>), printAll>>]

prepare13 ==
  [probe  |-> <<scan("lineorder", <<"lo_orderdate", "lo_quantity", "lo_extendedprice", "lo_discount">>)>>,
   builds |-> << <<scan("date", <<"d_datekey", "d_year", "d_weeknuminyear">>)>> >>,
   pipe   |-> <<unpack,
              join(build(1) \o <<unpack, filterHinted(<<"d_weeknuminyear", "d_year">>),
                project(<<A("d_datekey")>>)>>, A("d_datekey"), A("lo_orderdate")),
              filterHinted(<<"lo_discount", "lo_quantity">>),
              reduce(<<As("revenue", <<"lo_extendedprice", "lo_discount">>)>>)>>,
   top    |-> <<reduce(<<A("revenue")>>), printAll>>]

prepare21 ==
  [probe  |-> <<scan("lineorder", <<"lo_partkey", "lo_suppkey", "lo_orderdate", "lo_revenue">>)>>,
   builds |-> << <<scan("date", <<"d_datekey", "d_year">>)>>, <<scan("supplier", <<"s_suppkey", "s_region">>)>>,
              <<scan("part", <<"p_partkey", "p_category", "p_brand1">>)>> >>,
   pipe   |-> <<unpack,
              joinHinted(build(3) \o <<unpack, filterHinted(<<"p_category">>), project(<<A("p_partkey"),
                A("p_brand1")>>)>>, A("p_partkey"), A("lo_partkey")),
              joinHinted(build(2) \o <<unpack, filterHinted(<<"s_region">>), project(<<A("s_suppkey")>>)>>,
                A("s_suppkey"), A("lo_suppkey")),
              joinHinted(build(1) \o <<unpack>>, A("d_datekey"), A("lo_orderdate")),
              groupby(<<As("d_year", <<"d_year">>), As("p_brand1", <<"p_brand1">>)>>, <<As("EXPR$0",
                <<"lo_revenue">>)>>), pack>>,
   top    |-> <<unpack, groupby(<<A("d_year"), A("p_brand1")>>, <<A("EXPR$0")>>),
              project(<<A("EXPR$0"), A("d_year"), A("p_brand1")>>),
              sort(<<A("EXPR$0"), A("d_year"), A("p_brand1")>>, 3), printAll>>]

prepare22 ==
  [probe  |-> <<scan("lineorder", <<"lo_partkey", "lo_suppkey", "lo_orderdate", "lo_revenue">>)>>,
   builds |-> << <<scan("date", <<"d_datekey", "d_year">>)>>, <<scan("supplier", <<"s_suppkey", "s_region">>)>>,
              <<scan("part", <<"p_partkey", "p_brand1">>)>> >>,
   pipe   |-> <<unpack,
              joinHinted(build(3) \o <<unpack, filterHinted(<<"p_brand1">>), project(<<A("p_partkey"),
                A("p_brand1")>>)>>, A("p_partkey"), A("lo_partkey")),
              joinHinted(build(2) \o <<unpack, filterHinted(<<"s_region">>), project(<<A("s_suppkey")>>)>>,
                A("s_suppkey"), A("lo_suppkey")),
              joinHinted(build(1) \o <<unpack>>, A("d_datekey"), A("lo_orderdate")),
              groupby(<<As("d_year", <<"d_year">>), As("p_brand1", <<"p_brand1">>)>>, <<As("EXPR$0",
                <<"lo_revenue">>)>>), pack>>,
   top    |-> <<unpack, groupby(<<A("d_year"), A("p_brand1")>>, <<A("EXPR$0")>>),
              sort(<<A("EXPR$0"), A("d_year"), A("p_brand1")>>, 3), printAll>>]

prepare23 ==
  [probe  |-> <<scan("lineorder", <<"lo_partkey", "lo_suppkey", "lo_orderdate", "lo_revenue">>)>>,
   builds |-> << <<scan("date", <<"d_datekey", "d_year">>)>>, <<scan("supplier", <<"s_suppkey", "s_region">>)>>,
              <<scan("part", <<"p_partkey", "p_brand1">>)>> >>,
   pipe   |-> <<unpack,
              joinHinted(build(3) \o <<unpack, filterHinted(<<"p_brand1">>)>>, A("p_partkey"), A("lo_partkey")),
              joinHinted(build(2) \o <<unpack, filterHinted(<<"s_region">>), project(<<A("s_suppkey")>>)>>,
                A("s_suppkey"), A("lo_suppkey")),
              joinHinted(build(1) \o <<unpack>>, A("d_datekey"), A("lo_orderdate")),
              groupby(<<As("d_year", <<"d_year">>), As("p_brand1", <<"p_brand1">>)>>, <<As("EXPR$0",
                <<"lo_revenue">>)>>)>>,
   top    |-> <<groupby(<<A("d_year"), A("p_brand1")>>, <<A("EXPR$0")>>),
              project(<<A("EXPR$0"), A("d_year"), A("p_brand1")>>),
              sort(<<A("EXPR$0"), A("d_year"), A("p_brand1")>>, 3), printAll>>]

prepare31 ==
  [probe  |-> <<scan("lineorder", <<"lo_custkey", "lo_suppkey", "lo_orderdate", "lo_revenue">>)>>,
   builds |-> << <<scan("date", <<"d_datekey", "d_year">>)>>,
              <<scan("customer", <<"c_custkey", "c_nation", "c_region">>)>>,
              <<scan("supplier", <<"s_suppkey", "s_nation", "s_region">>)>> >>,
   pipe   |-> <<unpack,
              joinHinted(build(2) \o <<unpack, filterHinted(<<"c_region">>), project(<<A("c_custkey"),
                A("c_nation")>>)>>, A("c_custkey"), A("lo_custkey")),
              joinHinted(build(3) \o <<unpack, filterHinted(<<"s_region">>), project(<<A("s_suppkey"),
                A("s_nation")>>)>>, A("s_suppkey"), A("lo_suppkey")),
              joinHinted(build(1) \o <<unpack, filterHinted(<<"d_year">>)>>, A("d_datekey"), A("lo_orderdate")),
              groupby(<<As("c_nation", <<"c_nation">>), As("s_nation", <<"s_nation">>), As("d_year",
                <<"d_year">>)>>, <<As("lo_revenue", <<"lo_revenue">>)>>), pack>>,
   top    |-> <<unpack, groupby(<<A("c_nation"), A("s_nation"), A("d_year")>>, <<A("lo_revenue")>>),
              sort(<<A("c_nation"), A("s_nation"), A("d_year"), A("lo_revenue")>>, 4), printAll>>]

prepare32 ==
  [probe  |-> <<scan("lineorder", <<"lo_custkey", "lo_suppkey", "lo_orderdate", "lo_revenue">>)>>,
   builds |-> << <<scan("date", <<"d_datekey", "d_year">>)>>,
              <<scan("customer", <<"c_custkey", "c_city", "c_nation">>)>>,
              <<scan("supplier", <<"s_suppkey", "s_city", "s_nation">>)>> >>,
   pipe   |-> <<unpack,
              joinHinted(build(3) \o <<unpack, filterHinted(<<"s_nation">>), project(<<A("s_suppkey"),
                A("s_city")>>)>>, A("s_suppkey"), A("lo_suppkey")),
              joinHinted(build(2) \o <<unpack, filterHinted(<<"c_nation">>), project(<<A("c_custkey"),
                A("c_city")>>)>>, A("c_custkey"), A("lo_custkey")),
              joinHinted(build(1) \o <<unpack, filterHinted(<<"d_year">>)>>, A("d_datekey"), A("lo_orderdate")),
              groupby(<<As("c_city", <<"c_city">>), As("s_city", <<"s_city">>), As("d_year", <<"d_year">>)>>,
                <<As("lo_revenue", <<"lo_revenue">>)>>), pack>>,
   top    |-> <<unpack, groupby(<<A("c_city"), A("s_city"), A("d_year")>>, <<A("lo_revenue")>>),
              sort(<<A("c_city"), A("s_city"), A("d_year"), A("lo_revenue")>>, 4), printAll>>]

prepare33 ==
  [probe  |-> <<scan("lineorder", <<"lo_custkey", "lo_suppkey", "lo_orderdate", "lo_revenue">>)>>,
   builds |-> << <<scan("date", <<"d_datekey", "d_year">>)>>, <<scan("customer", <<"c_custkey", "c_city">>)>>,
              <<scan("supplier", <<"s_suppkey", "s_city">>)>> >>,
   pipe   |-> <<unpack,
              joinHinted(build(3) \o <<unpack, filterHinted(<<"s_city">>)>>, A("s_suppkey"), A("lo_suppkey")),
              joinHinted(build(2) \o <<unpack, filterHinted(<<"c_city">>), project(<<A("c_custkey"),
                A("c_city")>>)>>, A("c_custkey"), A("lo_custkey")),
              joinHinted(build(1) \o <<unpack, filterHinted(<<"d_year">>)>>, A("d_datekey"), A("lo_orderdate")),
              groupby(<<As("c_city", <<"c_city">>), As("s_city", <<"s_city">>), As("d_year", <<"d_year">>)>>,
                <<As("lo_revenue", <<"lo_revenue">>)>>), pack>>,
   top    |-> <<unpack, groupby(<<A("c_city"), A("s_city"), A("d_year")>>, <<A("lo_revenue")>>),
              sort(<<A("c_city"), A("s_city"), A("d_year"), A("lo_revenue")>>, 4), printAll>>]

prepare34 ==
  [probe  |-> <<scan("lineorder", <<"lo_custkey", "lo_suppkey", "lo_orderdate", "lo_revenue">>)>>,
   builds |-> << <<scan("date", <<"d_datekey", "d_year", "d_yearmonth">>)>>,
              <<scan("customer", <<"c_custkey", "c_city">>)>>,
              <<scan("supplier", <<"s_suppkey", "s_city">>)>> >>,
   pipe   |-> <<unpack,
              joinHinted(build(3) \o <<unpack, filterHinted(<<"s_city">>)>>, A("s_suppkey"), A("lo_suppkey")),
              joinHinted(build(2) \o <<unpack, filterHinted(<<"c_city">>)>>, A("c_custkey"), A("lo_custkey")),
              joinHinted(build(1) \o <<unpack, filterHinted(<<"d_yearmonth">>), project(<<A("d_datekey"),
                A("d_year")>>)>>, A("d_datekey"), A("lo_orderdate")),
              groupby(<<As("c_city", <<"c_city">>), As("s_city", <<"s_city">>), As("d_year", <<"d_year">>)>>,
                <<As("lo_revenue", <<"lo_revenue">>)>>), pack>>,
   top    |-> <<unpack, groupby(<<A("c_city"), A("s_city"), A("d_year")>>, <<A("lo_revenue")>>),
              sort(<<A("c_city"), A("s_city"), A("d_year"), A("lo_revenue")>>, 4), printAll>>]

prepare41 ==
  [probe  |-> <<scan("lineorder",
              <<"lo_custkey", "lo_partkey", "lo_suppkey", "lo_orderdate", "lo_revenue", "lo_supplycost">>)>>,
   builds |-> << <<scan("date", <<"d_datekey", "d_year">>)>>, <<scan("part", <<"p_partkey", "p_mfgr">>)>>,
              <<scan("customer", <<"c_custkey", "c_nation", "c_region">>)>>,
              <<scan("supplier", <<"s_suppkey", "s_region">>)>> >>,
   pipe   |-> <<unpack,
              joinHinted(build(4) \o <<unpack, filterHinted(<<"s_region">>), project(<<A("s_suppkey")>>)>>,
                A("s_suppkey"), A("lo_suppkey")),
              joinHinted(build(3) \o <<unpack, filterHinted(<<"c_region">>), project(<<A("c_custkey"),
                A("c_nation")>>)>>, A("c_custkey"), A("lo_custkey")),
              joinHinted(build(2) \o <<unpack, filterHinted(<<"p_mfgr">>), project(<<A("p_partkey")>>)>>,
                A("p_partkey"), A("lo_partkey")),
              joinHinted(build(1) \o <<unpack>>, A("d_datekey"), A("lo_orderdate")),
              groupby(<<As("d_year", <<"d_year">>), As("c_nation", <<"c_nation">>)>>, <<As("profit",
                <<"lo_revenue", "lo_supplycost">>)>>), pack>>,
   top    |-> <<unpack, groupby(<<A("d_year"), A("c_nation")>>, <<A("profit")>>),
              sort(<<A("d_year"), A("c_nation"), A("profit")>>, 3), printAll>>]

prepare41_pushdown(e) ==
  [probe  |-> <<scan("lineorder", <<"lo_custkey", "lo_partkey", "lo_suppkey", "lo_orderdate", "lo_revenue",
                "lo_supplycost">>)>> \o <<router(getDefaultDOP(e, "CPU")), unpack,
              joinHinted(<<scan("supplier", <<"s_suppkey", "s_region">>)>> \o <<router(getDefaultDOP(e, "CPU")),
                unpack, filterHinted(<<"s_region">>), project(<<A("s_suppkey")>>)>>, A("s_suppkey"),
                A("lo_suppkey")),
              project(<<As("lo_custkey", <<"lo_custkey">>), As("lo_partkey", <<"lo_partkey">>),
                As("lo_orderdate", <<"lo_orderdate">>), As("profit", <<"lo_revenue", "lo_supplycost">>)>>),
              pack, router(1)>>,
   builds |-> << <<scan("date", <<"d_datekey", "d_year">>)>>, <<scan("part", <<"p_partkey", "p_mfgr">>)>>,
              <<scan("customer", <<"c_custkey", "c_nation", "c_region">>)>> >>,
   pipe   |-> <<unpack,
              joinHinted(build(3) \o <<unpack, filterHinted(<<"c_region">>), project(<<A("c_custkey"),
                A("c_nation")>>)>>, A("c_custkey"), A("lo_custkey")),
              joinHinted(build(2) \o <<unpack, filterHinted(<<"p_mfgr">>), project(<<A("p_partkey")>>)>>,
                A("p_partkey"), A("lo_partkey")),
              joinHinted(build(1) \o <<unpack>>, A("d_datekey"), A("lo_orderdate")),
              groupby(<<As("d_year", <<"d_year">>), As("c_nation", <<"c_nation">>)>>, <<A("profit")>>), pack>>,
   top    |-> <<unpack, groupby(<<A("d_year"), A("c_nation")>>, <<A("profit")>>),
              sort(<<A("d_year"), A("c_nation"), A("profit")>>, 3), printAll>>]

prepare42 ==
  [probe  |-> <<scan("lineorder",
              <<"lo_custkey", "lo_partkey", "lo_suppkey", "lo_orderdate", "lo_revenue", "lo_supplycost">>)>>,
   builds |-> << <<scan("part", <<"p_partkey", "p_mfgr", "p_category">>)>>,
              <<scan("date", <<"d_datekey", "d_year">>)>>, <<scan("customer", <<"c_custkey", "c_region">>)>>,
              <<scan("supplier", <<"s_suppkey", "s_nation", "s_region">>)>> >>,
   pipe   |-> <<unpack,
              joinHinted(build(4) \o <<unpack, filterHinted(<<"s_region">>), project(<<A("s_suppkey"),
                A("s_nation")>>)>>, A("s_suppkey"), A("lo_suppkey")),
              joinHinted(build(2) \o <<unpack, filterHinted(<<"d_year">>)>>, A("d_datekey"), A("lo_orderdate")),
              joinHinted(build(3) \o <<unpack, filterHinted(<<"c_region">>), project(<<A("c_custkey")>>)>>,
                A("c_custkey"), A("lo_custkey")),
              joinHinted(build(1) \o <<unpack, filterHinted(<<"p_mfgr">>), project(<<A("p_partkey"),
                A("p_category")>>)>>, A("p_partkey"), A("lo_partkey")),
              groupby(<<As("d_year", <<"d_year">>), As("s_nation", <<"s_nation">>), As("p_category",
                <<"p_category">>)>>, <<As("profit", <<"lo_revenue", "lo_supplycost">>)>>), pack>>,
   top    |-> <<unpack, groupby(<<A("d_year"), A("s_nation"), A("p_category")>>, <<A("profit")>>),
              sort(<<A("d_year"), A("s_nation"), A("p_category"), A("profit")>>, 4), printAll>>]

prepare43 ==
  [probe  |-> <<scan("lineorder",
              <<"lo_custkey", "lo_partkey", "lo_suppkey", "lo_orderdate", "lo_revenue", "lo_supplycost">>)>>,
   builds |-> << <<scan("date", <<"d_datekey", "d_year">>)>>, <<scan("customer", <<"c_custkey", "c_region">>)>>,
              <<scan("part", <<"p_partkey", "p_category", "p_brand1">>)>>,
              <<scan("supplier", <<"s_suppkey", "s_city", "s_nation">>)>> >>,
   pipe   |-> <<unpack,
              joinHinted(build(4) \o <<unpack, filterHinted(<<"s_nation">>), project(<<A("s_suppkey"),
                A("s_city")>>)>>, A("s_suppkey"), A("lo_suppkey")),
              joinHinted(build(3) \o <<unpack, filterHinted(<<"p_category">>), project(<<A("p_partkey"),
                A("p_brand1")>>)>>, A("p_partkey"), A("lo_partkey")),
              joinHinted(build(2) \o <<unpack, filterHinted(<<"c_region">>), project(<<A("c_custkey")>>)>>,
                A("c_custkey"), A("lo_custkey")),
              joinHinted(build(1) \o <<unpack, filterHinted(<<"d_year">>)>>, A("d_datekey"), A("lo_orderdate")),
              groupby(<<As("d_year", <<"d_year">>), As("s_city", <<"s_city">>), As("p_brand1",
                <<"p_brand1">>)>>, <<As("profit", <<"lo_revenue", "lo_supplycost">>)>>), pack>>,
   top    |-> <<unpack, groupby(<<A("d_year"), A("s_city"), A("p_brand1")>>, <<A("profit")>>),
              sort(<<A("d_year"), A("s_city"), A("p_brand1"), A("profit")>>, 4), printAll>>]

(***************************************************************************)
(* The Star Schema Benchmark plans written out for two GPUs, with Bloom    *)
(* filters built from one dimension and probed on the CPUs before the rows *)
(* cross to the GPUs: apps/benchmarks/olap/prepared-queries/ssb100_bloom.  *)
(***************************************************************************)

dop == 2
dev == "GPU"

bloom_prepare11(e, memmv, conf) ==
  LET rel2337 == <<scan("date", <<"d_datekey", "d_year">>), membrdcst(dop), routerHash(dop), unpack,
          filter(<<"d_year">>), bloomfilter_build("d_datekey", 0), project(<<A("d_datekey")>>), pack, to_gpu,
          unpack>>
      rel == <<scan("lineorder", <<"lo_orderdate", "lo_quantity", "lo_extendedprice", "lo_discount">>),
          router(48), unpack, bloomfilter_probe("lo_orderdate", 0)>>
      rel_1 == IF conf # "BLOOM_GPUFILTER_NOPROJECT" THEN rel \o <<filter(<<"lo_discount",
          "lo_quantity">>)>> ELSE rel
      rel_2 == IF conf = "BLOOM_CPUFILTER_PROJECT" THEN rel_1 \o <<project(<<A("lo_orderdate"),
          A("lo_extendedprice"), A("lo_discount")>>)>> ELSE rel_1
      rel_3 == rel_2 \o <<pack, router(2)>>
      rel_4 == IF memmv THEN rel_3 \o <<memmove(dev)>> ELSE rel_3
      rel_5 == rel_4 \o <<to_gpu, unpack>>
      rel_6 == IF conf = "BLOOM_GPUFILTER_NOPROJECT" THEN rel_5 \o <<filter(<<"lo_discount",
          "lo_quantity">>)>> ELSE rel_5
  IN  rel_6 \o <<join(rel2337, A("d_datekey"), A("lo_orderdate")),
      reduce(<<As("revenue", <<"lo_extendedprice", "lo_discount">>)>>), to_cpu, router(1),
      reduce(<<A("revenue")>>), printAll>>

prepare11_b(e, memmv) ==
  <<scan("lineorder", <<"lo_orderdate", "lo_quantity", "lo_extendedprice", "lo_discount">>), router(48), unpack,
      bloomfilter_probe("lo_orderdate", 0), filter(<<"lo_discount", "lo_quantity">>),
      reduce(<<As("cnt", <<>>)>>), router(1), reduce(<<A("cnt")>>), printAll>>

bloom_prepare12(e, memmv, conf) ==
  LET rel2337 == <<scan("date", <<"d_datekey", "d_yearmonthnum">>), membrdcst(dop), routerHash(dop), unpack,
          filter(<<"d_yearmonthnum">>), bloomfilter_build("d_datekey", 0), project(<<A("d_datekey")>>), pack,
          to_gpu, unpack>>
      rel == <<scan("lineorder", <<"lo_orderdate", "lo_quantity", "lo_extendedprice", "lo_discount">>),
          router(48), unpack, bloomfilter_probe("lo_orderdate", 0)>>
      rel_1 == IF conf # "BLOOM_GPUFILTER_NOPROJECT" THEN rel \o <<filter(<<"lo_discount",
          "lo_quantity">>)>> ELSE rel
      rel_2 == IF conf = "BLOOM_CPUFILTER_PROJECT" THEN rel_1 \o <<project(<<A("lo_orderdate"),
          A("lo_extendedprice"), A("lo_discount")>>)>> ELSE rel_1
      rel_3 == rel_2 \o <<pack, router(2)>>
      rel_4 == IF memmv THEN rel_3 \o <<memmove(dev)>> ELSE rel_3
      rel_5 == rel_4 \o <<to_gpu, unpack>>
      rel_6 == IF conf = "BLOOM_GPUFILTER_NOPROJECT" THEN rel_5 \o <<filter(<<"lo_discount",
          "lo_quantity">>)>> ELSE rel_5
  IN  rel_6 \o <<join(rel2337, A("d_datekey"), A("lo_orderdate")),
      reduce(<<As("revenue", <<"lo_extendedprice", "lo_discount">>)>>), to_cpu, router(1),
      reduce(<<A("revenue")>>), printAll>>

prepare12_b(e, memmv) ==
  <<scan("lineorder", <<"lo_orderdate", "lo_quantity", "lo_extendedprice", "lo_discount">>), router(48), unpack,
      bloomfilter_probe("lo_orderdate", 0), filter(<<"lo_discount", "lo_quantity">>),
      reduce(<<As("cnt", <<>>)>>), router(1), reduce(<<A("cnt")>>), printAll>>

bloom_prepare13(e, memmv, conf) ==
  LET rel2337 == <<scan("date", <<"d_datekey", "d_year", "d_weeknuminyear">>), membrdcst(dop), routerHash(dop),
          unpack, filter(<<"d_weeknuminyear", "d_year">>), bloomfilter_build("d_datekey", 0),
          project(<<A("d_datekey")>>), pack, to_gpu, unpack>>
      rel == <<scan("lineorder", <<"lo_orderdate", "lo_quantity", "lo_extendedprice", "lo_discount">>),
          router(48), unpack, bloomfilter_probe("lo_orderdate", 0)>>
      rel_1 == IF conf # "BLOOM_GPUFILTER_NOPROJECT" THEN rel \o <<filter(<<"lo_discount",
          "lo_quantity">>)>> ELSE rel
      rel_2 == IF conf = "BLOOM_CPUFILTER_PROJECT" THEN rel_1 \o <<project(<<A("lo_orderdate"),
          A("lo_extendedprice"), A("lo_discount")>>)>> ELSE rel_1
      rel_3 == rel_2 \o <<pack, router(2)>>
      rel_4 == IF memmv THEN rel_3 \o <<memmove(dev)>> ELSE rel_3
      rel_5 == rel_4 \o <<to_gpu, unpack>>
      rel_6 == IF conf = "BLOOM_GPUFILTER_NOPROJECT" THEN rel_5 \o <<filter(<<"lo_discount",
          "lo_quantity">>)>> ELSE rel_5
  IN  rel_6 \o <<join(rel2337, A("d_datekey"), A("lo_orderdate")),
      reduce(<<As("revenue", <<"lo_extendedprice", "lo_discount">>)>>), to_cpu, router(1),
      reduce(<<A("revenue")>>), printAll>>

prepare13_b(e, memmv) ==
  <<scan("lineorder", <<"lo_orderdate", "lo_quantity", "lo_extendedprice", "lo_discount">>), router(48), unpack,
      bloomfilter_probe("lo_orderdate", 0), filter(<<"lo_discount", "lo_quantity">>),
      reduce(<<As("cnt", <<>>)>>), router(1), reduce(<<A("cnt")>>), printAll>>

bloom_prepare21(e, memmv) ==
  LET rel11407 == <<scan("date", <<"d_datekey", "d_year">>), membrdcst(dop), routerHash(dop), to_gpu, unpack>>
      rel11412 == <<scan("supplier", <<"s_suppkey", "s_region">>), membrdcst(dop), routerHash(dop), to_gpu,
          unpack, filter(<<"s_region">>), project(<<A("s_suppkey")>>)>>
      rel11417 == <<scan("part", <<"p_partkey", "p_category", "p_brand1">>), membrdcst(dop), routerHash(dop),
          unpack, filter(<<"p_category">>), bloomfilter_build("p_partkey", 6),
          project(<<A("p_partkey"), A("p_brand1")>>), pack, to_gpu, unpack>>
      rel == <<scan("lineorder", <<"lo_partkey", "lo_suppkey", "lo_orderdate", "lo_revenue">>),
          router(getDefaultDOP(e, "CPU")), bloomfilter_repack("lo_partkey", 6), router(getDefaultDOP(e, dev))>>
      rel_1 == IF memmv THEN rel \o <<memmove(dev)>> ELSE rel
  IN  rel_1 \o <<to_gpu, unpack,
      join(rel11412, A("s_suppkey"), A("lo_suppkey")),
      join(rel11407, A("d_datekey"), A("lo_orderdate")),
      join(rel11417, A("p_partkey"), A("lo_partkey")),
      groupby(<<As("d_year", <<"d_year">>), As("p_brand1", <<"p_brand1">>)>>, <<As("EXPR$0",
        <<"lo_revenue">>)>>), pack, to_cpu, router(1), memmove("CPU"), unpack,
      groupby(<<As("d_year", <<"d_year">>), As("p_brand1", <<"p_brand1">>)>>, <<As("EXPR$0", <<"EXPR$0">>)>>),
      sort(<<A("EXPR$0"), A("d_year"), A("p_brand1")>>, 3), printAll>>

prepare21_b(e, memmv) ==
  <<scan("lineorder", <<"lo_partkey", "lo_suppkey", "lo_orderdate", "lo_revenue">>), router(48), unpack,
      bloomfilter_probe("lo_partkey", 6), reduce(<<As("cnt", <<>>)>>), router(1), reduce(<<A("cnt")>>),
      printAll>>

bloom_prepare22(e, memmv) ==
  LET rel23990 == <<scan("date", <<"d_datekey", "d_year">>), membrdcst(dop), routerHash(dop), to_gpu, unpack>>
      rel23995 == <<scan("supplier", <<"s_suppkey", "s_region">>), membrdcst(dop), routerHash(dop), to_gpu,
          unpack, filter(<<"s_region">>), project(<<A("s_suppkey")>>)>>
      rel23999 == <<scan("part", <<"p_partkey", "p_brand1">>), membrdcst(dop), routerHash(dop), unpack,
          filter(<<"p_brand1">>), bloomfilter_build("p_partkey", 6), project(<<A("p_partkey"), A("p_brand1")>>),
          pack, to_gpu, unpack>>
      rel == <<scan("lineorder", <<"lo_partkey", "lo_suppkey", "lo_orderdate", "lo_revenue">>),
          router(getDefaultDOP(e, "CPU")), bloomfilter_repack("lo_partkey", 6), router(getDefaultDOP(e, dev))>>
      rel_1 == IF memmv THEN rel \o <<memmove(dev)>> ELSE rel
  IN  rel_1 \o <<to_gpu, unpack,
      join(rel23995, A("s_suppkey"), A("lo_suppkey")),
      join(rel23999, A("p_partkey"), A("lo_partkey")),
      join(rel23990, A("d_datekey"), A("lo_orderdate")),
      groupby(<<As("d_year", <<"d_year">>), As("p_brand1", <<"p_brand1">>)>>, <<As("EXPR$0",
        <<"lo_revenue">>)>>), pack, to_cpu, router(1), memmove("CPU"), unpack,
      groupby(<<As("d_year", <<"d_year">>), As("p_brand1", <<"p_brand1">>)>>, <<As("EXPR$0", <<"EXPR$0">>)>>),
      sort(<<A("EXPR$0"), A("d_year"), A("p_brand1")>>, 3), printAll>>

prepare22_b(e, memmv) ==
  <<scan("lineorder", <<"lo_partkey">>), router(getDefaultDOP(e, "CPU")), unpack,
      bloomfilter_probe("lo_partkey", 6), reduce(<<As("cnt", <<>>)>>), router(1), reduce(<<A("cnt")>>),
      printAll>>

bloom_prepare23(e, memmv) ==
  LET rel23990 == <<scan("date", <<"d_datekey", "d_year">>), membrdcst(dop), routerHash(dop), to_gpu, unpack>>
      rel23995 == <<scan("supplier", <<"s_suppkey", "s_region">>), membrdcst(dop), routerHash(dop), to_gpu,
          unpack, filter(<<"s_region">>), project(<<A("s_suppkey")>>)>>
      rel23999 == <<scan("part", <<"p_partkey", "p_brand1">>), membrdcst(dop), routerHash(dop), unpack,
          filter(<<"p_brand1">>), bloomfilter_build("p_partkey", 6), project(<<A("p_partkey"), A("p_brand1")>>),
          pack, to_gpu, unpack>>
      rel == <<scan("lineorder", <<"lo_partkey", "lo_suppkey", "lo_orderdate", "lo_revenue">>),
          router(getDefaultDOP(e, "CPU")), bloomfilter_repack("lo_partkey", 6), router(getDefaultDOP(e, dev))>>
      rel_1 == IF memmv THEN rel \o <<memmove(dev)>> ELSE rel
  IN  rel_1 \o <<to_gpu, unpack,
      join(rel23999, A("p_partkey"), A("lo_partkey")),
      join(rel23995, A("s_suppkey"), A("lo_suppkey")),
      join(rel23990, A("d_datekey"), A("lo_orderdate")),
      groupby(<<As("d_year", <<"d_year">>), As("p_brand1", <<"p_brand1">>)>>, <<As("EXPR$0",
        <<"lo_revenue">>)>>), pack, to_cpu, router(1), memmove("CPU"), unpack,
      groupby(<<As("d_year", <<"d_year">>), As("p_brand1", <<"p_brand1">>)>>, <<As("EXPR$0", <<"EXPR$0">>)>>),
      sort(<<A("EXPR$0"), A("d_year"), A("p_brand1")>>, 3), printAll>>

prepare23_b(e, memmv) ==
  <<scan("lineorder", <<"lo_partkey">>), router(getDefaultDOP(e, "CPU")), unpack,
      bloomfilter_probe("lo_partkey", 6), reduce(<<As("cnt", <<>>)>>), router(1), reduce(<<A("cnt")>>),
      printAll>>

prepare23_b2(e, memmv) ==
  <<scan("lineorder", <<"lo_partkey">>), router(getDefaultDOP(e, "CPU")), unpack,
      bloomfilter_probe("lo_partkey", 6), reduce(<<As("cnt", <<>>)>>), router(1), reduce(<<A("cnt")>>),
      printAll>>

prepare23_c(e, memmv) ==
  LET rel23990 == <<scan("date", <<"d_datekey", "d_year">>), membrdcst(dop), routerHash(dop), to_gpu, unpack>>
      rel23995 == <<scan("supplier", <<"s_suppkey", "s_region">>), membrdcst(dop), routerHash(dop), to_gpu,
          unpack, filter(<<"s_region">>), project(<<A("s_suppkey")>>)>>
      rel23999 == <<scan("part", <<"p_partkey", "p_brand1">>), membrdcst(dop), routerHash(dop), unpack,
          filter(<<"p_brand1">>), bloomfilter_build("p_partkey", 6), project(<<A("p_partkey"), A("p_brand1")>>),
          pack, to_gpu, unpack>>
      rel == <<scan("lineorder", <<"lo_partkey", "lo_suppkey", "lo_orderdate", "lo_revenue">>),
          router(getDefaultDOP(e, "CPU")), unpack, bloomfilter_probe("lo_partkey", 6), pack, router(dop)>>
      rel_1 == IF memmv THEN rel \o <<memmove(dev)>> ELSE rel
  IN  rel_1 \o <<reduce(<<As("cnt", <<>>)>>), router(1), reduce(<<A("cnt")>>), printAll>>

prepare23_d(e, memmv) ==
  LET rel23990 == <<scan("date", <<"d_datekey", "d_year">>), membrdcst(dop), routerHash(dop), to_gpu, unpack>>
      rel23995 == <<scan("supplier", <<"s_suppkey", "s_region">>), membrdcst(dop), routerHash(dop), to_gpu,
          unpack, filter(<<"s_region">>), project(<<A("s_suppkey")>>)>>
      rel23999 == <<scan("part", <<"p_partkey", "p_brand1">>), membrdcst(dop), routerHash(dop), unpack,
          filter(<<"p_brand1">>), bloomfilter_build("p_partkey", 6), project(<<A("p_partkey"), A("p_brand1")>>),
          pack, to_gpu, unpack>>
      rel == <<scan("lineorder", <<"lo_partkey">>), router(getDefaultDOP(e, "CPU")), unpack, pack, router(dop)>>
      rel_1 == IF memmv THEN rel \o <<memmove(dev)>> ELSE rel
  IN  rel_1 \o <<reduce(<<As("cnt", <<>>)>>), router(1), reduce(<<A("cnt")>>), printAll>>

prepare23_e(e, memmv) ==
  <<scan("lineorder", <<"lo_partkey", "lo_suppkey", "lo_orderdate", "lo_revenue">>),
      router(getDefaultDOP(e, "CPU")), unpack,
      reduce(<<As("cnt", <<"lo_partkey", "lo_suppkey", "lo_orderdate", "lo_revenue">>)>>), router(1),
      reduce(<<A("cnt")>>), printAll>>

prepare23_mat(e, memmv) ==
  LET rel == <<scan("lineorder", <<"lo_partkey", "lo_suppkey", "lo_orderdate", "lo_revenue">>),
          router(getDefaultDOP(e, "CPU")), unpack, bloomfilter_probe("lo_partkey", 6), pack, router(1)>>
      rel_1 == IF memmv THEN rel \o <<memmove("CPU")>> ELSE rel
  IN  rel_1 \o <<unpack, printAll>>

bloom_prepare31(e, memmv) ==
  LET rel29287 == <<scan("date", <<"d_datekey", "d_year">>), membrdcst(dop), routerHash(dop), to_gpu, unpack,
          filter(<<"d_year">>)>>
      rel29292 == <<scan("customer", <<"c_custkey", "c_nation", "c_region">>), membrdcst(dop), routerHash(dop),
          to_gpu, unpack, filter(<<"c_region">>), project(<<A("c_custkey"), A("c_nation")>>)>>
      rel29297 == <<scan("supplier", <<"s_suppkey", "s_nation", "s_region">>), membrdcst(dop), routerHash(dop),
          unpack, filter(<<"s_region">>), bloomfilter_build("s_suppkey", 1),
          project(<<A("s_suppkey"), A("s_nation")>>), pack, to_gpu, unpack>>
      rel == <<scan("lineorder", <<"lo_custkey", "lo_suppkey", "lo_orderdate", "lo_revenue">>),
          router(getDefaultDOP(e, "CPU")), bloomfilter_repack("lo_suppkey", 1), router(getDefaultDOP(e, dev))>>
      rel_1 == IF memmv THEN rel \o <<memmove(dev)>> ELSE rel
  IN  rel_1 \o <<to_gpu, unpack,
      join(rel29292, A("c_custkey"), A("lo_custkey")),
      join(rel29297, A("s_suppkey"), A("lo_suppkey")),
      join(rel29287, A("d_datekey"), A("lo_orderdate")),
      groupby(<<As("c_nation", <<"c_nation">>), As("s_nation", <<"s_nation">>), As("d_year", <<"d_year">>)>>,
        <<As("lo_revenue", <<"lo_revenue">>)>>), pack, to_cpu, router(1), memmove("CPU"), unpack,
      groupby(<<As("c_nation", <<"c_nation">>), As("s_nation", <<"s_nation">>), As("d_year", <<"d_year">>)>>,
        <<As("lo_revenue", <<"lo_revenue">>)>>),
      sort(<<A("c_nation"), A("s_nation"), A("d_year"), A("lo_revenue")>>, 4), printAll>>

prepare31_b(e, memmv) ==
  <<scan("lineorder", <<"lo_custkey", "lo_suppkey", "lo_orderdate", "lo_revenue">>),
      router(getDefaultDOP(e, "CPU")), unpack, bloomfilter_probe("lo_suppkey", 1), reduce(<<As("cnt", <<>>)>>),
      router(1), reduce(<<A("cnt")>>), printAll>>

bloom_prepare32(e, memmv) ==
  LET rel34584 == <<scan("date", <<"d_datekey", "d_year">>), membrdcst(dop), routerHash(dop), to_gpu, unpack,
          filter(<<"d_year">>)>>
      rel34589 == <<scan("customer", <<"c_custkey", "c_city", "c_nation">>), membrdcst(dop), routerHash(dop),
          to_gpu, unpack, filter(<<"c_nation">>), project(<<A("c_custkey"), A("c_city")>>)>>
      rel34594 == <<scan("supplier", <<"s_suppkey", "s_city", "s_nation">>), membrdcst(dop), routerHash(dop),
          unpack, filter(<<"s_nation">>), bloomfilter_build("s_suppkey", 1),
          project(<<A("s_suppkey"), A("s_city")>>), pack, to_gpu, unpack>>
      rel == <<scan("lineorder", <<"lo_custkey", "lo_suppkey", "lo_orderdate", "lo_revenue">>),
          router(getDefaultDOP(e, "CPU")), bloomfilter_repack("lo_suppkey", 1), router(getDefaultDOP(e, dev))>>
      rel_1 == IF memmv THEN rel \o <<memmove(dev)>> ELSE rel
  IN  rel_1 \o <<to_gpu, unpack,
      join(rel34589, A("c_custkey"), A("lo_custkey")),
      join(rel34594, A("s_suppkey"), A("lo_suppkey")),
      join(rel34584, A("d_datekey"), A("lo_orderdate")),
      groupby(<<As("c_city", <<"c_city">>), As("s_city", <<"s_city">>), As("d_year", <<"d_year">>)>>,
        <<As("lo_revenue", <<"lo_revenue">>)>>), pack, to_cpu, router(1), memmove("CPU"), unpack,
      groupby(<<As("c_city", <<"c_city">>), As("s_city", <<"s_city">>), As("d_year", <<"d_year">>)>>,
        <<As("lo_revenue", <<"lo_revenue">>)>>),
      sort(<<A("c_city"), A("s_city"), A("d_year"), A("lo_revenue")>>, 4), printAll>>

prepare32_b(e, memmv) ==
  <<scan("lineorder", <<"lo_custkey", "lo_suppkey", "lo_orderdate", "lo_revenue">>),
      router(getDefaultDOP(e, "CPU")), unpack, bloomfilter_probe("lo_suppkey", 1), reduce(<<As("cnt", <<>>)>>),
      router(1), reduce(<<A("cnt")>>), printAll>>

bloom_prepare33(e, memmv) ==
  LET rel39560 == <<scan("date", <<"d_datekey", "d_year">>), membrdcst(dop), routerHash(dop), to_gpu, unpack,
          filter(<<"d_year">>)>>
      rel39564 == <<scan("customer", <<"c_custkey", "c_city">>), membrdcst(dop), routerHash(dop), to_gpu,
          unpack, filter(<<"c_city">>)>>
      rel39568 == <<scan("supplier", <<"s_suppkey", "s_city">>), membrdcst(dop), routerHash(dop), unpack,
          filter(<<"s_city">>), bloomfilter_build("s_suppkey", 1), pack, to_gpu, unpack>>
      rel == <<scan("lineorder", <<"lo_custkey", "lo_suppkey", "lo_orderdate", "lo_revenue">>),
          router(getDefaultDOP(e, "CPU")), bloomfilter_repack("lo_suppkey", 1), router(getDefaultDOP(e, dev))>>
      rel_1 == IF memmv THEN rel \o <<memmove(dev)>> ELSE rel
  IN  rel_1 \o <<to_gpu, unpack,
      join(rel39564, A("$0"), A("lo_custkey")),
      join(rel39568, A("$0"), A("lo_suppkey")),
      join(rel39560, A("$0"), A("lo_orderdate")),
      groupby(<<As("c_city", <<"c_city">>), As("s_city", <<"s_city">>), As("d_year", <<"d_year">>)>>,
        <<As("lo_revenue", <<"lo_revenue">>)>>), pack, to_cpu, router(1), memmove("CPU"), unpack,
      groupby(<<As("c_city", <<"c_city">>), As("s_city", <<"s_city">>), As("d_year", <<"d_year">>)>>,
        <<As("lo_revenue", <<"lo_revenue">>)>>),
      sort(<<A("c_city"), A("s_city"), A("d_year"), A("lo_revenue")>>, 4), printAll>>

prepare33_b(e, memmv) ==
  <<scan("lineorder", <<"lo_custkey", "lo_suppkey", "lo_orderdate", "lo_revenue">>),
      router(getDefaultDOP(e, "CPU")), unpack, bloomfilter_probe("lo_suppkey", 1), reduce(<<As("cnt", <<>>)>>),
      router(1), reduce(<<A("cnt")>>), printAll>>

bloom_prepare34(e, memmv) ==
  LET rel44853 == <<scan("date", <<"d_datekey", "d_year", "d_yearmonth">>), membrdcst(dop), routerHash(dop),
          to_gpu, unpack, filter(<<"d_yearmonth">>), project(<<A("d_datekey"), A("d_year")>>)>>
      rel44857 == <<scan("customer", <<"c_custkey", "c_city">>), membrdcst(dop), routerHash(dop), to_gpu,
          unpack, filter(<<"c_city">>)>>
      rel44861 == <<scan("supplier", <<"s_suppkey", "s_city">>), membrdcst(dop), routerHash(dop), unpack,
          filter(<<"s_city">>), bloomfilter_build("s_suppkey", 1), pack, to_gpu, unpack>>
      rel == <<scan("lineorder", <<"lo_custkey", "lo_suppkey", "lo_orderdate", "lo_revenue">>),
          router(getDefaultDOP(e, "CPU")), bloomfilter_repack("lo_suppkey", 1), router(getDefaultDOP(e, dev))>>
      rel_1 == IF memmv THEN rel \o <<memmove(dev)>> ELSE rel
  IN  rel_1 \o <<to_gpu, unpack,
      join(rel44853, A("$0"), A("lo_orderdate")),
      join(rel44857, A("$0"), A("lo_custkey")),
      join(rel44861, A("$0"), A("lo_suppkey")),
      groupby(<<As("$0", <<"c_city">>), As("$1", <<"s_city">>), As("$2", <<"d_year">>)>>, <<As("$3",
        <<"lo_revenue">>)>>), pack, to_cpu, router(1), memmove("CPU"), unpack,
      groupby(<<As("c_city", <<"$0">>), As("s_city", <<"$1">>), As("d_year", <<"$2">>)>>, <<As("lo_revenue",
        <<"$3">>)>>), sort(<<A("c_city"), A("s_city"), A("d_year"), A("lo_revenue")>>, 4), printAll>>

prepare34_b(e, memmv) ==
  <<scan("lineorder", <<"lo_custkey", "lo_suppkey", "lo_orderdate", "lo_revenue">>),
      router(getDefaultDOP(e, "CPU")), unpack, bloomfilter_probe("lo_suppkey", 1), reduce(<<As("cnt", <<>>)>>),
      router(1), reduce(<<A("cnt")>>), printAll>>

bloom_prepare41(e, memmv) ==
  LET rel51013 == <<scan("date", <<"d_datekey", "d_year">>), membrdcst(dop), routerHash(dop), to_gpu, unpack>>
      rel51018 == <<scan("part", <<"p_partkey", "p_mfgr">>), unpack, filter(<<"p_mfgr">>),
          project(<<A("p_partkey")>>), pack, membrdcst(dop), routerHash(dop), to_gpu, unpack>>
      rel51023 == <<scan("customer", <<"c_custkey", "c_nation", "c_region">>), unpack, filter(<<"$2">>),
          project(<<As("$0", <<"$0">>), As("c_nation", <<"$1">>)>>), pack, membrdcst(dop), routerHash(dop),
          to_gpu, unpack>>
      rel51028 == <<scan("supplier", <<"s_suppkey", "s_region">>), membrdcst(dop), routerHash(dop), unpack,
          filter(<<"s_region">>), bloomfilter_build("s_suppkey", 2), project(<<A("s_suppkey")>>), pack, to_gpu,
          unpack>>
      rel == <<scan("lineorder", <<"lo_custkey", "lo_partkey", "lo_suppkey", "lo_orderdate", "lo_revenue",
            "lo_supplycost">>), router(getDefaultDOP(e, "CPU")), bloomfilter_repack("lo_suppkey", 2),
          router(getDefaultDOP(e, dev))>>
      rel_1 == IF memmv THEN rel \o <<memmove(dev)>> ELSE rel
  IN  rel_1 \o <<to_gpu, unpack,
      join(rel51023, A("$0"), A("lo_custkey")),
      join(rel51018, A("$0"), A("lo_partkey")),
      join(rel51028, A("s_suppkey"), A("lo_suppkey")),
      join(rel51013, A("$0"), A("lo_orderdate")),
      groupby(<<As("$0", <<"d_year">>), As("$1", <<"c_nation">>)>>, <<As("$2", <<"lo_revenue",
        "lo_supplycost">>)>>), pack, to_cpu, router(1), memmove("CPU"), unpack,
      groupby(<<As("d_year", <<"$0">>), As("c_nation", <<"$1">>)>>, <<As("profit", <<"$2">>)>>),
      sort(<<A("d_year"), A("c_nation"), A("profit")>>, 3), printAll>>

prepare41_b(e, memmv) ==
  <<scan("lineorder", <<"lo_custkey", "lo_partkey", "lo_suppkey", "lo_orderdate", "lo_revenue",
        "lo_supplycost">>), router(getDefaultDOP(e, "CPU")), unpack, bloomfilter_probe("lo_suppkey", 2),
      reduce(<<As("cnt", <<>>)>>), router(1), reduce(<<A("cnt")>>), printAll>>

prepare41_c(e, memmv) ==
  <<scan("lineorder", <<"lo_custkey", "lo_partkey", "lo_suppkey", "lo_orderdate", "lo_revenue",
        "lo_supplycost">>), router(getDefaultDOP(e, "CPU")), unpack, bloomfilter_probe("lo_suppkey", 2),
      packOnly(<<As("pack", <<"lo_custkey", "lo_partkey", "lo_suppkey", "lo_orderdate", "lo_revenue",
        "lo_supplycost">>)>>),
      router(1), reduce(<<As("cnt", <<>>)>>), printAll>>

bloom_prepare42(e, memmv) ==
  LET rel57931 == <<scan("part", <<"p_partkey", "p_mfgr", "p_category">>), membrdcst(dop), routerHash(dop),
          to_gpu, unpack, filter(<<"p_mfgr">>), project(<<A("p_partkey"), A("p_category")>>)>>
      rel57935 == <<scan("date", <<"d_datekey", "d_year">>), membrdcst(dop), routerHash(dop), to_gpu, unpack,
          filter(<<"d_year">>)>>
      rel57940 == <<scan("customer", <<"c_custkey", "c_region">>), membrdcst(dop), routerHash(dop), to_gpu,
          unpack, filter(<<"c_region">>), project(<<A("c_custkey")>>)>>
      rel57945 == <<scan("supplier", <<"s_suppkey", "s_nation", "s_region">>), membrdcst(dop), routerHash(dop),
          unpack, filter(<<"s_region">>), bloomfilter_build("s_suppkey", 1),
          project(<<A("s_suppkey"), A("s_nation")>>), pack, to_gpu, unpack>>
      rel == <<scan("lineorder", <<"lo_custkey", "lo_partkey", "lo_suppkey", "lo_orderdate", "lo_revenue",
            "lo_supplycost">>), router(getDefaultDOP(e, "CPU")), bloomfilter_repack("lo_suppkey", 1),
          router(getDefaultDOP(e, dev))>>
      rel_1 == IF memmv THEN rel \o <<memmove(dev)>> ELSE rel
  IN  rel_1 \o <<to_gpu, unpack,
      join(rel57940, A("c_custkey"), A("lo_custkey")),
      join(rel57935, A("d_datekey"), A("lo_orderdate")),
      join(rel57945, A("s_suppkey"), A("lo_suppkey")),
      join(rel57931, A("p_partkey"), A("lo_partkey")),
      groupby(<<As("d_year", <<"d_year">>), As("s_nation", <<"s_nation">>), As("p_category",
        <<"p_category">>)>>, <<As("profit", <<"lo_revenue", "lo_supplycost">>)>>), pack, to_cpu, router(1),
      memmove("CPU"), unpack,
      groupby(<<As("d_year", <<"d_year">>), As("s_nation", <<"s_nation">>), As("p_category",
        <<"p_category">>)>>, <<As("profit", <<"profit">>)>>),
      sort(<<A("d_year"), A("s_nation"), A("p_category"), A("profit")>>, 4), printAll>>

prepare42_b(e, memmv) ==
  <<scan("lineorder", <<"lo_custkey", "lo_partkey", "lo_suppkey", "lo_orderdate", "lo_revenue",
        "lo_supplycost">>), router(48), unpack, bloomfilter_probe("lo_suppkey", 1), reduce(<<As("cnt", <<>>)>>),
      router(1), reduce(<<A("cnt")>>), printAll>>

bloom_prepare43(e, memmv) ==
  LET rel64283 == <<scan("date", <<"d_datekey", "d_year">>), membrdcst(dop), routerHash(dop), to_gpu, unpack,
          filter(<<"d_year">>)>>
      rel64288 == <<scan("customer", <<"c_custkey", "c_region">>), membrdcst(dop), routerHash(dop), to_gpu,
          unpack, filter(<<"c_region">>), project(<<A("c_custkey")>>)>>
      rel64293 == <<scan("part", <<"p_partkey", "p_category", "p_brand1">>), membrdcst(dop), routerHash(dop),
          to_gpu, unpack, filter(<<"p_category">>), project(<<A("p_partkey"), A("p_brand1")>>)>>
      rel64298 == <<scan("supplier", <<"s_suppkey", "s_city", "s_nation">>), membrdcst(dop), routerHash(dop),
          unpack, filter(<<"s_nation">>), bloomfilter_build("s_suppkey", 1),
          project(<<A("s_suppkey"), A("s_city")>>), pack, to_gpu, unpack>>
      rel == <<scan("lineorder", <<"lo_custkey", "lo_partkey", "lo_suppkey", "lo_orderdate", "lo_revenue",
            "lo_supplycost">>), router(getDefaultDOP(e, "CPU")), bloomfilter_repack("lo_suppkey", 1),
          router(getDefaultDOP(e, dev))>>
      rel_1 == IF memmv THEN rel \o <<memmove(dev)>> ELSE rel
  IN  rel_1 \o <<to_gpu, unpack,
      join(rel64293, A("p_partkey"), A("lo_partkey")),
      join(rel64298, A("s_suppkey"), A("lo_suppkey")),
      join(rel64288, A("c_custkey"), A("lo_custkey")),
      join(rel64283, A("d_datekey"), A("lo_orderdate")),
      groupby(<<As("d_year", <<"d_year">>), As("s_city", <<"s_city">>), As("p_brand1", <<"p_brand1">>)>>,
        <<As("profit", <<"lo_revenue", "lo_supplycost">>)>>), pack, to_cpu, router(1), memmove("CPU"), unpack,
      groupby(<<As("d_year", <<"d_year">>), As("s_city", <<"s_city">>), As("p_brand1", <<"p_brand1">>)>>,
        <<As("profit", <<"profit">>)>>), sort(<<A("d_year"), A("s_city"), A("p_brand1"), A("profit")>>, 4),
      printAll>>

prepare43_b(e, memmv) ==
  <<scan("lineorder", <<"lo_custkey", "lo_partkey", "lo_suppkey", "lo_orderdate", "lo_revenue",
        "lo_supplycost">>), router(getDefaultDOP(e, "CPU")), unpack, bloomfilter_probe("lo_suppkey", 1),
      reduce(<<As("cnt", <<>>)>>), router(1), reduce(<<A("cnt")>>), printAll>>
=============================================================================
