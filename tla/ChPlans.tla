------------------------------ MODULE ChPlans -------------------------------
(***************************************************************************)
(* The CH-benCHmark plans: those written out for two GPUs                  *)
(* (apps/benchmarks/olap/prepared-queries/ch100w) and those that run over  *)
(* the tables of the OLTP engine.                                          *)
(***************************************************************************)
EXTENDS QueryShaper

\* The GPUs the plans are written for.
ch_dop == 2
ch_dev == "GPU"

prepare01(memmv) ==
  LET rel == <<scan("tpcc_orderline", <<"ol_number", "ol_delivery_d", "ol_quantity", "ol_amount">>),
          router(ch_dop)>>
      rel_1 == IF memmv THEN rel \o <<memmove(ch_dev)>> ELSE rel
  IN  rel_1 \o <<to_gpu, unpack, filter(<<"ol_delivery_d">>),
      groupby(<<As("$0", <<"ol_number">>)>>, <<As("$1", <<"ol_quantity">>), As("$2", <<>>), As("$3",
        <<"ol_amount">>)>>), to_cpu, router(1),
      groupby(<<As("$0", <<"$0">>)>>, <<As("$1", <<"$1">>), As("$2", <<"$2">>), As("$3", <<"$3">>)>>),
      project(<<As("ol_number", <<"$0">>), As("sum_qty", <<"$1">>), As("sum_amount", <<"$3">>), As("avg_qty",
        <<"$1", "$2">>), As("avg_amount", <<"$3", "$2">>), As("count_order", <<"$2">>)>>), printAll>>

prepare06(memmv) ==
  LET rel == <<scan("tpcc_orderline", <<"ol_delivery_d", "ol_quantity", "ol_amount">>), router(ch_dop)>>
      rel_1 == IF memmv THEN rel \o <<memmove(ch_dev)>> ELSE rel
  IN  rel_1 \o <<to_gpu, unpack, filter(<<"ol_delivery_d", "ol_quantity">>),
      reduce(<<As("$0", <<"ol_amount">>)>>), to_cpu, router(1), reduce(<<As("revenue", <<"$0">>)>>), printAll>>

prepare12(memmv) ==
  LET rel2508 == <<scan("order", <<"o_id", "o_d_id", "o_w_id", "o_entry_d", "o_carrier_id", "o_ol_cnt">>),
          membrdcst(ch_dop), routerHash(ch_dop)>>
      rel2508_1 == IF memmv THEN rel2508 \o <<memmove(ch_dev)>> ELSE rel2508
      rel2508_2 == rel2508_1 \o <<to_gpu, unpack,
          project(<<As("o_id", <<"$0">>), As("o_d_id", <<"$1">>), As("o_w_id", <<"$2">>), As("o_entry_d",
            <<"$3">>), As("o_carrier_id", <<"$5">>), As("or", <<"$4">>), As("nor", <<"$4">>)>>)>>
      rel == <<scan("orderline", <<"ol_o_id", "ol_d_id", "ol_w_id", "ol_delivery_d">>), router(ch_dop)>>
      rel_1 == IF memmv THEN rel \o <<memmove(ch_dev)>> ELSE rel
  IN  rel_1 \o <<to_gpu, unpack, filter(<<"ol_delivery_d">>),
      join(rel2508_2, Key("bk", <<As("bk_2", <<"o_w_id">>), As("bk_1", <<"o_d_id">>), As("bk_0", <<"o_id">>)>>),
        Key("pk", <<As("pk_2", <<"ol_w_id">>), As("pk_1", <<"ol_d_id">>), As("pk_0", <<"ol_o_id">>)>>)),
      project(<<As("$0", <<"$7">>), As("$1", <<"$8">>), As("$2", <<"$9">>), As("$3", <<"$10">>), As("$4",
        <<"$0">>), As("$5", <<"$1">>), As("$6", <<"$2">>), As("$7", <<"$3">>), As("$8", <<"$4">>), As("$9",
        <<"$5">>), As("$10", <<"$6">>)>>), filter(<<"o_entry_d", "ol_delivery_d">>),
      groupby(<<As("$0", <<"o_ol_cnt">>)>>, <<As("$1", <<"o_carrier_id">>), As("$2", <<"o_carrier_id">>)>>),
      to_cpu, router(1), groupby(<<As("$0", <<"$0">>)>>, <<As("$1", <<"$1">>), As("$2", <<"$2">>)>>),
      sort(<<As("o_ol_cnt", <<"$0">>), As("high_line_count", <<"$1">>), As("low_line_count", <<"$2">>)>>, 2),
      printAll>>

prepare19(memmv) ==
  LET rel2305 == <<scan("tpcc_item", <<"i_id", "i_price">>), membrdcst(ch_dop), routerHash(ch_dop)>>
      rel2305_1 == IF memmv THEN rel2305 \o <<memmove(ch_dev)>> ELSE rel2305
      rel2305_2 == rel2305_1 \o <<to_gpu, unpack, filter(<<"i_price">>)>>
      rel == <<scan("tpcc_orderline", <<"ol_w_id", "ol_i_id", "ol_quantity", "ol_amount">>), router(ch_dop)>>
      rel_1 == IF memmv THEN rel \o <<memmove(ch_dev)>> ELSE rel
  IN  rel_1 \o <<to_gpu, unpack, filter(<<"ol_quantity", "ol_w_id">>),
      join(rel2305_2, A("$0"), A("ol_i_id")), reduce(<<As("$0", <<"ol_amount">>)>>), to_cpu, router(1),
      reduce(<<As("revenue", <<"$0">>)>>), printAll>>

(***************************************************************************)
(* The plans that run over the tables of the OLTP engine: the CH-benCHmark *)
(* queries of the HTAP benchmark (apps/benchmarks/htap/queries/ch), which  *)
(* take the degree of parallelism of the elastic scheduler, and the four   *)
(* consistency checks of TPC-C                                             *)
(* (apps/benchmarks/oltp/bench/tpcc/consistency_verifiers.cpp).            *)
(***************************************************************************)

Q_1_cpar(dop) ==
  <<scan("tpcc_orderline", <<"ol_number", "ol_delivery_d", "ol_quantity", "ol_amount">>), router(dop), unpack,
    filter(<<"$1">>),
    groupby(<<As("$0", <<"$0">>)>>, <<As("$1", <<"$2">>), As("$2", <<>>), As("$3", <<"$3">>), As("$4", <<>>),
                                      As("$5", <<>>)>>),
    router(1),
    groupby(<<As("$0", <<"$0">>)>>, <<As("$1", <<"$1">>), As("$2", <<"$2">>), As("$3", <<"$3">>),
                                      As("$4", <<"$4">>), As("$5", <<"$5">>)>>),
    project(<<As("ol_number", <<"$0">>), As("sum_qty", <<"$2", "$1">>), As("sum_amount", <<"$4", "$3">>),
              As("avg_qty", <<"$2", "$1">>), As("avg_amount", <<"$4", "$3">>), As("count_order", <<"$5">>)>>),
    sort(<<A("$0"), A("$1"), A("$2"), A("$3"), A("$4"), A("$5")>>, 6),
    project(<<As("ol_number", <<"$0">>), As("sum_qty", <<"$1">>), As("sum_amount", <<"$2">>),
              As("avg_qty", <<"$3">>), As("avg_amount", <<"$4">>), As("count_order", <<"$5">>)>>),
    printAll>>

\* Orders with a line delivered late: a semijoin, whose distinct orders are
\* collected in one stream and broadcast again.
Q_4_cpar(dop) ==
  LET rel2027 == <<scanAs("order2", "tpcc_order", <<"o_id", "o_d_id", "o_w_id", "o_entry_d">>), membrdcst(dop),
                   routerHash(dop), unpack, filter(<<"o_entry_d">>)>>
      rel2036 == <<scan("tpcc_orderline", <<"ol_o_id", "ol_d_id", "ol_w_id", "ol_delivery_d">>), router(dop),
                   unpack,
                   join(rel2027,
                     Key("bk", <<As("bk_0", <<"o_id">>), As("bk_2", <<"o_w_id">>), As("bk_1", <<"o_d_id">>)>>),
                     Key("pk", <<As("pk_0", <<"ol_o_id">>), As("pk_2", <<"ol_w_id">>),
                                 As("pk_1", <<"ol_d_id">>)>>)),
                   filter(<<"ol_delivery_d", "o_entry_d">>),
                   groupby(<<A("o_id"), A("o_d_id"), A("o_w_id"), A("o_entry_d")>>, <<>>), router(1),
                   groupby(<<As("$0", <<"$0">>), As("$1", <<"$1">>), As("$2", <<"$2">>), As("$3", <<"$3">>)>>,
                           <<>>),
                   pack, membrdcst(dop), routerHash(dop), unpack>>
  IN  <<scan("tpcc_order", <<"o_id", "o_d_id", "o_w_id", "o_entry_d", "o_ol_cnt">>), router(dop), unpack,
        filter(<<"o_entry_d">>),
        join(rel2036,
          Key("bk", <<As("bk_0", <<"$0">>), As("bk_1", <<"$1">>), As("bk_2", <<"$2">>), As("bk_3", <<"$3">>)>>),
          Key("pk", <<As("pk_0", <<"$0">>), As("pk_1", <<"$1">>), As("pk_2", <<"$2">>), As("pk_3", <<"$3">>)>>)),
        groupby(<<As("o_ol_cnt", <<"o_ol_cnt">>)>>, <<As("order_count", <<>>)>>), router(1),
        groupby(<<A("o_ol_cnt")>>, <<A("order_count")>>), sort(<<A("o_ol_cnt"), A("order_count")>>, 2), printAll>>

Q_6_cpar(dop, dev) ==
  <<scan("tpcc_orderline", <<"ol_delivery_d", "ol_quantity", "ol_amount">>), router(dop)>>
  \o When(dev = "GPU", <<memmove(dev), to_gpu>>)
  \o <<unpack, filter(<<"ol_quantity", "ol_delivery_d">>),
       project(<<As("ol_delivery_d", <<"$0">>), As("ol_quantity", <<"$1">>), As("ol_amount", <<"$2">>)>>),
       reduce(<<A("ol_amount")>>)>>
  \o When(dev = "GPU", <<to_cpu>>)
  \o <<router(1), reduce(<<As("ol_amount", <<"ol_amount">>)>>), printAll>>

Q_19_cpar(dop) ==
  LET rel1618 == <<scan("tpcc_item", <<"i_id", "i_price">>), membrdcst(dop), routerHash(dop), unpack,
                   filter(<<"i_price">>), project(<<A("i_id")>>)>>
  IN  <<scan("tpcc_orderline", <<"ol_w_id", "ol_i_id", "ol_quantity", "ol_amount">>), router(dop), unpack,
        filter(<<"ol_quantity", "$0">>), join(rel1618, As("bk_0", <<"$0">>), As("pk_0", <<"ol_i_id">>)),
        reduce(<<A("ol_amount")>>), router(1), reduce(<<As("revenue", <<"$0">>)>>), printAll>>

---------------------------------------------------------------------------
(* TPC-C's consistency conditions *)

OLTPShaper == [InputPrefixQueryShaper EXCEPT !.dev = "CPU"]
CountOf(return_aggregate) == When(return_aggregate, <<reduce(<<As("count_inconsistent_rec", <<>>)>>)>>)

\* A warehouse's ytd is the sum of its districts': the districts' sums are the
\* build side of a second call of parallel.
consistency_check_1_query_builder(e, return_aggregate) ==
  LET agg_district == shaped(e, OLTPShaper,
        [probe |-> <<scan("tpcc_district", <<"d_w_id", "d_ytd">>)>>, builds |-> <<>>,
         pipe  |-> <<unpack, groupby(<<As("d_w_id", <<"d_w_id">>)>>, <<As("district_ytd", <<"d_ytd">>)>>)>>,
         top   |-> <<groupby(<<As("d_w_id", <<"d_w_id">>)>>, <<As("district_ytd", <<"district_ytd">>)>>), pack>>])
      check == [probe |-> <<>>, builds |-> <<>>,
                pipe |-> <<unpack, join(build(1) \o <<unpack>>, As("bk", <<"d_w_id">>), As("pk", <<"w_id">>)),
                           project(<<As("w_id", <<"w_id">>), As("warehouse_ytd", <<"w_ytd">>),
                                     As("district_ytd", <<"district_ytd">>)>>),
                           filter(<<"warehouse_ytd", "district_ytd">>)>>,
                top |-> <<>>]
      rel_warehouse == shapedScan(OLTPShaper, scan("tpcc_warehouse", <<"w_id", "w_ytd">>))
  IN  parallelOne(e, OLTPShaper, check, rel_warehouse, <<agg_district>>) \o CountOf(return_aggregate) \o <<printAll>>

\* The last order, the last new order and the next order of every district:
\* three results that are compared as text.
consistency_check_2_query_builder ==
  LET Latest(table, w, d, o) ==
        <<scan(table, <<w, d, o>>), router(24), unpack, groupby(<<A(w), A(d)>>, <<A(o)>>), router(1),
          groupby(<<A(w), A(d)>>, <<A(o)>>), sort(<<A(w), A(d), A(o)>>, 3), printAll>>
  IN  <<Latest("tpcc_order", "o_w_id", "o_d_id", "o_id"),
        Latest("tpcc_neworder", "no_w_id", "no_d_id", "no_o_id"),
        <<scan("tpcc_district", <<"d_w_id", "d_id", "d_next_o_id">>), unpack,
          sort(<<A("d_w_id"), A("d_id"), A("d_next_o_id")>>, 3),
          project(<<As("d_w_id", <<"d_w_id">>), As("d_id", <<"d_id">>), As("d_next_o_id", <<"d_next_o_id">>)>>),
          printAll>> >>

consistency_check_3_query_builder(e, return_aggregate) ==
  <<scan("tpcc_neworder", <<"no_w_id", "no_d_id", "no_o_id">>), router(getDefaultDOP(e, "CPU")), unpack,
    project(<<As("no_w_id", <<"no_w_id">>), As("no_d_id", <<"no_d_id">>), As("no_o_id_min", <<"no_o_id">>),
              As("no_o_id_max", <<"no_o_id">>)>>),
    groupby(<<As("no_w_id", <<"no_w_id">>), As("no_d_id", <<"no_d_id">>)>>,
            <<As("maxCount", <<"no_o_id_max">>), As("minCount", <<"no_o_id_min">>), As("noCount", <<>>)>>),
    router(1),
    groupby(<<A("no_w_id"), A("no_d_id")>>, <<A("maxCount"), A("minCount"), A("noCount")>>),
    project(<<As("no_w_id", <<"no_w_id">>), As("no_d_id", <<"no_d_id">>), As("maxCount", <<"maxCount">>),
              As("minCount", <<"minCount">>), As("expected_count", <<"maxCount">>),
              As("actual_count", <<"noCount">>)>>),
    filter(<<"expected_count", "actual_count">>)>>
  \o CountOf(return_aggregate) \o <<printAll>>

\* The order lines that the orders announce against those that exist.
consistency_check_4_query_builder(e, return_aggregate) ==
  LET Counted(table, w, d, extra, of, n) ==
        <<scan(table, <<w, d, extra>>), router(getDefaultDOP(e, "CPU")), unpack,
          groupby(<<As(w, <<w>>), As(d, <<d>>)>>, <<As(n, of)>>), router(1),
          groupby(<<A(w), A(d)>>, <<A(n)>>), project(<<As(w, <<w>>), As(d, <<d>>), As(n, <<n>>)>>)>>
      tpcc_check_4_order == Counted("tpcc_order", "o_w_id", "o_d_id", "o_ol_cnt", <<"o_ol_cnt">>, "sum_o_ol_cnt")
      tpcc_check_4_orderLine == Counted("tpcc_orderline", "ol_w_id", "ol_d_id", "ol_o_id", <<>>, "cnt_ol_o_id")
  IN  tpcc_check_4_orderLine
      \o <<join(tpcc_check_4_order, Key("bk", <<As("bk_0", <<"o_w_id">>), As("bk_1", <<"o_d_id">>)>>),
                Key("pk", <<As("pk_0", <<"ol_w_id">>), As("pk_1", <<"ol_d_id">>)>>)),
           filter(<<"sum_o_ol_cnt", "cnt_ol_o_id">>),
           project(<<As("w_id", <<"o_w_id">>), As("d_id", <<"o_d_id">>), As("o_count", <<"sum_o_ol_cnt">>),
                     As("ol_count", <<"cnt_ol_o_id">>)>>)>>
      \o CountOf(return_aggregate) \o <<printAll>>
=============================================================================
