-------------------------------- MODULE TPCC --------------------------------
(***************************************************************************)
(* The transactions of the TPC-C benchmark (apps/benchmarks/oltp/bench/    *)
(* tpcc) over the OLTP engine: each worker draws transactions, locks the   *)
(* rows it will write without waiting, reads them as of the start of the   *)
(* transaction, writes them in place, and inserts what it adds.  A row     *)
(* keeps only the columns that some transaction reads and writes; the      *)
(* columns are found by their position in the table, as in the code.       *)
(***************************************************************************)
EXTENDS Integers, Sequences, FiniteSets, FiniteSetsExt, SequencesExt

CONSTANTS Workers,                \* worker i works on warehouse i, if it is loaded
          num_warehouse,
          TpchOrders,             \* the totals of orders that scale factors ask for
          TPCC_NDIST_PER_WH,
          TPCC_NCUST_PER_DIST,    \* customers of a district
          TPCC_MAX_ITEMS,
          MinLines, TPCC_MAX_OL_PER_ORDER,  \* lines of an order; at least 5 in the code
          Mix,                    \* the query types drawn (query_sequence)
          tpcc_dist_txns,         \* transactions may touch another warehouse
          index_on_order_tbl,     \* orders are indexed
          Quantities, Amounts,    \* what a query asks for
          MaxTxns                 \* bounds the transactions begun

VARIABLES
  total_order,  \* for tpch_scale_factor, 0 if there is none; never changes
  db,         \* the versions of every row, the newest first
  locks,      \* the rows locked, with the worker that holds them
  orders, new_orders, order_lines,
  clock,      \* the time of the last transaction begun
  pc, q, ts,  \* of each worker: where it is, its query and its start time
  ol_number,  \* the stock rows its order has written
  o_id,       \* the order id it has drawn
  booked,     \* history: the payments completed
  overtaken   \* history: rows an older transaction wrote after a younger one

vars == <<total_order, db, locks, orders, new_orders, order_lines, clock, pc, q, ts, ol_number, o_id,
          booked, overtaken>>

Warehouses == 0..(num_warehouse - 1)
Districts == 0..(TPCC_NDIST_PER_WH - 1)
Customers == 0..(TPCC_NCUST_PER_DIST - 1)
Items == 0..(TPCC_MAX_ITEMS - 1)

-----------------------------------------------------------------------------
\* The columns of the tables, in the order in which they are created.
create_tbl_warehouse ==
  <<"w_id", "w_name", "w_street_1", "w_street_2", "w_city", "w_state", "w_zip",
    "w_tax", "w_ytd">>

create_tbl_district ==
  <<"d_id", "d_w_id", "d_name", "d_street_1", "d_street_2", "d_city", "d_state",
    "d_zip", "d_tax", "d_ytd", "d_next_o_id">>

create_tbl_stock ==
  <<"s_i_id", "s_w_id", "s_quantity">>
    \o [i \in 1..10 |-> "s_dist"]
    \o <<"s_ytd", "s_order_cnt", "s_remote_cnt", "s_data", "s_su_suppkey">>

create_tbl_customer ==
  <<"c_id", "c_w_id", "c_d_id", "c_first", "c_middle", "c_last", "c_street_1",
    "c_street_2", "c_city", "c_state", "c_zip", "c_phone", "c_since", "c_credit",
    "c_credit_lim", "c_discount", "c_balance", "c_ytd_payment", "c_payment_cnt",
    "c_delivery_cnt", "c_data", "c_n_nationkey">>

\* The rows a worker loads for its warehouse.  Amounts are in thousands.
load_warehouse(w) == << <<"warehouse", w>>, [w_tax |-> 0, w_ytd |-> 30 * TPCC_NDIST_PER_WH] >>

\* Orders are numbered from 3000, whatever number of them is loaded.
load_district(w, d) ==
  << <<"district", w, d>>,
     [d_tax |-> 0, d_ytd |-> 30, d_next_o_id |-> TPCC_NCUST_PER_DIST] >>

load_stock(w, i) ==
  << <<"stock", w, i>>,
     [s_quantity |-> 14, s_ytd |-> 0, s_order_cnt |-> 0, s_remote_cnt |-> 0] >>

load_customer(w, d, c) ==
  << <<"customer", w, d, c>>, [c_discount |-> 1, c_balance |-> -10, c_ytd_payment |-> 10] >>

\* The orders loaded in each district: one per customer, or the share of what
\* the scale factor asks for.
order_per_dist ==
  IF total_order # 0 THEN (total_order \div num_warehouse) \div TPCC_NDIST_PER_WH
  ELSE TPCC_NCUST_PER_DIST
pre_orders == (order_per_dist * 7) \div 10

\* The orders loaded, the last of them not yet delivered.
load_order(w, d) ==
  LET os == 0..(order_per_dist - 1)
      key(o) == [w_id |-> w, d_id |-> d, o_id |-> o, xid |-> 0]
  IN [orders |-> {key(o) @@ [ol_cnt |-> TPCC_MAX_OL_PER_ORDER] : o \in os},
      new_orders |-> {key(o) : o \in pre_orders..(order_per_dist - 1)},
      lines |-> {key(o) @@ [number |-> n, row |-> <<>>, quantity |-> 5] :
                   o \in os, n \in 0..(TPCC_MAX_OL_PER_ORDER - 1)}]

\* All that the workers load before the transactions start.
pre_run ==
  LET WD == Warehouses \X Districts
      rows == {load_warehouse(w) : w \in Warehouses}
                \cup {load_district(w, d) : w \in Warehouses, d \in Districts}
                \cup {load_stock(w, i) : w \in Warehouses, i \in Items}
                \cup {load_customer(w, d, c) :
                        w \in Warehouses, d \in Districts, c \in Customers}
      loaded == [x \in WD |-> load_order(x[1], x[2])]
      row(r) == (CHOOSE x \in rows : x[1] = r)[2]
  IN [db |-> [r \in {x[1] : x \in rows} |-> <<[t_min |-> 0, row |-> row(r)]>>],
      orders |-> UNION {loaded[x].orders : x \in WD},
      new_orders |-> UNION {loaded[x].new_orders : x \in WD},
      lines |-> UNION {loaded[x].lines : x \in WD}]

-----------------------------------------------------------------------------
\* The columns at some positions.
At(columns, ids) == [i \in DOMAIN ids |-> columns[ids[i] + 1]]

\* Mutant: a reader walks on to the end of the version list.
getIndexedRecordOldest(t, r) == db[r][Len(db[r])].row

\* The row as a transaction that started at time t sees it: the newest version
\* if it is not younger, and otherwise the first in the list that is not.
getIndexedRecord(t, r) ==
  LET i == CHOOSE i \in DOMAIN db[r] :
             db[r][i].t_min <= t /\ \A j \in 1..(i - 1) : db[r][j].t_min > t
  IN db[r][i].row

\* The row with new values in the columns cols; the old version stays behind.
updateRecord(t, r, cols, values) ==
  LET new == [c \in DOMAIN db[r][1].row |->
                IF c \in Range(cols) THEN values[c] ELSE db[r][1].row[c]]
  IN <<[t_min |-> t, row |-> new]>> \o db[r]

\* find() in the index of a table: every lookup asserts that there is such a row.
Loaded(r) == r \in DOMAIN db

\* try_lock of row r.
Free(r) == \A l \in locks : l.row # r
Locked(w, r) == locks \cup {[row |-> r, by |-> w]}
Unlocked(w, rs) == {l \in locks : ~(l.by = w /\ l.row \in rs)}

-----------------------------------------------------------------------------
\* The queries a worker may draw.  The items of an order differ.
tpcc_get_next_neworder_query(w) ==
  LET home == w % num_warehouse
      supply == IF tpcc_dist_txns THEN {w} \cup (Workers \ {home}) ELSE {w}
      item == [i_id : Items, supply_w_id : supply, quantity : Quantities]
      lists == {s \in UNION {[1..n -> item] : n \in MinLines..TPCC_MAX_OL_PER_ORDER} :
                  \A i, j \in DOMAIN s : i # j => s[i].i_id # s[j].i_id}
  IN {[type |-> "NEW_ORDER", w_id |-> home, d_id |-> d, items |-> s,
       remote |-> \E i \in DOMAIN s : s[i].supply_w_id # w] : d \in Districts, s \in lists}

tpcc_get_next_payment_query(w) ==
  LET other == IF Workers = {w} THEN {w} ELSE Workers \ {w}
      homes(d) == {<<w, d>>} \cup (IF tpcc_dist_txns THEN other \X Districts ELSE {})
  IN {[type |-> "PAYMENT", w_id |-> w, d_id |-> x[1], c_w_id |-> x[2][1], c_d_id |-> x[2][2],
       c_id |-> c, h_amount |-> h] :
        x \in UNION {{d} \X homes(d) : d \in Districts}, c \in Customers, h \in Amounts}

tpcc_get_next_orderstatus_query(w) ==
  {[type |-> "ORDER_STATUS", w_id |-> w, d_id |-> d] : d \in Districts}

tpcc_get_next_delivery_query(w) == {[type |-> "DELIVERY", w_id |-> w]}

tpcc_get_next_stocklevel_query(w) ==
  {[type |-> "STOCK_LEVEL", w_id |-> w, d_id |-> d] : d \in Districts}

NoQuery == [type |-> "none"]

\* The next query of worker w, and the start of its transaction.
gen_txn(w) ==
  /\ pc[w] = "idle" /\ clock < MaxTxns
  /\ \E x \in tpcc_get_next_neworder_query(w) \cup tpcc_get_next_payment_query(w)
              \cup tpcc_get_next_orderstatus_query(w) \cup tpcc_get_next_delivery_query(w)
              \cup tpcc_get_next_stocklevel_query(w) :
       x.type \in Mix /\ q' = [q EXCEPT ![w] = x]
  /\ clock' = clock + 1
  /\ ts' = [ts EXCEPT ![w] = clock + 1]
  /\ pc' = [pc EXCEPT ![w] = "exec_txn"]
  /\ UNCHANGED <<db, locks, orders, new_orders, order_lines, ol_number, o_id, booked,
                 overtaken>>

Go(w, l) == pc' = [pc EXCEPT ![w] = l]

\* The worker is done with its transaction, committed or not.
Done(w) ==
  /\ pc' = [pc EXCEPT ![w] = "idle"]
  /\ q' = [q EXCEPT ![w] = NoQuery] /\ ts' = [ts EXCEPT ![w] = 0]
  /\ ol_number' = [ol_number EXCEPT ![w] = 0] /\ o_id' = [o_id EXCEPT ![w] = 0]

\* An assertion fails.
Fail(w) == Go(w, "failed") /\ UNCHANGED <<q, ts, ol_number, o_id>>

\* The rows that the new order of w writes, in the order it locks them.
StockRow(item) == <<"stock", item.supply_w_id, item.i_id>>
OrderRows(w) ==
  << <<"district", q[w].w_id, q[w].d_id>> >>
    \o [i \in DOMAIN q[w].items |-> StockRow(q[w].items[i])]
Held(w) == {l.row : l \in {x \in locks : x.by = w}}

\* New order: the district and the stock rows are locked one by one; the first
\* that is taken makes the transaction give the others back and abort.
neworder_lock(w) ==
  LET k == Cardinality(Held(w)) + 1 IN
  /\ pc[w] = "exec_txn" /\ q[w].type = "NEW_ORDER" /\ k <= Len(OrderRows(w))
  /\ \/ /\ ~Loaded(OrderRows(w)[k]) /\ Fail(w)
        /\ UNCHANGED locks
     \/ /\ Loaded(OrderRows(w)[k]) /\ Free(OrderRows(w)[k])
        /\ locks' = Locked(w, OrderRows(w)[k])
        /\ UNCHANGED <<pc, q, ts, ol_number, o_id>>
     \/ /\ ~Free(OrderRows(w)[k])
        /\ locks' = Unlocked(w, Held(w))
        /\ Done(w)
  /\ UNCHANGED <<db, orders, new_orders, order_lines, clock, booked, overtaken>>

\* The stock left after an order of n.
QuantityAfter(s_quantity, n) ==
  IF s_quantity > n + 10 THEN s_quantity - n ELSE s_quantity - n + 91

\* A stock row is read as of the start of the transaction, and written.
neworder_stock(w) ==
  /\ pc[w] = "exec_txn" /\ q[w].type = "NEW_ORDER"
  /\ Cardinality(Held(w)) = Len(OrderRows(w))
  /\ ol_number[w] < Len(q[w].items)
  /\ LET it == q[w].items[ol_number[w] + 1]
         r == StockRow(it)
         s == getIndexedRecord(ts[w], r)
         cols == At(create_tbl_stock, <<2, 13, 14, 15>>)
     IN /\ db' = [db EXCEPT ![r] = updateRecord(ts[w], r, cols,
                    [s_quantity |-> QuantityAfter(s.s_quantity, it.quantity),
                     s_ytd |-> s.s_ytd + it.quantity,
                     s_order_cnt |-> s.s_order_cnt + 1,
                     s_remote_cnt |-> s.s_remote_cnt + (IF q[w].remote THEN 1 ELSE 0)])]
        /\ overtaken' = overtaken \cup (IF db[r][1].t_min > ts[w] THEN {r} ELSE {})
  /\ ol_number' = [ol_number EXCEPT ![w] = @ + 1]
  /\ UNCHANGED <<locks, orders, new_orders, order_lines, clock, pc, q, ts, o_id, booked>>

\* Mutant: the order takes the id that was written back instead of the one read.
neworder_districtRaised(w) ==
  /\ pc[w] = "exec_txn" /\ q[w].type = "NEW_ORDER"
  /\ Cardinality(Held(w)) = Len(OrderRows(w)) /\ ol_number[w] = Len(q[w].items)
  /\ LET r == OrderRows(w)[1]
         next == getIndexedRecord(ts[w], r).d_next_o_id + 1
     IN /\ db' = [db EXCEPT ![r] = updateRecord(ts[w], r, At(create_tbl_district, <<10>>),
                                                [d_next_o_id |-> next])]
        /\ o_id' = [o_id EXCEPT ![w] = next]
  /\ Go(w, "release")
  /\ UNCHANGED <<locks, orders, new_orders, order_lines, clock, q, ts, ol_number, booked,
                 overtaken>>

\* The district's next order id is drawn and raised.
neworder_district(w) ==
  /\ pc[w] = "exec_txn" /\ q[w].type = "NEW_ORDER"
  /\ Cardinality(Held(w)) = Len(OrderRows(w))
  /\ ol_number[w] = Len(q[w].items)
  /\ LET r == OrderRows(w)[1]
         next == getIndexedRecord(ts[w], r).d_next_o_id
     IN /\ db' = [db EXCEPT ![r] = updateRecord(ts[w], r, At(create_tbl_district, <<10>>),
                                                [d_next_o_id |-> next + 1])]
        /\ overtaken' = overtaken \cup (IF db[r][1].t_min > ts[w] THEN {r} ELSE {})
        /\ o_id' = [o_id EXCEPT ![w] = next]
  /\ Go(w, "release")
  /\ UNCHANGED <<locks, orders, new_orders, order_lines, clock, q, ts, ol_number, booked>>

\* All locks are given back before the order is inserted.
neworder_release(w) ==
  /\ pc[w] = "release"
  /\ locks' = Unlocked(w, Held(w))
  /\ Go(w, "order")
  /\ UNCHANGED <<db, orders, new_orders, order_lines, clock, q, ts, ol_number, o_id, booked,
                 overtaken>>

Inserted(w) == [w_id |-> q[w].w_id, d_id |-> q[w].d_id, o_id |-> o_id[w], xid |-> ts[w]]

\* The order, its entry among the new orders, and its lines are inserted.
neworder_insert_order(w) ==
  /\ pc[w] = "order"
  /\ orders' = orders \cup {Inserted(w) @@ [ol_cnt |-> Len(q[w].items)]}
  /\ Go(w, "new_order")
  /\ UNCHANGED <<db, locks, new_orders, order_lines, clock, q, ts, ol_number, o_id, booked,
                 overtaken>>

neworder_insert_new_order(w) ==
  /\ pc[w] = "new_order"
  /\ new_orders' = new_orders \cup {Inserted(w)}
  /\ Go(w, "order_lines")
  /\ UNCHANGED <<db, locks, orders, order_lines, clock, q, ts, ol_number, o_id, booked,
                 overtaken>>

neworder_insert_lines(w) ==
  /\ pc[w] = "order_lines"
  /\ order_lines' = order_lines \cup
       {Inserted(w) @@ [number |-> i - 1, row |-> StockRow(q[w].items[i]),
                        quantity |-> q[w].items[i].quantity] : i \in DOMAIN q[w].items}
  /\ Done(w)
  /\ UNCHANGED <<db, locks, orders, new_orders, clock, booked, overtaken>>

-----------------------------------------------------------------------------
\* The rows that the payment of w writes, in the order it locks them.
PaymentRows(w) ==
  << <<"warehouse", q[w].w_id>>, <<"district", q[w].w_id, q[w].d_id>>,
     <<"customer", q[w].c_w_id, q[w].c_d_id, q[w].c_id>> >>

\* Payment locks its three rows, or gives back what it has and aborts.
payment_lock(w) ==
  LET k == Cardinality(Held(w)) + 1 IN
  /\ pc[w] = "exec_txn" /\ q[w].type = "PAYMENT"
  /\ \/ /\ ~Loaded(PaymentRows(w)[k]) /\ Fail(w)
        /\ UNCHANGED locks
     \/ /\ Loaded(PaymentRows(w)[k]) /\ Free(PaymentRows(w)[k])
        /\ locks' = Locked(w, PaymentRows(w)[k])
        /\ IF k = 3 THEN Go(w, "pay_warehouse") ELSE UNCHANGED pc
        /\ UNCHANGED <<q, ts, ol_number, o_id>>
     \/ /\ ~Free(PaymentRows(w)[k])
        /\ locks' = Unlocked(w, Held(w))
        /\ Done(w)
  /\ UNCHANGED <<db, orders, new_orders, order_lines, clock, booked, overtaken>>

\* Row r, with amount h added to its column at position id, is written and
\* unlocked under its latch.
PayInto(w, r, columns, id, h) ==
  LET col == columns[id + 1]
      v == getIndexedRecord(ts[w], r)[col]
  IN /\ db' = [db EXCEPT ![r] = updateRecord(ts[w], r, <<col>>, [c \in {col} |-> v + h])]
     /\ overtaken' = overtaken \cup (IF db[r][1].t_min > ts[w] THEN {r} ELSE {})
     /\ locks' = Unlocked(w, {r})

payment_warehouse(w) ==
  /\ pc[w] = "pay_warehouse"
  /\ PayInto(w, PaymentRows(w)[1], create_tbl_warehouse, 7, q[w].h_amount)
  /\ Go(w, "pay_district")
  /\ UNCHANGED <<orders, new_orders, order_lines, clock, q, ts, ol_number, o_id, booked>>

payment_district(w) ==
  /\ pc[w] = "pay_district"
  /\ PayInto(w, PaymentRows(w)[2], create_tbl_district, 8, q[w].h_amount)
  /\ Go(w, "pay_customer")
  /\ UNCHANGED <<orders, new_orders, order_lines, clock, q, ts, ol_number, o_id, booked>>

\* The customer's columns are read into a buffer and written back from it; the
\* credit is read as two bytes behind what was filled in, so it is never "BC".
payment_customer(w) ==
  /\ pc[w] = "pay_customer"
  /\ LET r == PaymentRows(w)[3]
         cols == SubSeq(At(create_tbl_customer, <<15, 16, 17, 19, 12>>), 1, 3)
     IN /\ db' = [db EXCEPT ![r] = updateRecord(ts[w], r, cols, getIndexedRecord(ts[w], r))]
        /\ overtaken' = overtaken \cup (IF db[r][1].t_min > ts[w] THEN {r} ELSE {})
        /\ locks' = Unlocked(w, {r})
  /\ booked' = booked \cup {[w_id |-> q[w].w_id, d_id |-> q[w].d_id, xid |-> ts[w],
                             h_amount |-> q[w].h_amount]}
  /\ Done(w)
  /\ UNCHANGED <<orders, new_orders, order_lines, clock>>

-----------------------------------------------------------------------------
OrderIn(x, o) == \E r \in orders : r.w_id = x.w_id /\ r.d_id = x.d_id /\ r.o_id = o
LineIn(x, o, n) ==
  \E r \in order_lines : r.w_id = x.w_id /\ r.d_id = x.d_id /\ r.o_id = o /\ r.number = n
LinesOf(x, o) == (CHOOSE r \in orders : r.w_id = x.w_id /\ r.d_id = x.d_id /\ r.o_id = o).ol_cnt

\* What order status looks up: a customer, 2999 orders and their lines.
orderstatus_finds(w) ==
  /\ Loaded(<<"district", q[w].w_id, q[w].d_id>>)
  /\ \A o \in 1..(TPCC_NCUST_PER_DIST - 1) :
       /\ OrderIn(q[w], o)
       /\ \A n \in 0..(LinesOf(q[w], o) - 1) : LineIn(q[w], o, n)

\* What stock level looks up: the district's last twenty orders, and their lines.
stocklevel_finds(w) ==
  LET district == <<"district", q[w].w_id, q[w].d_id>>
      next == getIndexedRecord(ts[w], district).d_next_o_id
  IN /\ Loaded(district)
     /\ \A o \in (IF next > 20 THEN next - 20 ELSE 0)..(next - 1) :
          /\ OrderIn(q[w], o)
          /\ \A n \in 0..(LinesOf(q[w], o) - 1) : LineIn(q[w], o, n)

\* The transactions that only read.  A row that is not found fails an assertion,
\* and so does the lack of an index; delivery does nothing.
exec_read_txn(w) ==
  /\ pc[w] = "exec_txn" /\ q[w].type \in {"ORDER_STATUS", "STOCK_LEVEL", "DELIVERY"}
  /\ IF \/ q[w].type = "DELIVERY"
        \/ index_on_order_tbl /\ q[w].type = "ORDER_STATUS" /\ orderstatus_finds(w)
        \/ index_on_order_tbl /\ q[w].type = "STOCK_LEVEL" /\ stocklevel_finds(w)
     THEN Done(w)
     ELSE Fail(w)
  /\ UNCHANGED <<db, locks, orders, new_orders, order_lines, clock, booked, overtaken>>

Init ==
  /\ total_order \in TpchOrders
  /\ db = pre_run.db /\ orders = pre_run.orders
  /\ new_orders = pre_run.new_orders /\ order_lines = pre_run.lines
  /\ locks = {} /\ clock = 0
  /\ pc = [w \in Workers |-> "idle"] /\ q = [w \in Workers |-> NoQuery]
  /\ ts = [w \in Workers |-> 0] /\ ol_number = [w \in Workers |-> 0]
  /\ o_id = [w \in Workers |-> 0]
  /\ booked = {} /\ overtaken = {}

Next ==
  /\ UNCHANGED total_order
  /\ \E w \in Workers :
       \/ gen_txn(w)
       \/ neworder_lock(w) \/ neworder_stock(w) \/ neworder_district(w) \/ neworder_release(w)
       \/ neworder_insert_order(w) \/ neworder_insert_new_order(w) \/ neworder_insert_lines(w)
       \/ payment_lock(w) \/ payment_warehouse(w) \/ payment_district(w) \/ payment_customer(w)
       \/ exec_read_txn(w)

Spec == Init /\ [][Next]_vars

-----------------------------------------------------------------------------
Current(r) == db[r][1].row
Of(tbl, w, d) == {r \in tbl : r.w_id = w /\ r.d_id = d}
Ids(tbl) == {r.o_id : r \in tbl}
New(tbl) == {r \in tbl : r.xid # 0}
EachOnce(tbl) == Cardinality(tbl) = Cardinality(Ids(tbl))

\* The transaction of w is about a warehouse that was not loaded.
Beyond(w) ==
  \/ q[w].type # "NEW_ORDER" /\ w \notin Warehouses
  \/ q[w].type = "NEW_ORDER"
       /\ \E i \in DOMAIN q[w].items : q[w].items[i].supply_w_id \notin Warehouses
  \/ q[w].type = "PAYMENT" /\ q[w].c_w_id \notin Warehouses

\* Stock level may see the id of an order that another worker has yet to insert,
\* if another worker draws from the same district.
Overtakes(w) ==
  q[w].type = "STOCK_LEVEL" /\ \E v \in Workers \ {w} : v % num_warehouse = w

\* The order a worker has drawn an id for but has not inserted everywhere yet.
Pending(w, d, places) ==
  {o_id[x] : x \in {x \in Workers : pc[x] \in places /\ q[x].w_id = w /\ q[x].d_id = d}}

\* The order ids drawn in a district follow one another from 3000 on: each is
\* that of one order, inserted or still in the hand of a worker, and each order
\* gets the lines it asks for, although several workers may draw from the district
\* (wid % n_wh, txn.cpp:1238).  The exception is a district to which an older
\* transaction wrote after a younger one, and drew the same id (txn.cpp:246-265).
\* If as many orders were loaded as there are customers, and not another number by
\* the scale factor (tpcc_64.cpp:673, 773-779), and only then, conditions 2 to 4
\* of verify_consistency (consistency_verifiers.cpp) hold at every moment: the ids
\* below d_next_o_id are in use, each once, and no lookup of a transaction about
\* warehouses that were loaded fails, but for stock level in a warehouse that
\* several workers order from.
OrdersConsistent ==
  /\ \A w \in Workers : pc[w] = "failed" =>
       order_per_dist # TPCC_NCUST_PER_DIST \/ Beyond(w) \/ Overtakes(w)
  /\ \A w \in Warehouses, d \in Districts : <<"district", w, d>> \notin overtaken =>
       LET next == Current(<<"district", w, d>>).d_next_o_id
           drawn == TPCC_NCUST_PER_DIST..(next - 1)
           os == Of(orders, w, d)
           ns == Of(new_orders, w, d)
           unordered == Pending(w, d, {"release", "order"})
           complete == order_per_dist = TPCC_NCUST_PER_DIST
       IN /\ EachOnce(New(os)) /\ Ids(New(os)) \cup unordered = drawn
          /\ EachOnce(New(ns))
          /\ Ids(New(ns)) \cup Pending(w, d, {"release", "order", "new_order"}) = drawn
          /\ \A r \in os : r.o_id \notin Pending(w, d, {"new_order", "order_lines"}) =>
               {l.number : l \in {x \in Of(order_lines, w, d) :
                                     x.o_id = r.o_id /\ x.xid = r.xid}} = 0..(r.ol_cnt - 1)
          /\ complete =>
               /\ Ids(os) \cup unordered = 0..(next - 1)
               /\ Ids(ns) \cup Pending(w, d, {"release", "order", "new_order"})
                    = pre_orders..(next - 1)
          /\ unordered = {} => (complete <=> EachOnce(os) /\ Ids(os) = 0..(next - 1))

\* The items sold from stock row r: by the orders inserted, and by those in hand.
SoldOf(r) ==
  {[xid |-> l.xid, quantity |-> l.quantity] : l \in {x \in order_lines : x.row = r}}
    \cup {[xid |-> ts[w], quantity |-> q[w].items[i].quantity] :
            <<w, i>> \in {x \in Workers \X (1..TPCC_MAX_OL_PER_ORDER) :
                            /\ x[2] <= ol_number[x[1]]
                            /\ StockRow(q[x[1]].items[x[2]]) = r}}

\* The quantity sold that a stock row records is what the order lines add up to
\* once the orders in hand are counted, unless an older transaction wrote the row
\* after a younger one: it reads the row as of its start, so what the younger one
\* sold is lost (txn.cpp:209-239, column_store.cpp:304).
StockBooked ==
  \A r \in {<<"stock", w, i>> : w \in Warehouses, i \in Items} \ overtaken :
    /\ Current(r).s_ytd = MapThenSumSet(LAMBDA x : x.quantity, SoldOf(r))
    /\ Current(r).s_order_cnt = Cardinality(SoldOf(r))
    /\ Current(r).s_quantity >= 10

\* Payments are added to the warehouse's year-to-date balance, as the comment in
\* the code asks: "EXEC SQL UPDATE warehouse SET w_ytd = w_ytd + :h_amount"
\* (txn.cpp:876).
PaymentsBooked ==
  (\A w \in Workers : pc[w] = "idle") =>
    \A w \in Warehouses :
      Current(<<"warehouse", w>>).w_ytd
        = 30 * TPCC_NDIST_PER_WH
            + MapThenSumSet(LAMBDA x : x.h_amount, {x \in booked : x.w_id = w})
=============================================================================
