SPECIFICATION Spec
CHECK_DEADLOCK FALSE
CONSTANTS
 Workers = {0, 1}
 num_warehouse = 2
 TpchOrders = {0}
 TPCC_NDIST_PER_WH = 1
 TPCC_NCUST_PER_DIST = 1
 TPCC_MAX_ITEMS = 2
 MinLines = 2
 TPCC_MAX_OL_PER_ORDER = 2
 Mix = {"NEW_ORDER", "PAYMENT"}
 tpcc_dist_txns = FALSE
 index_on_order_tbl = FALSE
 Quantities = {4}
 Amounts = {1}
 MaxTxns = 2
INVARIANTS PaymentsBooked
