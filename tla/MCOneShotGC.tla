---------------------------- MODULE MCOneShotGC ----------------------------
(* OneShotGC with small stored procedures. *)
EXTENDS OneShotGC, TLC

CONSTANTS k1, k2

Lookup(k) == [type |-> "lookup", key |-> k]
Update(k) == [type |-> "update", key |-> k]
Insert(k) == [type |-> "insert", key |-> k]

\* A read-only lookup and an update of one record.
OneRecord ==
  { [ro |-> TRUE,  ops |-> <<Lookup(k1)>>],
    [ro |-> FALSE, ops |-> <<Update(k1)>>] }

\* A growing table: a scan of both keys, and an update followed by an insert.
Growing ==
  { [ro |-> TRUE,  ops |-> <<Lookup(k1), Lookup(k2)>>],
    [ro |-> FALSE, ops |-> <<Update(k1), Insert(k2)>>] }

\* Transfers that lock two records in opposite orders.
Transfers ==
  { [ro |-> FALSE, ops |-> <<Update(k1), Update(k2)>>],
    [ro |-> FALSE, ops |-> <<Update(k2), Update(k1)>>] }

\* Transfers, and an audit that reads both records.
Audited == Transfers \cup { [ro |-> TRUE, ops |-> <<Lookup(k1), Lookup(k2)>>] }

Symmetry == Permutations(Workers)
=============================================================================
