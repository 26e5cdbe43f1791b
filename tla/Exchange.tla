----------------------------- MODULE Exchange ------------------------------
(***************************************************************************)
(* What an exchange operator promises the pipelines it connects: a tuple   *)
(* handed to it reaches exactly one consumer, exactly once, and the last   *)
(* close() returns when none is on its way.                                *)
(***************************************************************************)
CONSTANT Tuples

VARIABLES inflight,  \* routed and not yet consumed
          delivered, \* consumed by the pipeline behind the exchange
          closed     \* the last close() returned

exchangeVars == <<inflight, delivered, closed>>

Init == inflight = {} /\ delivered = {} /\ ~closed

Route(x) ==
  /\ ~closed /\ x \notin inflight \cup delivered
  /\ inflight' = inflight \cup {x}
  /\ UNCHANGED <<delivered, closed>>

Deliver(x) ==
  /\ x \in inflight
  /\ inflight' = inflight \ {x}
  /\ delivered' = delivered \cup {x}
  /\ UNCHANGED closed

Close == inflight = {} /\ closed' = TRUE /\ UNCHANGED <<inflight, delivered>>

Next == Close \/ \E x \in Tuples : Route(x) \/ Deliver(x)

Spec == Init /\ [][Next]_exchangeVars
=============================================================================
