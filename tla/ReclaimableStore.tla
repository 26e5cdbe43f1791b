-------------------------- MODULE ReclaimableStore --------------------------
(***************************************************************************)
(* What a delta store promises to the transaction manager, with no counter *)
(* and no spinning: threads enter and leave; a reclamation excludes every  *)
(* thread that is inside, and at most one thread reclaims.  Each           *)
(* reclamation discards what the store holds or leaves it alone.           *)
(***************************************************************************)


CONSTANTS Threads, Timestamps

VARIABLES inside,      \* the threads registered with the store
          reclaimers,  \* the threads that are reclaiming it
          contents     \* the timestamps of the versions it holds

vars == <<inside, reclaimers, contents>>

Init ==
  /\ inside = {}
  /\ reclaimers = {}
  /\ contents = {}

Enter(t) ==
  /\ t \notin inside
  /\ reclaimers = {}
  /\ inside' = inside \cup {t}
  /\ UNCHANGED <<reclaimers, contents>>

Leave(t) ==
  /\ t \in inside
  /\ inside' = inside \ {t}
  /\ UNCHANGED <<reclaimers, contents>>

Store(t) ==
  /\ t \in inside
  /\ \E v \in Timestamps : contents' = contents \cup {v}
  /\ UNCHANGED <<inside, reclaimers>>

StartReclaim(t) ==
  /\ inside = {}
  /\ reclaimers = {}
  /\ reclaimers' = {t}
  /\ UNCHANGED <<inside, contents>>

Discard(t) ==
  /\ t \in reclaimers
  /\ contents' = {}
  /\ UNCHANGED <<inside, reclaimers>>

EndReclaim(t) ==
  /\ t \in reclaimers
  /\ reclaimers' = reclaimers \ {t}
  /\ UNCHANGED <<inside, contents>>

Next ==
  \E t \in Threads :
    \/ Enter(t) \/ Leave(t) \/ Store(t)
    \/ StartReclaim(t) \/ Discard(t) \/ EndReclaim(t)

Spec == Init /\ [][Next]_vars
=============================================================================
