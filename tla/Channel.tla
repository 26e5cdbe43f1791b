------------------------------ MODULE Channel ------------------------------
(***************************************************************************)
(* What a closable queue between pipeline threads promises: values come    *)
(* out in the order they went in, close() returns and the end is reported  *)
(* only when all of them are out.                                          *)
(***************************************************************************)
EXTENDS Sequences

CONSTANT Values

VARIABLES queue,   \* values pushed and not yet popped
          closing, \* close() was called
          closed,  \* close() returned
          ended    \* pop() returned false

chanVars == <<queue, closing, closed, ended>>

Init == queue = <<>> /\ ~closing /\ ~closed /\ ~ended

Push(v) == ~closing /\ queue' = Append(queue, v) /\ UNCHANGED <<closing, closed, ended>>

Pop == queue # <<>> /\ queue' = Tail(queue) /\ UNCHANGED <<closing, closed, ended>>

Close == ~closing /\ closing' = TRUE /\ closed' \in {FALSE, queue = <<>>} /\ UNCHANGED <<queue, ended>>

Closed == closing /\ queue = <<>> /\ closed' = TRUE /\ UNCHANGED <<queue, closing, ended>>

End == closing /\ queue = <<>> /\ ended' = TRUE /\ UNCHANGED <<queue, closing, closed>>

Next == (\E v \in Values : Push(v)) \/ Pop \/ Close \/ Closed \/ End

Spec == Init /\ [][Next]_chanVars

\* Once closed, a queue that keeps being popped is drained, and both sides
\* learn of it.
FairSpec == Spec /\ WF_chanVars(Pop) /\ WF_chanVars(Closed /\ ~closed) /\ WF_chanVars(End /\ ~ended)
=============================================================================
