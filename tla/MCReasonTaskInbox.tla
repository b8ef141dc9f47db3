------------------------- MODULE MCReasonTaskInbox -------------------------
(* A run without tasks and a run with one, two results. *)
EXTENDS ReasonTaskInbox

CONSTANTS r1, r2, t1, v1, v2

EmptyAndOne == [r \in Runs |-> IF r = r1 THEN <<>> ELSE <<t1>>]
=============================================================================
