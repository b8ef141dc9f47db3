------------------------- MODULE MCPredictionLearning -------------------------
(* Two threads of one process and one of another recording and resolving one correlated   *)
(* prediction, a tracked command, and a reader.                            *)
EXTENDS PredictionLearning, TLC

CONSTANTS c1, c2, c3, k1, t1, a1, a2

ProcessOfCaller == c1 :> 1 @@ c2 :> 1 @@ c3 :> 2
OneStripe == [k \in Correlated |-> 1]
AgentOfAll == c1 :> NoAgent @@ c2 :> a1 @@ c3 :> a1 @@ k1 :> a1 @@ t1 :> a2
=============================================================================
