-------------------------- MODULE MCRelationGraph ---------------------------
(* Instance of RelationGraph: a chain a -> b -> c with a contradiction        *)
(* between c and a, proved by a record and by an episode; and the same store  *)
(* from before the rollout, with a version whose activation was interrupted.  *)
EXTENDS RelationGraph

CONSTANTS a, b, c, ep

Edge(kind, target, proof, status, until) ==
  [kind |-> kind, target |-> target, anchor |-> 1, proof |-> proof, status |-> status, until |-> until]

Row(status, evo, edges, previous) ==
  [status |-> status, evo |-> evo, ordinary |-> TRUE, edges |-> edges, index |-> Project(edges),
   created |-> IF evo = "pending" THEN 1 ELSE 0, updated |-> 0,
   previous |-> previous]

ToB == Edge("causes", b, <<b, 1>>, "accepted", None)
ToC == Edge("causes", c, ep, "accepted", None)
AtoC == Edge("causes", c, ep, "proposed", None)
CtoA == Edge("contradicts", a, <<b, 1>>, "accepted", 3)

Current == (<<a, 1>> :> Row("active", "none", {ToB, AtoC}, None))
        @@ (<<b, 1>> :> Row("active", "none", {ToC}, None))
        @@ (<<c, 1>> :> Row("active", "none", {CtoA}, None))

Legacy == [i \in {<<a, 1>>, <<b, 1>>, <<b, 2>>} |->
            [Row(IF i[2] = 2 THEN "deprecated" ELSE "active", IF i[2] = 2 THEN "pending" ELSE "none",
                 {}, IF i[2] = 2 THEN <<b, 1>> ELSE None) EXCEPT !.index = None]]

BothStores == {Current, Legacy}

Input(edge) == [k \in DOMAIN edge \ {"status"} |-> edge[k]]

Proposals ==
  (a :> {Input(AtoC)}) @@ (b :> {Input(Edge("causes", c, <<a, 1>>, "proposed", None))}) @@ (c :> {})

Budget(depth, nodes, calls, dir, past) ==
  [depth |-> depth, nodes |-> nodes, edges |-> 3, paths |-> 3, calls |-> calls, dir |-> dir,
   past |-> past, context |-> 8]

ReviewerSymmetry == Permutations(Reviewers)

SomeRequests ==
  <<[seeds |-> {<<a, 1>>}, policy |-> Budget(3, 3, 12, "out", FALSE)],
   [seeds |-> {<<b, 1>>, <<c, 1>>}, policy |-> Budget(2, 3, 8, "both", TRUE)],
   [seeds |-> {<<a, 2>>}, policy |-> Budget(1, 2, 9, "both", FALSE)]>>
=============================================================================
