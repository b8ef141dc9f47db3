------------------------ MODULE MCKnowledgeEvolution ------------------------
(* Instances of KnowledgeEvolution for TLC: two threads in two processes or  *)
(* in one, small sets of record ids, contexts and contents.                  *)
EXTENDS KnowledgeEvolution, TLC

CONSTANTS e1, e2, x1, x2, i1, i2, i3, i4, c1, c2, t1, t2, p1, p2

TwoProcs == (t1 :> p1) @@ (t2 :> p2)
OneProc == [t \in Threads |-> p1]

\* One spelling per entity; or e2 as e1 in upper case, or as e1 with blanks around
Spelled == [e \in Entities |-> e]
FoldedToOne == [e \in Entities |-> e1]

IdSymmetry == Permutations(Ids)
=============================================================================
