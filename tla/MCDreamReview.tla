---------------------------- MODULE MCDreamReview ----------------------------
(* Instances of DreamReview for TLC: a run proposes two candidates about one   *)
(* entity; the evidence of the second may leave its domain open.               *)
EXTENDS DreamReview, TLC

CONSTANTS r1, c1, c2, e, x1, x2, x3, d1

TwoOfOne == r1 :> <<c1, c2>>
SameEntity == [c \in Cands |-> e]
OwnContent == (c1 :> x1) @@ (c2 :> x2)
SecondLacksDomain == (c1 :> d1) @@ (c2 :> NoDomain)
RescueToD1 == [c \in Cands |-> d1]

ReviewerSymmetry == Permutations(Reviewers)
==============================================================================
