--------------------------- MODULE MCDreamPipeline ---------------------------
(* Instances of DreamPipeline for TLC: episodes that may arrive at any time,  *)
(* all but one of the first session, and the one worker that is deployed.     *)
EXTENDS DreamPipeline, TLC

CONSTANTS s1, s2, e1, e2, e3, e4, e5, w1

\* Only e5 belongs to the second session
FirstSession == Episodes \ {e5}
SessionOfEpisode == [e \in Episodes |-> IF e = e5 THEN s2 ELSE s1]

EpisodeSymmetry == Permutations(FirstSession)
==============================================================================
