-------------------------- MODULE MCDreamReasoning --------------------------
(* Two session episodes of different projects (the second may be missing, or arrive late),
   an older episode and two knowledge records on bucket edges, two topics, one of which
   reads some records only by association, and three claim texts, two of them alike. *)
EXTENDS DreamReasoning

MCTopics == <<"t1", "t2">>
MCHits == [q \in {"t1", "t2", "n", "m"} |->
  CASE q = "t1" -> <<"k1", "e3", "e1">> [] q = "t2" -> <<"e1">>
    [] q = "n" -> <<"k2", "e3">> [] q = "m" -> <<"k1", "k2">>]
MCRelevant == {<<"t1", r>> : r \in {"e1", "e2", "e3", "k1", "k2"}} \cup {<<"t2", "e1">>, <<"t2", "e3">>}
MCAssociations == [r \in {"e1", "e2", "e3", "k1", "k2"} |-> 
  IF r = "k1" THEN <<"n", "t2">> ELSE IF r = "k2" THEN <<"m">> ELSE <<>>]
MCRelated == [r \in {"e1", "e2", "e3", "k1", "k2"} |-> IF r = "k1" THEN <<"e3">> ELSE <<>>]
MCProject == [r \in {"e1", "e2", "e3", "k1", "k2"} |->
  IF r \in {"e2", "k2"} THEN "q" ELSE "p"]
MCVerification == [r \in {"e1", "e2", "e3", "k1", "k2"} |->
  IF r = "k2" THEN "weak" ELSE IF r = "e2" THEN "" ELSE "strong"]
MCMarkers == [r \in {"e1", "e2", "e3", "k1", "k2"} |-> IF r = "k2" THEN {"replacement"} ELSE IF r = "k1" THEN {"decision"} ELSE {}]
MCAges == <<365, 28, 7, 0>>
MCTime == [r \in {"e1", "e2", "e3", "k1", "k2"} |->
  CASE r = "e1" -> 400 [] r = "e2" -> 395 [] r = "e3" -> 393 [] r = "k1" -> 372 [] r = "k2" -> 372]
MCTokens == [t \in {"a", "b", "c", "d"} |->
  CASE t = "a" -> 1..8 [] t = "b" -> 1..7 [] t \in {"c", "d"} -> 1..3]
MCPool == << [text |-> "b", cites |-> <<1, 2>>, confidence |-> 40],
             [text |-> "a", cites |-> <<2, 1>>, confidence |-> 90],
             [text |-> "a", cites |-> <<1, 1, 1>>, confidence |-> 90],
             [text |-> "d", cites |-> <<2>>, confidence |-> 90],
             [text |-> "c", cites |-> <<>>, confidence |-> 90] >>
MCProtocols == <<1, 2>>
MCCooldown == <<1, 0>>
=============================================================================
