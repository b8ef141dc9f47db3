---------------------------- MODULE MCRecallPath -----------------------------
(* Instance of RecallPath: a new, an ageing and an old Knowledge record, an   *)
(* old episode still waiting for its dream, and a quarantined record.         *)
EXTENDS RecallPath

CONSTANTS r1, r2, r3, p1, x, t1, t2, d1, h

FactsOf ==
  LET F(kind, created, importance, topic, session) ==
        [kind |-> kind, created |-> created, class |-> "knowledge", keep |-> FALSE,
         importance |-> importance, cognition |-> "none", topic |-> topic, tokens |-> 2,
         domain |-> d1, entity |-> "e", session |-> session, source |-> "tool"]
  IN (r1 :> F("knowledge", 2, 85, t1, 1))
  @@ (r2 :> F("knowledge", 0, 20, t2, 1))
  @@ (r3 :> F("knowledge", 1, 20, t1, 1))
  @@ (p1 :> F("episode", 0, 20, t1, 2))
  @@ (x  :> [F("knowledge", 0, 20, t2, 1) EXCEPT !.class = "migration_quarantine"])

(* Two rows with an episode among them make a concept, three Knowledge rows   *)
(* without; topic t2 is a generic one.                                        *)
SmallPolicy ==
  [support |-> 2, knowledge |-> 3, mixed |-> 2, entities |-> 2, sessions |-> 2, generic |-> {t2}]

StoreAtStart ==
  [r \in Records |->
     [ordinary |-> r # x, lstate |-> IF r = x THEN "suppressed" ELSE "active", count |-> 0,
      last |-> NoTime, updated |-> FactsOf[r].created, pending |-> r = p1, status |-> "active"]]

TwoQueries ==
  LET Q(kind, a, b, c, d, terms) ==
        [kind |-> kind,
         score |-> (r1 :> a) @@ (r2 :> b) @@ (r3 :> c) @@ (p1 :> d) @@ (x :> 100),
         about |-> (t1 :> 40) @@ (t2 :> 0),
         overlap |-> [r \in Records |-> IF r \in {terms[n] : n \in DOMAIN terms} THEN 50 ELSE 0],
         terms |-> terms]
  IN <<Q("knowledge", 100, 80, 0, 0, <<r2, r3, x>>), Q("episode", 0, 0, 0, 80, <<>>)>>

OneHypothesis == <<[id |-> h, relevance |-> 30, tokens |-> 1]>>

ServerSymmetry == Permutations(Servers)
=============================================================================
