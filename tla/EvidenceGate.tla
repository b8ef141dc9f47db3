---------------------------- MODULE EvidenceGate ----------------------------
(***************************************************************************)
(* DreamEvidenceGate (dreaming/gate.py): merges the duplicate candidates   *)
(* of a run and decides which are promoted, reviewed or rejected.          *)
(*                                                                         *)
(* A candidate is [text, kind, topic, ids, confidence]: its kind fixes the *)
(* entity type, classification and polarity (_candidate_from_claim), the   *)
(* topic is its semantic context.  Confidences are percentages and the     *)
(* weighted scores integers, scaled by 100000 times the number of ids.     *)
(***************************************************************************)
EXTENDS DreamEvidence

CONSTANTS Tokens,      \* [claim text -> the set of its tokens]
          Advice, Irrelevant   \* texts the assembly drops

Decisions == {"promote", "review", "reject"}

\* evidence_by_id: of an id in several topics the last one read stands
EvidenceById(evidence) ==
  LET all == FlattenSeq([n \in DOMAIN Topics |-> evidence[Topics[n]]])
      Latest(r) == CHOOSE n \in DOMAIN all :
                   all[n].id = r /\ \A m \in DOMAIN all : all[m].id = r => m <= n
  IN [r \in {all[n].id : n \in DOMAIN all} |-> all[Latest(r)]]

\* Tenant, user, agent, project and domain of an item: a session item has the project only
Partition(item) == <<item.direct, Project[item.id]>>

\* _candidate_fingerprint
Fingerprint(c, byId) ==
  <<c.text, c.kind, c.topic,
    {Partition(byId[r]) : r \in ToSet(c.ids) \cap DOMAIN byId}, ToSet(c.ids) \ DOMAIN byId>>

\* _near_duplicate_signature: the partitions are counted, not only collected
Signature(c, byId) ==
  LET parts == {Partition(byId[r]) : r \in ToSet(c.ids) \cap DOMAIN byId}
  IN <<c.kind, c.topic, ToSet(c.ids) \ DOMAIN byId,
       [p \in parts |-> Cardinality({n \in DOMAIN c.ids : c.ids[n] \in DOMAIN byId
                                                          /\ Partition(byId[c.ids[n]]) = p})]>>

\* _near_duplicate_index: both texts have 5 tokens and a Jaccard index of at least 0.72
NearDuplicate(c, d, byId) ==
  LET both == Tokens[c.text] \cap Tokens[d.text]
      any == Tokens[c.text] \cup Tokens[d.text]
  IN /\ Signature(c, byId) = Signature(d, byId)
     /\ Cardinality(Tokens[c.text]) >= 5 /\ Cardinality(Tokens[d.text]) >= 5
     /\ 100 * Cardinality(both) >= 72 * Cardinality(any)

\* Wrong variant: an id cited several times counts as several pieces of evidence
DistinctCited(ids) == Len(ids)

\* _evidence_strength and _promotion_confidence
Distinct(ids) == Cardinality(ToSet(ids))

Confidence(c, byId) ==
  LET m == Len(c.ids)
      Of(n) == IF byId[c.ids[n]].direct THEN "" ELSE Verification[c.ids[n]]
      strong == Cardinality({n \in 1..m : Of(n) = "strong"})
      verified == Cardinality({n \in 1..m : Of(n) # ""})
      types == Cardinality({(c.ids[n] \in Episodes) : n \in 1..m})
  IN 350 * c.confidence * m
     + 65 * (150 * Min({3, Distinct(c.ids)}) * m + 40 * (7 * strong + 3 * verified)
             + 75 * Min({2, types}) * m)

\* _evaluate_candidate
Evaluate(c, byId) ==
  LET m == Len(c.ids)
  IN IF \/ ~ ToSet(c.ids) \subseteq DOMAIN byId
        \/ m < 2
     THEN "reject"
     ELSE IF c.kind = "caveat" THEN "review"      \* classified context_dependent
     ELSE IF Confidence(c, byId) >= 78000 * m THEN "promote"
     ELSE IF Confidence(c, byId) >= 45000 * m THEN "review" ELSE "reject"

\* The candidate a later one is merged into: an equal one, else the first near duplicate
LeaderOf(cands, i, kept, byId) ==
  LET equal == {j \in kept : Fingerprint(cands[j], byId) = Fingerprint(cands[i], byId)}
      near == {j \in kept : NearDuplicate(cands[i], cands[j], byId)}
  IN IF equal # {} THEN Min(equal) ELSE IF near # {} THEN Min(near) ELSE i

\* Wrong variant: a duplicate adds nothing to the candidate it repeats
MergedNothing(c, d) == c

\* The first candidate with the evidence of both and the higher confidence
Merged(c, d) ==
  LET all == c.ids \o d.ids
  IN [c EXCEPT !.ids = Picked(all, {n \in DOMAIN all : \A k \in 1..(n - 1) : all[k] # all[n]}),
               !.confidence = Max({@, d.confidence})]

\* evaluate: the candidates the writeback gets, each with its decision and its leader
Gate(cands, byId) ==
  LET Step(acc, i) ==
        LET kept == {j \in DOMAIN acc.leader : acc.leader[j] = j}
            j == LeaderOf(cands, i, kept, byId)
            c == IF j = i THEN cands[i] ELSE Merged(acc.cands[j], cands[i])
            decided == Append(acc.decision,
                              IF j = i THEN Evaluate(c, byId) ELSE "reject")
        IN [cands |-> [acc.cands EXCEPT ![j] = c],
            decision |-> [decided EXCEPT ![j] = Evaluate(c, byId)],
            leader |-> Append(acc.leader, j)]
  IN FoldLeft(Step, [cands |-> cands, decision |-> <<>>, leader |-> <<>>],
              [n \in DOMAIN cands |-> n])

\* The merge loses nothing and keeps no duplicate: a candidate that leads others is written
\* with the evidence of all of them and the highest confidence, under the decision that
\* evidence earns; those it leads are rejected; no two leaders are equal (gate.py evaluate,
\* where the result handed to the writeback is changed in place).
MergedExactly(cands, byId, v) ==
  LET Led(j) == {n \in DOMAIN cands : v.leader[n] = j}
  IN \A j \in DOMAIN cands :
       IF v.leader[j] = j
       THEN /\ ToSet(v.cands[j].ids) = UNION {ToSet(cands[n].ids) : n \in Led(j)}
            /\ v.cands[j].confidence = Max({cands[n].confidence : n \in Led(j)})
            /\ v.decision[j] = Evaluate(v.cands[j], byId)
            /\ \A n \in DOMAIN cands \ {j} : v.leader[n] = n
                 => Fingerprint(cands[n], byId) # Fingerprint(cands[j], byId)
       ELSE v.decision[j] = "reject" /\ v.leader[v.leader[j]] = v.leader[j]
=============================================================================
