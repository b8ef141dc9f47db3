---------------------------- MODULE WorkingMemory ----------------------------
(* The bounded active context of one (scope, session, task)                   *)
(* (working_memory/): relevance, then salience, then dedupe, then budget.     *)
(* Operators only; RecallPath keeps the snapshot.  A candidate is a record    *)
(* [id, relevance, salience, tokens, key].                                    *)
EXTENDS Integers, SequencesExt

CONSTANTS MaxItems, MaxTokens, MaxItemTokens

ASSUME BudgetAssumption ==
  /\ MaxItems \in Nat \ {0}
  /\ MaxTokens \in Nat \ {0}
  /\ MaxItemTokens \in 1..MaxTokens

MinimumRelevance == 20

(* Higher relevance first, then higher salience, then the order of input:     *)
(* the ranks of the candidates of a sequence.                                 *)
Outranks(cands, i, j) ==
  \/ cands[i].relevance > cands[j].relevance
  \/ /\ cands[i].relevance = cands[j].relevance
     /\ \/ cands[i].salience > cands[j].salience
        \/ cands[i].salience = cands[j].salience /\ i < j

Ranked(cands) ==
  LET Before(i, j) == Outranks(cands, i, j)
      order == SortSeq([n \in DOMAIN cands |-> n], Before)
  IN [n \in DOMAIN order |-> cands[order[n]]]

Relevant(cands) ==
  LET Enough(c) == c.relevance >= MinimumRelevance
  IN SelectSeq(cands, Enough)

(* The first candidate of each dedupe key.                                    *)
Unique(cands) ==
  LET New(kept, c) == IF \E n \in DOMAIN kept : kept[n].key = c.key THEN kept
                      ELSE Append(kept, c)
  IN FoldLeft(New, <<>>, cands)

WithinItemBudget(cands) ==
  LET Clip(c) == [c EXCEPT !.tokens = IF @ < MaxItemTokens THEN @ ELSE MaxItemTokens]
      clipped == [n \in DOMAIN cands |-> Clip(cands[n])]
  IN SubSeq(clipped, 1, IF Len(clipped) < MaxItems THEN Len(clipped) ELSE MaxItems)

(* Taken in rank order; the text of an item is clipped to what is left.       *)
WithinBudget(cands) ==
  LET Take(acc, c) ==
        IF Len(acc.items) >= MaxItems \/ acc.left <= 0 THEN acc
        ELSE LET budget == IF MaxItemTokens < acc.left THEN MaxItemTokens ELSE acc.left
                 tokens == IF c.tokens < budget THEN c.tokens ELSE budget
             IN [items |-> Append(acc.items, [c EXCEPT !.tokens = tokens]),
                 left |-> acc.left - tokens]
  IN FoldLeft(Take, [items |-> <<>>, left |-> MaxTokens], cands).items

Select(cands) == WithinBudget(Unique(Ranked(Relevant(cands))))
=============================================================================
