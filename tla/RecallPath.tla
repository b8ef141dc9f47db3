----------------------------- MODULE RecallPath ------------------------------
(* Recall on several server processes over one store                          *)
(* (cognition/runtime_path.py, knowledge/search.py, memory/service.py,        *)
(* retrieval/, lifecycle/service.py, concepts/).  A call searches, chooses    *)
(* the active context, then counts the access of every selected row and       *)
(* decides on every row, each with storage calls of its own; other servers    *)
(* act between any two of them.                                               *)
EXTENDS MemoryLifecycle, WorkingMemory

CONSTANTS
  Servers, Records,
  Facts,          \* record -> [kind, created, class, keep, importance, cognition, tokens,
                  \*            topic, domain, entity, session, source]
  InitialStore,   \* the payloads at the start
  Queries,        \* query -> [kind, score: record -> percent or 0, overlap: record -> percent,
                  \*           about: topic -> percent, terms: Seq(record)]
  Modes,          \* retrieval modes tried: "vector", "literal", "hybrid"
  Hypotheses,     \* accepted self-model rows: a sequence of [id, relevance, tokens]
  Limit,          \* rows the caller asks for
  Prefetch,       \* prefetch_multiplier
  EvidenceLimit,  \* concept_evidence_limit
  Policy,         \* what a concept needs: [support, knowledge, mixed, entities, sessions, generic]
  StartTime, MaxTime, MaxCalls, MaxFaults  \* bounds of the model

ASSUME RecallAssumption ==
  /\ Limit \in Nat \ {0} /\ Prefetch \in Nat \ {0}
  /\ EvidenceLimit \in Nat \ {0}
  /\ Policy.support \in Nat \ {0, 1} /\ Policy.entities \in Nat \ {0} /\ Policy.sessions \in Nat \ {0}
  /\ Policy.knowledge \in Nat /\ Policy.knowledge >= Policy.support
  /\ Policy.mixed \in Nat /\ Policy.mixed >= Policy.support

VARIABLES
  store,    \* record -> payload: ordinary, lstate, count, last, updated, pending, status
  clock,
  call,     \* server -> the call it executes
  snapshot, \* server -> its working memory snapshot (process memory)
  bucket,   \* server -> ids of the concept evidence it remembers, oldest first
  answer,   \* server -> what its last call returned
  written,  \* record -> accesses the store took                          (history)
  raced,    \* records on which two accesses overlapped                   (history)
  calls, faults

vars == <<store, clock, call, snapshot, bucket, answer, written, raced, calls, faults>>

Idle       == [pc |-> "idle"]
NoAnswer   == [kind |-> "none"]
NoSnapshot == [revision |-> 0, live |-> FALSE]

Ids(cands) == {cands[n].id : n \in DOMAIN cands}
FirstN(n, s) == SubSeq(s, 1, IF Len(s) < n THEN Len(s) ELSE n)
Least(m, n) == IF m < n THEN m ELSE n

-----------------------------------------------------------------------------
(* Search over one collection.  Both filters ask for ordinary recall, the one *)
(* of Knowledge also for active status and record class knowledge.            *)
Matches(kind, r) ==
  /\ Facts[r].kind = kind /\ store[r].ordinary
  /\ kind = "knowledge" => store[r].status = "active" /\ Facts[r].class = "knowledge"

PrefetchLimit == Least(50, Limit * Prefetch)

CandidateLimit == Prefetch * PrefetchLimit

(* The repository returns the best hits over the score threshold, equal ones  *)
(* in any order.                                                              *)
VectorHits(q, limit) ==
  LET hits == {r \in Records : Matches(Queries[q].kind, r) /\ Queries[q].score[r] > 0}
      Before(a, b) == Queries[q].score[a] >= Queries[q].score[b]
  IN FirstN(limit, SortSeq(SetToSeq(hits), Before))

(* Rows of the corpus with a positive lexical score, best first.              *)
LexicalHits(q) == SelectSeq(Queries[q].terms, LAMBDA r : Matches("knowledge", r))

(* Reciprocal rank fusion with rank constant 60; ties by id, in some order.   *)
IdOrder == SetToSeq(Records)
RankOf(r, s) == CHOOSE n \in DOMAIN s : s[n] = r
RankShare(r, s) == IF r \in ToSet(s) THEN 100000000 \div (60 + RankOf(r, s)) ELSE 0
Fused(sem, lex) ==
  LET Score(r) == RankShare(r, sem) + RankShare(r, lex)
      Before(a, b) == \/ Score(a) > Score(b)
                      \/ Score(a) = Score(b) /\ RankOf(a, IdOrder) < RankOf(b, IdOrder)
  IN SortSeq(SetToSeq(ToSet(sem) \cup ToSet(lex)), Before)

(* The literal route: lexical hits first, semantic ones fill the rest.        *)
Distinct(s) == LET New(kept, r) == IF r \in ToSet(kept) THEN kept ELSE Append(kept, r)
               IN FoldLeft(New, <<>>, s)

Ordered(mode, sem, lex) ==
  FirstN(PrefetchLimit, IF mode = "hybrid" THEN Fused(sem, lex) ELSE Distinct(lex \o sem))

NotRevalidated(ids) == ids

(* The last read of a lexical search takes the rows from the store again.     *)
Revalidated(ids) == SelectSeq(ids, LAMBDA r : Matches("knowledge", r))

-----------------------------------------------------------------------------
(* One recall event over the rows found, in process memory.                   *)
TopicCount(rows, r) == Cardinality({x \in ToSet(rows) : Facts[x].topic = Facts[r].topic})

SalienceInput(rows, r) ==
  LET cognition == Facts[r].cognition
      value == [prediction_error |-> 100, contradiction |-> 100,
                unresolvedness |-> IF cognition = "prediction" THEN 100 ELSE 70,
                recurrence |-> Least(100, 20 * TopicCount(rows, r)),
                consequence |-> Facts[r].importance, user_emphasis |-> Facts[r].importance,
                recency |-> RecencySignal(clock - store[r].updated)]
      known == {"recurrence", "consequence", "user_emphasis", "recency"}
        \cup {k \in {"prediction_error", "contradiction"} : cognition = "contradicted"}
        \cup {k \in {"unresolvedness"} : cognition = "prediction" \/ store[r].pending}
  IN [k \in known |-> value[k]]

(* Semantic relevance is quantised to fifths; a lexical-only row has none.    *)
Relevance(q, sem, r) ==
  LET semantic == IF r \in ToSet(sem) THEN Queries[q].score[r] ELSE 40
      lexical  == Queries[q].overlap[r]
  IN IF semantic > lexical THEN semantic ELSE lexical

RememberAll(seen, rows) == Distinct(seen \o rows)

(* The evidence window moves a row seen again to its end and drops the oldest.*)
Remember(seen, rows) ==
  LET See(acc, r) ==
        LET next == Append(SelectSeq(acc, LAMBDA x : x # r), r)
        IN IF Len(next) > EvidenceLimit THEN Tail(next) ELSE next
  IN FoldLeft(See, seen, rows)

(* Evidence is grouped by domain and topic; a contradicted row is a           *)
(* counterexample, not support.                                               *)
Support(seen, c) ==
  {r \in ToSet(seen) : /\ Facts[r].topic = c.topic /\ Facts[r].domain = c.domain
                       /\ Facts[r].cognition # "contradicted"}

(* How many kinds, entities, sessions or sources support it.                  *)
Breadth(rows, field) == Cardinality({Facts[r][field] : r \in rows})

(* Knowledge alone needs more rows; an episode among them, several sessions.  *)
MeetsSupport(rows) ==
  LET kinds == {Facts[r].kind : r \in rows} n == Cardinality(rows) IN
  /\ n >= Policy.support
  /\ IF kinds = {"knowledge"} THEN n >= Policy.knowledge
     ELSE n >= Policy.mixed /\ Breadth(rows, "session") >= Policy.sessions

HasBreadth(rows) ==
  \/ Breadth(rows, "entity") >= Policy.entities
  \/ Breadth(rows, "session") >= 2 \/ Breadth(rows, "kind") >= 2

(* A topic that is not generic becomes a concept of its domain.               *)
Concepts(seen) ==
  {c \in {[domain |-> Facts[r].domain, topic |-> Facts[r].topic] : r \in ToSet(seen)} :
     /\ c.topic \notin Policy.generic
     /\ MeetsSupport(Support(seen, c)) /\ HasBreadth(Support(seen, c))}

Confidence(rows) ==
  (27 * Least(5, Cardinality(rows)) + 15 * Least(3, Breadth(rows, "session"))
   + 10 * Least(3, Breadth(rows, "source")) + 20 * Least(3, Breadth(rows, "entity"))
   + 15 * Least(2, Breadth(rows, "kind"))) \div 3

RawSlots == IF MaxItems > 3 THEN MaxItems - 2 ELSE 1

(* Rows compete for all slots but two; concepts and hypotheses follow.        *)
Candidates(q, sem, rows, seen) ==
  LET raw == Ranked([n \in DOMAIN rows |->
                [id |-> rows[n], relevance |-> Relevance(q, sem, rows[n]),
                 salience |-> SalienceScore(SalienceInput(rows, rows[n])),
                 tokens |-> Facts[rows[n]].tokens, key |-> rows[n]]])
      found == SetToSeq(Concepts(seen))
      Reference(c) ==
        LET about == Queries[q].about[c.topic] backing == Support(seen, c) IN
        [id |-> c, relevance |-> IF about > 25 THEN about ELSE 25,
         salience |-> SalienceScore([recurrence |-> Least(100, 20 * Cardinality(backing)),
                                     consequence |-> Confidence(backing)]),
         tokens |-> 1, key |-> c]
      concepts == [n \in DOMAIN found |-> Reference(found[n])]
      hypotheses == [n \in DOMAIN Hypotheses |->
                [id |-> Hypotheses[n].id, relevance |-> Hypotheses[n].relevance,
                 salience |-> SalienceScore([recurrence |-> 50, consequence |-> 70]),
                 tokens |-> Hypotheses[n].tokens, key |-> Hypotheses[n].id]]
  IN FirstN(RawSlots, raw) \o FirstN(8, concepts) \o FirstN(5, hypotheses)

PriorityOrder(rows) ==
  LET index == [n \in DOMAIN rows |-> n]
      score == [n \in DOMAIN rows |-> SalienceScore(SalienceInput(rows, rows[n]))]
      Before(i, j) == score[i] > score[j] \/ (score[i] = score[j] /\ i < j)
      order == SortSeq(index, Before)
  IN [n \in DOMAIN order |-> rows[order[n]]]

(* An expired snapshot counts for nothing: the revision starts again.         *)
Activated(previous) ==
  [revision |-> IF previous.live THEN previous.revision + 1 ELSE 1, live |-> TRUE]

(* Rows a search must not return at this moment.                              *)
Hidden == {r \in Records : ~store[r].ordinary \/ store[r].status # "active"}

(* process_recall up to the lifecycle loop; found nothing, it answers at once.*)
Process(s, q, sem, rows) ==
  /\ answer' = [answer EXCEPT ![s] = NoAnswer]
  /\ IF rows = <<>>
     THEN call' = [call EXCEPT ![s] = Idle] /\ UNCHANGED <<snapshot, bucket>>
     ELSE LET
           seen    == Remember(bucket[s], rows)
           offered == Candidates(q, sem, rows, seen)
           items   == Select(offered)
           salience == [r \in ToSet(rows) |-> SalienceScore(SalienceInput(rows, r))]
       IN /\ bucket' = [bucket EXCEPT ![s] = seen]
          /\ snapshot' = [snapshot EXCEPT ![s] = Activated(@)]
          /\ call' = [call EXCEPT ![s] =
               [pc |-> "rows", kind |-> "recall", found |-> rows, todo |-> rows,
                row |-> [r \in ToSet(rows) |-> store[r]], count |-> 0,
                selected |-> SelectSeq([n \in DOMAIN items |-> items[n].id], LAMBDA x : x \in ToSet(rows)),
                salience |-> salience, linked |-> {c.topic : c \in Concepts(seen)}, priority |-> PriorityOrder(rows),
                suppressed |-> {}, undone |-> {}, hidden |-> Hidden,
                offered |-> offered, items |-> items]]

-----------------------------------------------------------------------------
(* Actions of a server.                                                       *)
Free(s) == call[s].pc = "idle" /\ calls < MaxCalls

(* knowledge_search / memory_search by vector.                                *)
RecallVector(s, q) ==
  /\ Free(s) /\ "vector" \in Modes
  /\ calls' = calls + 1
  /\ LET hits == VectorHits(q, PrefetchLimit) IN Process(s, q, hits, hits)
  /\ UNCHANGED <<store, clock, written, raced, faults>>

(* With lexical ranking the search reads three times.                         *)
RecallLexical(s, q, mode) ==
  /\ Free(s)
  /\ mode \in Modes \ {"vector"} /\ Queries[q].kind = "knowledge"
  /\ calls' = calls + 1
  /\ call' = [call EXCEPT ![s] = [pc |-> "corpus", kind |-> "recall", q |-> q, mode |-> mode,
                                  sem |-> VectorHits(q, CandidateLimit)]]
  /\ answer' = [answer EXCEPT ![s] = NoAnswer]
  /\ UNCHANGED <<store, clock, snapshot, bucket, written, raced, faults>>

RankCorpus(s) ==
  /\ call[s].pc = "corpus"
  /\ call' = [call EXCEPT ![s] =
       [pc |-> "ranked", kind |-> "recall", q |-> @.q, sem |-> @.sem,
        ids |-> Ordered(@.mode, @.sem, FirstN(CandidateLimit, LexicalHits(@.q)))]]
  /\ UNCHANGED <<store, clock, snapshot, bucket, answer, written, raced, calls, faults>>

Revalidate(s) ==
  /\ call[s].pc = "ranked"
  /\ Process(s, call[s].q, call[s].sem, Revalidated(call[s].ids))
  /\ UNCHANGED <<store, clock, written, raced, calls, faults>>

EligibleAny(r) == TRUE

(* knowledge_get / memory_get: any record; only ordinary classes go on.       *)
Eligible(r) == Facts[r].class = "knowledge"

ExactRecall(s, r) ==
  /\ Free(s)
  /\ calls' = calls + 1
  /\ IF Eligible(r)
     THEN call' = [call EXCEPT ![s] =
               [pc |-> "rows", kind |-> "exact", found |-> <<r>>, todo |-> <<r>>,
                row |-> [x \in {r} |-> store[x]], count |-> 0, selected |-> <<r>>,
                salience |-> [x \in {r} |-> 100], linked |-> {}, priority |-> <<>>, suppressed |-> {},
                undone |-> {}, hidden |-> {}, offered |-> <<>>, items |-> <<>>]]
     ELSE UNCHANGED call
  /\ answer' = [answer EXCEPT ![s] = NoAnswer]
  /\ UNCHANGED <<store, clock, snapshot, bucket, written, raced, faults>>

ReadCountOfRow(s, r) == call[s].row[r].count

(* record_access, first half: retrieve.                                       *)
ReadCount(s, r) == store[r].count

AccessRead(s) ==
  /\ call[s].pc = "rows" /\ call[s].todo # <<>>
  /\ Head(call[s].todo) \in ToSet(call[s].selected)
  /\ call' = [call EXCEPT ![s].pc = "read", ![s].count = ReadCount(s, Head(call[s].todo))]
  /\ UNCHANGED <<store, clock, snapshot, bucket, answer, written, raced, calls, faults>>

(* ... second half: set_payload.                                              *)
AccessWrite(s) ==
  /\ call[s].pc = "read"
  /\ LET r == Head(call[s].todo)
         after == Accessed(store[r], call[s].count, clock)
     IN /\ store' = [store EXCEPT ![r] = after]
        /\ call' = [call EXCEPT ![s].pc = "counted",
                       ![s].row[r] = [@ EXCEPT !.count = after.count, !.last = after.last]]
        /\ written' = [written EXCEPT ![r] = @ + 1]
        /\ raced' = raced \cup {x \in {r} : \E t \in Servers \ {s} :
                                  call[t].pc = "read" /\ Head(call[t].todo) = r}
  /\ UNCHANGED <<clock, snapshot, bucket, answer, calls, faults>>

(* evaluate_payload on the row as the call knows it.                          *)
Signals(s, r) ==
  LET row == call[s].row[r] exact == call[s].kind = "exact"
  IN [lstate |-> row.lstate, keep |-> Facts[r].keep, age |-> clock - Facts[r].created,
      count |-> row.count, since |-> IF row.last = NoTime THEN NoTime ELSE clock - row.last,
      salience |-> call[s].salience[r], linked |-> Facts[r].topic \in call[s].linked,
      refuted |-> row.status = "superseded" \/ Facts[r].cognition = "contradicted",
      unresolved |-> ~exact /\ (row.pending \/ Facts[r].cognition = "prediction"),
      explicit |-> r \in ToSet(call[s].selected)]

(* Recall applies suppress and reactivate, the exact path reactivate only.    *)
Actuated(s, decision) ==
  decision \in (IF call[s].kind = "exact" THEN {"reactivate"} ELSE {"suppress", "reactivate"})

EvaluateRow(s) ==
  /\ \/ /\ call[s].pc = "rows" /\ call[s].todo # <<>>
        /\ Head(call[s].todo) \notin ToSet(call[s].selected)
     \/ call[s].pc = "counted"
  /\ LET r == Head(call[s].todo)
         decision == Evaluate(Signals(s, r))
         hides == {x \in {r} : decision = "suppress" /\ Actuated(s, decision)}
     IN /\ store' = IF Actuated(s, decision)
                    THEN [store EXCEPT ![r] = Applied(@, decision, clock)] ELSE store
        /\ call' = [t \in Servers |->
             IF t = s THEN [call[s] EXCEPT !.pc = "rows", !.todo = Tail(@), !.count = 0,
                              !.suppressed = @ \cup (hides \ ToSet(call[s].selected))]
             ELSE IF call[t].pc \in {"rows", "read", "counted"}
             THEN [call[t] EXCEPT !.undone = @ \cup hides] ELSE call[t]]
  /\ UNCHANGED <<clock, snapshot, bucket, answer, written, raced, calls, faults>>

(* Selected rows in the order of the context, then by salience, without the   *)
(* suppressed ones, cut to what was asked for.                                *)
Returned(c) ==
  FirstN(Limit, SelectSeq(Distinct(c.selected \o c.priority), LAMBDA r : r \notin c.suppressed))

Answer(s) ==
  /\ call[s].pc = "rows" /\ call[s].todo = <<>>
  /\ call' = [call EXCEPT ![s] = Idle]
  /\ answer' = [answer EXCEPT ![s] =
       IF call[s].kind = "exact" THEN NoAnswer
       ELSE [kind |-> "recall", rows |-> Returned(call[s]), selected |-> call[s].selected,
             found |-> call[s].found, suppressed |-> call[s].suppressed, hidden |-> call[s].hidden]]
  /\ UNCHANGED <<store, clock, snapshot, bucket, written, raced, calls, faults>>

(* A storage call raises; what was written before stays.                      *)
CallFails(s) ==
  /\ call[s].pc # "idle" /\ faults < MaxFaults
  /\ call' = [call EXCEPT ![s] = Idle]
  /\ answer' = [answer EXCEPT ![s] = NoAnswer]
  /\ faults' = faults + 1
  /\ UNCHANGED <<store, clock, snapshot, bucket, written, raced, calls>>

(* Process memory is gone after a restart.                                    *)
Restart(s) ==
  /\ faults < MaxFaults
  /\ call' = [call EXCEPT ![s] = Idle] /\ answer' = [answer EXCEPT ![s] = NoAnswer]
  /\ snapshot' = [snapshot EXCEPT ![s] = NoSnapshot] /\ bucket' = [bucket EXCEPT ![s] = <<>>]
  /\ faults' = faults + 1
  /\ UNCHANGED <<store, clock, written, raced, calls>>

(* Knowledge evolution and the dream worker change rows meanwhile.            *)
RecordMoves(r) ==
  /\ \/ /\ Facts[r].kind = "knowledge" /\ store[r].status = "active"
        /\ store' = [store EXCEPT ![r].status = "superseded"]
     \/ /\ store[r].pending /\ store' = [store EXCEPT ![r].pending = FALSE]
  /\ calls < MaxCalls /\ calls' = calls + 1
  /\ UNCHANGED <<clock, call, snapshot, bucket, answer, written, raced, faults>>

(* A quarter passes between calls: snapshots expire.                          *)
Tick ==
  /\ clock < MaxTime
  /\ \A s \in Servers : call[s] = Idle
  /\ clock' = clock + 1
  /\ snapshot' = [s \in Servers |-> [snapshot[s] EXCEPT !.live = FALSE]]
  /\ UNCHANGED <<store, call, bucket, answer, written, raced, calls, faults>>

Init ==
  /\ store = InitialStore /\ clock = StartTime
  /\ call = [s \in Servers |-> Idle] /\ answer = [s \in Servers |-> NoAnswer]
  /\ snapshot = [s \in Servers |-> NoSnapshot] /\ bucket = [s \in Servers |-> <<>>]
  /\ written = [r \in Records |-> 0] /\ raced = {}
  /\ calls = 0 /\ faults = 0

Next ==
  \/ \E s \in Servers, q \in DOMAIN Queries : RecallVector(s, q)
  \/ \E s \in Servers, q \in DOMAIN Queries, m \in Modes : RecallLexical(s, q, m)
  \/ \E s \in Servers, r \in Records : ExactRecall(s, r)
  \/ \E s \in Servers :
       \/ RankCorpus(s) \/ Revalidate(s) \/ AccessRead(s) \/ AccessWrite(s)
       \/ EvaluateRow(s) \/ Answer(s) \/ CallFails(s) \/ Restart(s)
  \/ \E r \in Records : RecordMoves(r)
  \/ Tick

Spec == Init /\ [][Next]_vars

-----------------------------------------------------------------------------
(* Properties.                                                                *)

Payloads == [ordinary : BOOLEAN, lstate : {"active", "suppressed"}, count : 0..MaxCalls,
             last : {NoTime} \cup 0..MaxTime, updated : 0..MaxTime, pending : BOOLEAN,
             status : {"active", "superseded"}]

(* Type correctness; the evidence window of a server stays within its limit.  *)
RecallTypeOK ==
  /\ store \in [Records -> Payloads]
  /\ clock \in StartTime..MaxTime
  /\ \A s \in Servers :
       /\ call[s].pc \in {"idle", "corpus", "ranked", "rows", "read", "counted"}
       /\ snapshot[s].revision \in 0..MaxCalls
       /\ Len(bucket[s]) <= EvidenceLimit
  /\ written \in [Records -> 0..MaxCalls] /\ raced \subseteq Records
  /\ calls \in 0..MaxCalls /\ faults \in 0..MaxFaults

(* record_access reads the count and writes it back: as long as no two        *)
(* accesses of a record overlapped, its count is the number of accesses       *)
(* written, whatever searches, decisions and failures came in between.        *)
AccessCounted ==
  \A r \in Records \ raced : store[r].count = InitialStore[r].count + written[r]

(* "explicit V2 non-recallable classes stay non-recallable": no chain of      *)
(* searches and exact fetches makes a self-model or quarantined record part   *)
(* of ordinary recall, or counts an access on it.                             *)
NonRecallableStays ==
  \A r \in Records : Facts[r].class # "knowledge" =>
     /\ store[r].ordinary = FALSE
     /\ store[r].lstate = InitialStore[r].lstate /\ written[r] = 0

(* An answer holds no row that was hidden (suppressed or superseded) when the *)
(* call last read its rows, none that the call itself suppressed, no row      *)
(* twice; context rows come first; it is short only when nothing else is left.*)
AnswerSound ==
  \A s \in Servers : answer[s].kind = "recall" =>
    LET a == answer[s] rows == ToSet(a.rows) IN
    /\ rows \cap (a.hidden \cup a.suppressed) = {}
    /\ Len(a.rows) = Cardinality(rows) /\ Len(a.rows) <= Limit
    /\ Len(a.rows) < Limit => ToSet(a.found) \ a.suppressed \subseteq rows
    /\ \A i, j \in DOMAIN a.rows :
         i < j /\ a.rows[j] \in ToSet(a.selected) => a.rows[i] \in ToSet(a.selected)

(* The active context of a call is within its budgets and respects the rank:  *)
(* what was left out although relevant is outranked by everything taken, and  *)
(* a slot or the token budget had run out.                                    *)
ContextSound ==
  \A s \in Servers : call[s].pc \in {"rows", "read", "counted"} /\ call[s].kind = "recall" =>
    LET offered == call[s].offered items == call[s].items
        Tokens(n) == items[n].tokens
        used == MapThenSumSet(Tokens, DOMAIN items)
        taken == Ids(items)
    IN /\ Len(items) <= MaxItems /\ used <= MaxTokens
       /\ \A i \in DOMAIN offered :
            offered[i].id \notin taken /\ offered[i].relevance >= MinimumRelevance =>
              /\ Len(items) = MaxItems \/ used = MaxTokens
              /\ \A j \in DOMAIN offered : offered[j].id \in taken =>
                   \/ offered[j].relevance > offered[i].relevance
                   \/ /\ offered[j].relevance = offered[i].relevance
                      /\ offered[j].salience >= offered[i].salience

(* "This protects useful touched records and may reactivate suppressed normal *)
(* records": when a call that selected or fetched a record ends, the record   *)
(* is in ordinary recall, unless another call suppressed it meanwhile on the  *)
(* row it had read.                                                           *)
TouchedIsRecallable ==
  [][\A s \in Servers :
       /\ call[s].pc = "rows" /\ call[s].todo = <<>>
       /\ call'[s].pc = "idle" /\ faults' = faults
       => \A r \in ToSet(call[s].selected) : store[r].ordinary \/ r \in call[s].undone]_vars

(* What a call returns and what it puts in its context is sound.              *)
RecallSound == AnswerSound /\ ContextSound

(* Touching records keeps their bookkeeping and their class: counts are true, *)
(* and what is not for recall stays out of it (lifecycle/service.py).         *)
AccessSound == RecallTypeOK /\ AccessCounted /\ NonRecallableStays
=============================================================================
