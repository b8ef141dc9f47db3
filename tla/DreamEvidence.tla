---------------------------- MODULE DreamEvidence ----------------------------
(***************************************************************************)
(* What a Dream run reads and the tasks it makes of it:                    *)
(* dreaming/planner.py (the temporal buckets), dreaming/retriever.py,      *)
(* dreaming/associative.py, the evidence side of dreaming/engine.py and    *)
(* MultipassDreamReasoner._build_tasks (dreaming/orchestration.py).        *)
(*                                                                         *)
(* A record is a name; what the code reads of it is given by the constant  *)
(* functions below.  Whether a record is stored and active, and the time a *)
(* bucket filters on, are state: store[r] = [live, time].  Every operator  *)
(* here stands for one read of it.                                         *)
(***************************************************************************)
EXTENDS Integers, Sequences, FiniteSets, SequencesExt

CONSTANTS
  Episodes, Knowledge,   \* points of the two collections
  Session,       \* the episodes that carry the session's id
  Topics,        \* sequence of focal topics
  Hits,          \* [query -> records over the score threshold, best score first]
  Relevant,      \* {<<topic, record>>}: what the TopicRelevanceGuard accepts
  Associations,  \* [record -> the entity_name and topic of its metadata, as queries]
  Related,       \* [record -> records the relation recall returns for it as a seed]
  Project, NoProject,
  Verification,  \* [record -> {"", "weak", "strong"}]
  Markers,       \* [record -> SUBSET {"replacement", "caveat", "decision", "validation"}]
  Ages,          \* how far back each bucket ends, oldest first; the last is 0
  PerBucket, PerQuery, TotalExpanded, AssociationDepth   \* the retrieval limits

Records == Episodes \cup Knowledge

\* Records, queries and limits are what the settings and the store make them
ASSUME EvidenceAssumption ==
  /\ Episodes \cap Knowledge = {} /\ Session \subseteq Episodes /\ IsFiniteSet(Session)
  /\ Topics \in Seq(DOMAIN Hits) /\ Topics # <<>>
  /\ \A q \in DOMAIN Hits : Hits[q] \in Seq(Records) /\ IsInjective(Hits[q])
  /\ \A r \in Records : Associations[r] \in Seq(DOMAIN Hits) /\ Related[r] \in Seq(Records)
  /\ Ages \in Seq(Nat) /\ Ages # <<>>
  /\ PerBucket \in Nat /\ PerQuery \in Nat \ {0} /\ TotalExpanded \in Nat \ {0}
  /\ AssociationDepth \in 0..2

\* The members of a list at some of its positions, in the order of the list
Picked(list, positions) ==
  FoldLeft(LAMBDA acc, n : IF n \in positions THEN Append(acc, list[n]) ELSE acc,
           <<>>, [n \in DOMAIN list |-> n])

\* Wrong variant: the end of a bucket is excluded as well
InBucketOpen(time, b, end) ==
  /\ time < end - Ages[b]
  /\ b > 1 => time > end - Ages[b - 1]

(***************************************************************************)
(* The plan and the searches.                                              *)
(***************************************************************************)
\* _build_buckets and _range: adjacent half-open intervals back from session_end
InBucket(time, b, end) ==
  /\ time <= end - Ages[b]
  /\ b > 1 => time > end - Ages[b - 1]

\* The first members of a list, up to a limit
Cut(list, limit) == SubSeq(list, 1, Min({limit, Len(list)}))

\* search: the best of one collection, knowledge only while it is active
Search(store, collection, query, b, end, limit) ==
  LET hits == Hits[query]
  IN Cut(Picked(hits, {n \in DOMAIN hits : /\ hits[n] \in collection /\ store[hits[n]].live
                                           /\ InBucket(store[hits[n]].time, b, end)}), limit)

\* recall: what the searches of the two collections returned, by score; no point is
\* in both, so its _deduplicate drops nothing
Best(query, episodes, knowledge, limit) ==
  LET hits == Hits[query]
  IN Cut(Picked(hits, {n \in DOMAIN hits : hits[n] \in episodes \cup knowledge}), limit)

\* _to_evidence; evidence of the session itself carries no metadata of its row
Item(store, r, direct) == [id |-> r, direct |-> direct, time |-> store[r].time]
Items(store, rs) == [n \in DOMAIN rs |-> Item(store, rs[n], FALSE)]

\* _stable_session_project
StableProject(episodes) ==
  LET named == {Project[e] : e \in episodes} \ {NoProject}
  IN IF Cardinality(named) = 1 THEN CHOOSE p \in named : TRUE ELSE NoProject

\* Wrong variant: evidence of any project is used
InScopeAny(project, items) == items

\* _filter_project_scope
InScope(project, items) ==
  Picked(items, {n \in DOMAIN items : \/ project = NoProject
                                      \/ Project[items[n].id] \in {NoProject, project}})

\* filter_evidence
OnTopic(topic, items) ==
  Picked(items, {n \in DOMAIN items : <<topic, items[n].id>> \in Relevant})

\* _session_evidence: the session's own episodes on the topic, in event order
SessionEvidence(store, loaded, topic) ==
  [n \in DOMAIN OnTopic(topic, Items(store, loaded)) |->
     [OnTopic(topic, Items(store, loaded))[n] EXCEPT !.direct = TRUE]]

\* _deduplicate: the first item of an id stands for it
Deduplicate(items) ==
  Picked(items, {n \in DOMAIN items : \A m \in 1..(n - 1) : items[m].id # items[n].id})

(***************************************************************************)
(* BoundedAssociativeRecall.expand.                                        *)
(***************************************************************************)
\* _association_queries: the queries of a frontier not asked before
Queries(frontier, asked) ==
  LET all == FlattenSeq([n \in DOMAIN frontier |-> Associations[frontier[n]]])
  IN Picked(all, {n \in DOMAIN all : /\ all[n] \notin asked
                                     /\ \A m \in 1..(n - 1) : all[m] # all[n]})

\* What a query adds to what was seen, until total_limit items are found
Added(recalled, seen, found) ==
  Cut(Picked(recalled, {n \in DOMAIN recalled : recalled[n] \notin seen \cup ToSet(found)}),
      TotalExpanded - Len(found))

\* What the relation recall (relations/dream.py) returns for a group of seeds
RelatedOf(store, seed) ==
  LET all == FlattenSeq([n \in DOMAIN seed |-> Related[seed[n]]])
  IN Picked(all, {n \in DOMAIN all : store[all[n]].live})

(***************************************************************************)
(* _build_tasks.  A task is its kind, its topic and its evidence.          *)
(***************************************************************************)
MaxEvidence == 4     \* MultipassPolicy
TaskCount == 2       \* current_task_count, lesson_task_count, caveat_task_count

Matching(items, marker) ==
  Picked(items, {n \in DOMAIN items : marker \in Markers[items[n].id]})
Front2(s, n) == SubSeq(s, n, Min({n + 1, Len(s)}))
Task(kind, topic, items) ==
  [kind |-> kind, topic |-> topic, ids |-> [n \in DOMAIN items |-> items[n].id]]

\* sorted(key=_evidence_sort_key): items of the same time keep their places
ByTime(items) ==
  LET Before(n) == {m \in DOMAIN items : \/ items[m].time < items[n].time
                                         \/ items[m].time = items[n].time /\ m < n}
      At(k) == CHOOSE n \in DOMAIN items : Cardinality(Before(n)) + 1 = k
  IN [k \in DOMAIN items |-> items[At(k)]]

TasksOfTopic(topic, items) ==
  LET ordered == ByTime(items)
      newest == Reverse(ordered)
      latest == SubSeq(newest, 1, Min({MaxEvidence, Len(newest)}))
      replaced == Matching(ordered, "replacement")
      caveats == Matching(ordered, "caveat")
      sources == Deduplicate(Matching(ordered, "decision") \o Matching(ordered, "validation")
                             \o latest)
      current == [n \in 1..Min({TaskCount, Len(latest)}) |->
                    Task("current_state", topic, Front2(latest, n))]
      superseded == IF replaced = <<>> THEN <<>>
                    ELSE <<Task("superseded_or_removed", topic,
                                SubSeq(replaced, 1, Min({MaxEvidence, Len(replaced)})))>>
      lessons == [n \in 1..Min({TaskCount, Len(sources) - 1}) |->
                    Task("durable_lesson", topic, Front2(sources, n))]
      warned == [n \in 1..Min({TaskCount, Len(caveats)}) |->
                   Task("caveat", topic, <<caveats[n]>>)]
  IN IF items = <<>> THEN <<>> ELSE current \o superseded \o lessons \o warned

\* build_tasks: the tasks of every focal topic, in order; the position is the task_id
BuildTasks(evidence) ==
  FlattenSeq([n \in DOMAIN Topics |-> TasksOfTopic(Topics[n], evidence[Topics[n]])])
=============================================================================
