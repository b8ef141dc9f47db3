---------------------------- MODULE DreamReasoning ----------------------------
(***************************************************************************)
(* One Dream job's reasoning, attempt after attempt: the worker's engine   *)
(* (dreaming/engine.py) gathers the evidence bucket by bucket while others *)
(* change the store, the multipass reasoner (dreaming/orchestration.py)    *)
(* resolves its tasks by MCP results or by the fallback router, and the    *)
(* gate (dreaming/gate.py) decides on the assembled candidates.            *)
(*                                                                         *)
(* The fallback router (dreaming/fallback_router.py) is a process of its   *)
(* own.  Its handler is synchronous, so it serves one call at a time, and  *)
(* it goes on with a call whose client has given up.  The clock is the     *)
(* monotonic clock of the router; an attempt may take any number of ticks. *)
(***************************************************************************)
EXTENDS EvidenceGate, TLC

CONSTANTS
  Missing,     \* sets of session episodes that may not be stored yet
  Time,        \* [record -> its event_time or first updated_at]
  Later,       \* a time after every session: what a touched record is moved to
  Pool,        \* claims a reasoner may return: [text, cites, confidence], where cites
               \*   lists positions in the evidence of the task, in any order and repeated
  Pairs,       \* number of (route, model) pairs, in configured order
  Protocols,   \* [pair -> number of protocols of its route]
  Cooldown,    \* [pair -> failure_cooldown_seconds of its route]
  MaxAttempts, \* attempts of the job
  Moving,      \* bound: the records others change while a run gathers
  MaxTime, MaxCalls, MaxMoves, MaxClaims, MaxEvents
    \* bounds: clock, router calls, moves of the store, claims of a run, claims and faults

ASSUME DreamAssumption ==
  /\ Pairs \in Nat
  /\ Later \in Int /\ \A r \in Records : Time[r] \in Int /\ Time[r] < Later
  /\ Ages[Len(Ages)] = 0 /\ \A b \in 2..Len(Ages) : Ages[b] < Ages[b - 1]
  /\ Len(Pool) \in Nat /\ \A p \in 1..Len(Pool) : /\ Pool[p].confidence \in 0..100
                                                  /\ Pool[p].cites \in Seq(Nat \ {0})
  /\ \A p \in 1..Pairs : Protocols[p] \in Nat \ {0} /\ Cooldown[p] \in Nat
  /\ Missing \subseteq SUBSET Session /\ Moving \subseteq Records
  /\ MaxAttempts \in Nat \ {0} /\ MaxTime \in Nat \ {0} /\ MaxClaims \in Nat

VARIABLES
  store,       \* [record -> [live, time]]
  moved,       \* records changed since the attempt loaded its session
  pc, attempt,
  loaded,      \* the session's episodes, in event order
  topic, bucket,               \* where the gathering is
  level, queue,                \* depth of association of the recall under way, 0 for the
                               \*   topic's own, and the queries it still has to make
  part,                        \* what the first search of a recall returned
  direct, found,               \* the bucket's own items, and those association added
  seeds,                       \* those of its items whose relations are still to be read
  evidence,    \* [topic -> evidence], evidence_by_topic
  tasks,       \* what build_tasks made of it
  results,     \* claims of the tasks resolved so far
  verdict,     \* what the gate returned
  now, failedUntil,
  call,        \* the call the router serves
  backlog,     \* calls queued behind it whose clients are gone
  waiting,     \* the call of this attempt is queued behind them
  misses,      \* protocols that failed
  fails, calls, moves

gatherVars == <<topic, bucket, level, queue, part, direct, found, seeds>>
storeVars == <<store, moved, moves>>
runVars == <<loaded, topic, bucket, level, queue, part, direct, found, seeds, evidence, tasks,
             verdict>>
routerVars == <<failedUntil, call, backlog, waiting, misses, calls>>
vars == <<store, moved, pc, attempt, loaded, topic, bucket, level, queue, part, direct, found,
          seeds, evidence, tasks, results, verdict, now, failedUntil, call, backlog, waiting,
          misses, fails, calls, moves>>

NoCall == [busy |-> FALSE, start |-> 0, pair |-> 0, protocol |-> 0, client |-> FALSE]
NoVerdict == [cands |-> <<>>, decision |-> <<>>, leader |-> <<>>]

End == store[loaded[Len(loaded)]].time          \* session_end
Scope == StableProject(ToSet(loaded))
Limit == IF level = 0 THEN PerBucket ELSE PerQuery
Preparing == pc \in {"idle", "recall", "merge", "relate"}

\* The number of claims resolved
Claims(s) == FoldLeft(LAMBDA acc, r : acc + Len(r), 0, s)

\* The exception of an attempt ends it: what it gathered goes with it
Dropped ==
  /\ loaded' = <<>> /\ topic' = 1 /\ bucket' = 1
  /\ level' = 0 /\ queue' = <<>> /\ part' = {} /\ direct' = <<>> /\ found' = <<>> /\ seeds' = <<>>
  /\ evidence' = [t \in ToSet(Topics) |-> <<>>] /\ tasks' = <<>> /\ results' = <<>>
  /\ UNCHANGED verdict
Fail == pc' = "failed" /\ Dropped

(***************************************************************************)
(* prepare_request.                                                        *)
(***************************************************************************)
\* Session loading, the plan, and the session's own evidence on the first topic
Load ==
  LET usable == SetToSeq({e \in Session : store[e].live})
      sorted == [n \in DOMAIN usable |-> ByTime(Items(store, usable))[n].id]
  IN /\ pc = "idle" /\ usable # <<>>
     /\ pc' = "recall" /\ loaded' = sorted /\ moved' = {}
     /\ topic' = 1 /\ bucket' = 1 /\ queue' = <<Topics[1]>>
     /\ evidence' = [evidence EXCEPT ![Topics[1]] = SessionEvidence(store, sorted, Topics[1])]
     /\ UNCHANGED <<store, moves, attempt, level, part, direct, found, seeds, tasks, results,
                    verdict, now, fails>>
     /\ UNCHANGED routerVars

\* The session has no usable episode
LoadRaises ==
  /\ pc = "idle" /\ \A e \in Session : ~store[e].live
  /\ Fail
  /\ UNCHANGED <<attempt, now, fails>> /\ UNCHANGED storeVars /\ UNCHANGED routerVars

\* recall, its first search
SearchEpisodes ==
  /\ pc = "recall" /\ pc' = "merge"
  /\ part' = ToSet(Search(store, Episodes, Head(queue), bucket, End, Limit))
  /\ UNCHANGED <<attempt, loaded, topic, bucket, level, queue, direct, found, seeds, evidence,
                 tasks, results, verdict, now, fails>>
  /\ UNCHANGED storeVars /\ UNCHANGED routerVars

\* recall, its second search and the merge
Recalled ==
  Best(Head(queue), part, ToSet(Search(store, Knowledge, Head(queue), bucket, End, Limit)), Limit)

\* The next query; after the last one the relations of the bucket's own knowledge
Ask(depth, queries, own) ==
  IF queries = <<>>
  THEN /\ pc' = "relate" /\ level' = 0 /\ queue' = <<>>
       /\ seeds' = Picked(own, {n \in DOMAIN own : own[n] \in Knowledge})
  ELSE pc' = "recall" /\ level' = depth /\ queue' = queries /\ seeds' = <<>>

\* The direct recall of a bucket has returned
RecallBucket ==
  LET t == Topics[topic]
      own == OnTopic(t, InScope(Scope, Items(store, Recalled)))
  IN /\ pc = "merge" /\ level = 0
     /\ direct' = [n \in DOMAIN own |-> own[n].id] /\ part' = {}
     /\ evidence' = [evidence EXCEPT ![t] = @ \o own]
     /\ Ask(1, IF AssociationDepth = 0 THEN <<>> ELSE Queries(direct', {}), direct')
     /\ UNCHANGED <<attempt, loaded, topic, bucket, found, tasks, results, verdict, now, fails>>
     /\ UNCHANGED storeVars /\ UNCHANGED routerVars

\* A recall of the associative expansion has returned
ExpandBucket ==
  LET t == Topics[topic]
      new == Added(Recalled, ToSet(direct), found)
  IN /\ pc = "merge" /\ level > 0
     /\ found' = found \o new /\ part' = {}
     /\ evidence' = [evidence EXCEPT ![t] = @ \o OnTopic(t, InScope(Scope, Items(store, new)))]
     /\ IF Len(found') < TotalExpanded /\ Len(queue) > 1
        THEN Ask(level, Tail(queue), direct)
        ELSE IF Len(found') < TotalExpanded /\ level < AssociationDepth
        THEN Ask(level + 1, Queries(found', ToSet(Queries(direct, {}))), direct)
        ELSE Ask(level, <<>>, direct)
     /\ UNCHANGED <<attempt, loaded, topic, bucket, direct, tasks, results, verdict, now, fails>>
     /\ UNCHANGED storeVars /\ UNCHANGED routerVars

\* The relation recall of the seeds of one project
RelateGroup ==
  LET same == {n \in DOMAIN seeds : Project[seeds[n]] = Project[seeds[1]]}
      related == RelatedOf(store, Picked(seeds, same))
      items == [n \in DOMAIN related |-> [id |-> related[n], direct |-> FALSE,
                                         time |-> Time[related[n]]]]
  IN /\ pc = "relate" /\ seeds # <<>>
     /\ evidence' = [evidence EXCEPT ![Topics[topic]] = @ \o InScope(Scope, items)]
     /\ seeds' = Picked(seeds, DOMAIN seeds \ same)
     /\ UNCHANGED <<pc, attempt, loaded, topic, bucket, level, queue, part, direct, found, tasks,
                    results, verdict, now, fails>>
     /\ UNCHANGED storeVars /\ UNCHANGED routerVars

\* The bucket is done: the next one, the next topic, or the tasks
CloseBucket ==
  LET t == Topics[topic]
      lastBucket == bucket = Len(Ages)
      lastTopic == topic = Len(Topics)
  IN /\ pc = "relate" /\ seeds = <<>>
     /\ direct' = <<>> /\ found' = <<>>
     /\ bucket' = IF lastBucket THEN 1 ELSE bucket + 1
     /\ topic' = IF lastBucket /\ ~lastTopic THEN topic + 1 ELSE topic
     /\ queue' = IF lastBucket /\ lastTopic THEN <<>> ELSE <<Topics[topic']>>
     /\ evidence' = [u \in DOMAIN evidence |->
          IF u = t THEN IF lastBucket THEN Deduplicate(evidence[t]) ELSE evidence[t]
          ELSE IF lastBucket /\ ~lastTopic /\ u = Topics[topic + 1]
               THEN SessionEvidence(store, loaded, u)
          ELSE evidence[u]]
     /\ tasks' = IF lastBucket /\ lastTopic THEN BuildTasks(evidence') ELSE tasks
     /\ pc' = IF ~(lastBucket /\ lastTopic) THEN "recall"
              ELSE IF tasks' = <<>> THEN "assemble" ELSE "reason"
     /\ UNCHANGED <<attempt, loaded, level, part, seeds, results, verdict, now, fails>>
     /\ UNCHANGED storeVars /\ UNCHANGED routerVars

\* A read raises; the exception fails the job's attempt
PrepareFails ==
  /\ Preparing /\ fails + Claims(results) < MaxEvents
  /\ Fail /\ fails' = fails + 1
  /\ UNCHANGED <<attempt, now>> /\ UNCHANGED storeVars /\ UNCHANGED routerVars

(***************************************************************************)
(* Resolving the tasks.                                                    *)
(***************************************************************************)
\* Results that pass validate_task_result, as indices of the pool: a claim cites
\* evidence of its task only, or nothing at all
Answers ==
  {a \in UNION {[1..n -> 1..Len(Pool)] : n \in 0..2} :
     /\ \A k \in DOMAIN a :
          ToSet(Pool[a[k]].cites) \subseteq DOMAIN tasks[Len(results) + 1].ids
     /\ Len(a) = 2 => a[1] <= a[2]
     /\ Claims(results) + Len(a) <= MaxClaims
     /\ Claims(results) + Len(a) + fails <= MaxEvents}

Answered(answer) ==
  /\ results' = Append(results, answer)
  /\ pc' = IF Len(results) + 1 = Len(tasks) THEN "assemble" ELSE "reason"

\* _resolve_task when an MCP consumer completed the task in time
AnswerMcp ==
  /\ pc = "reason" /\ \E a \in Answers : Answered(a)
  /\ UNCHANGED <<attempt, now, fails>>
  /\ UNCHANGED storeVars /\ UNCHANGED runVars /\ UNCHANGED routerVars

\* _resolve_task when it did not: the fallback router is called
CallRouter ==
  /\ pc = "reason" /\ calls < MaxCalls
  /\ pc' = "waiting" /\ waiting' = TRUE /\ calls' = calls + 1
  /\ UNCHANGED <<attempt, results, now, fails, failedUntil, call, backlog, misses>>
  /\ UNCHANGED storeVars /\ UNCHANGED runVars

\* Wrong variant: the call goes on for a client that is gone
ClientTimeoutLinked ==
  /\ pc = "waiting" /\ fails + Claims(results) < MaxEvents
  /\ Fail /\ fails' = fails + 1
  /\ UNCHANGED <<attempt, now>> /\ UNCHANGED storeVars /\ UNCHANGED routerVars

\* The client's read timeout ends its wait, not the call, which stays where it is, served
\* or queued; the attempt fails
ClientTimeout ==
  /\ pc = "waiting" /\ fails + Claims(results) < MaxEvents
  /\ Fail /\ fails' = fails + 1
  /\ waiting' = FALSE /\ backlog' = backlog + IF waiting THEN 1 ELSE 0
  /\ call' = [call EXCEPT !.client = FALSE]
  /\ UNCHANGED <<attempt, now, failedUntil, misses, calls>> /\ UNCHANGED storeVars

(***************************************************************************)
(* The fallback router.                                                    *)
(***************************************************************************)
\* Wrong variant: a pair that failed is left out until a call succeeds
UsableStrict(until, start, from) == {p \in from..Pairs : until[p] = 0}

\* The pairs reason_task does not skip, from a position on, by the time of the call
Usable(until, start, from) == {p \in from..Pairs : until[p] <= start}

\* reason_task begins with the call queued first: the clock is read once, here
Serve ==
  LET open == Usable(failedUntil, now, 1)
      own == backlog = 0
  IN /\ waiting \/ backlog > 0
     /\ ~call.busy
     /\ IF own THEN waiting' = FALSE /\ UNCHANGED backlog
               ELSE backlog' = backlog - 1 /\ UNCHANGED waiting
     /\ IF open = {}
        THEN /\ call' = NoCall
             /\ IF own THEN Fail ELSE UNCHANGED <<pc, results>> /\ UNCHANGED runVars
        ELSE /\ call' = [busy |-> TRUE, start |-> now, pair |-> Min(open), protocol |-> 1,
                         client |-> own]
             /\ UNCHANGED <<pc, results>> /\ UNCHANGED runVars
     /\ UNCHANGED <<attempt, now, fails, misses, calls, failedUntil>> /\ UNCHANGED storeVars

\* A protocol of the model answers with a result that passes the validation
ModelAnswers ==
  /\ call.busy
  /\ IF call.client THEN \E a \in Answers : Answered(a) ELSE UNCHANGED <<pc, results>>
  /\ call' = NoCall
  /\ UNCHANGED <<attempt, now, fails, calls, failedUntil, backlog, waiting, misses>>
  /\ UNCHANGED storeVars /\ UNCHANGED runVars

\* Wrong variant: a failing model takes its neighbours out as well
CooldownAll(pair) == [p \in 1..Pairs |-> now + Cooldown[p]]

\* The pair that failed rests for its route's cooldown
CooldownPair(pair) == [failedUntil EXCEPT ![pair] = now + Cooldown[pair]]

\* A protocol fails, or returns what is not a valid result: the next protocol, the
\* next pair, or the end of the call
ModelFails ==
  LET tired == CooldownPair(call.pair)
      open == Usable(tired, call.start, call.pair + 1)
  IN /\ call.busy /\ fails + Claims(results) < MaxEvents
     /\ fails' = fails + 1 /\ misses' = misses + 1
     /\ IF call.protocol < Protocols[call.pair]
        THEN /\ call' = [call EXCEPT !.protocol = @ + 1]
             /\ UNCHANGED <<failedUntil, pc, results>> /\ UNCHANGED runVars
        ELSE /\ failedUntil' = tired
             /\ IF open # {}
                THEN /\ call' = [call EXCEPT !.pair = Min(open), !.protocol = 1]
                     /\ UNCHANGED <<pc, results>> /\ UNCHANGED runVars
                ELSE /\ call' = NoCall
                     /\ IF call.client THEN Fail
                        ELSE UNCHANGED <<pc, results>> /\ UNCHANGED runVars
     /\ UNCHANGED <<attempt, now, backlog, waiting, calls>> /\ UNCHANGED storeVars

(***************************************************************************)
(* Assembly and gate.                                                      *)
(***************************************************************************)
\* evidence_ids: any ids of the task, in the order the claim gives them
Cited(ids, cites) == [n \in DOMAIN cites |-> ids[cites[n]]]

\* _candidate_from_claim
Candidate(n, p) ==
  [text |-> Pool[p].text, kind |-> tasks[n].kind, topic |-> tasks[n].topic,
   ids |-> Cited(tasks[n].ids, Pool[p].cites), confidence |-> Pool[p].confidence]

\* The claims of every task in order
Claimed == FlattenSeq([n \in DOMAIN tasks |->
             [k \in DOMAIN results[n] |-> Candidate(n, results[n][k])]])

\* _validate_claim: a claim without evidence fails the whole run
Grounded(c) == c.ids # <<>>

\* assemble drops advice and what is not about the task's topic
Kept(cands) ==
  Picked(cands, {n \in DOMAIN cands : cands[n].text \notin Advice \cup Irrelevant})

\* assemble, then DreamEvidenceGate.evaluate
AssembleAndGate ==
  /\ pc = "assemble"
  /\ \A n \in DOMAIN Claimed : Grounded(Claimed[n])
  /\ verdict' = Gate(Kept(Claimed), EvidenceById(evidence))
  /\ pc' = "done"
  /\ UNCHANGED <<attempt, loaded, evidence, tasks, results, now, fails>>
  /\ UNCHANGED gatherVars /\ UNCHANGED storeVars /\ UNCHANGED routerVars

AssembleRaises ==
  /\ pc = "assemble"
  /\ \E n \in DOMAIN Claimed : ~Grounded(Claimed[n])
  /\ Fail
  /\ UNCHANGED <<attempt, now, fails>> /\ UNCHANGED storeVars /\ UNCHANGED routerVars

\* The queue hands the job out again: a new request, a new gathering
Retry ==
  /\ pc = "failed" /\ attempt < MaxAttempts
  /\ pc' = "idle" /\ attempt' = attempt + 1
  /\ UNCHANGED <<results, now, fails>>
  /\ UNCHANGED storeVars /\ UNCHANGED runVars /\ UNCHANGED routerVars

(***************************************************************************)
(* Everyone else.                                                          *)
(***************************************************************************)
\* A recall touches a knowledge record, which moves its updated_at
Touch(k) ==
  /\ store[k].live /\ store[k].time < Later
  /\ store' = [store EXCEPT ![k].time = Later]

\* A record is superseded or suppressed, or stored
Toggle(r) ==
  /\ r \in Knowledge => store[r].live
  /\ r \in Episodes => ~store[r].live
  /\ store' = [store EXCEPT ![r].live = ~@]

Move ==
  /\ Preparing /\ moves < MaxMoves /\ moves' = moves + 1
  /\ \E r \in Moving :
       /\ \/ r \in Knowledge /\ Touch(r)
          \/ Toggle(r)
       /\ moved' = moved \cup {r}
  /\ UNCHANGED <<pc, attempt, results, now, fails>>
  /\ UNCHANGED runVars /\ UNCHANGED routerVars

\* Time is followed while the router serves a call or a pair rests
Tick ==
  /\ call.busy \/ \E p \in 1..Pairs : failedUntil[p] > now
  /\ now < MaxTime /\ now' = now + 1
  /\ UNCHANGED <<pc, attempt, results, fails>>
  /\ UNCHANGED storeVars /\ UNCHANGED runVars /\ UNCHANGED routerVars

Init ==
  /\ store \in {[r \in Records |-> [live |-> r \notin S, time |-> Time[r]]] : S \in Missing}
  /\ moved = {} /\ moves = 0
  /\ pc = "idle" /\ attempt = 1
  /\ loaded = <<>> /\ topic = 1 /\ bucket = 1
  /\ level = 0 /\ queue = <<>> /\ part = {} /\ direct = <<>> /\ found = <<>> /\ seeds = <<>>
  /\ evidence = [t \in ToSet(Topics) |-> <<>>] /\ tasks = <<>> /\ results = <<>>
  /\ verdict = NoVerdict
  /\ now = 1 /\ failedUntil = [p \in 1..Pairs |-> 0]
  /\ call = NoCall /\ backlog = 0 /\ waiting = FALSE /\ misses = 0 /\ fails = 0 /\ calls = 0

Next ==
  \/ Load \/ LoadRaises \/ SearchEpisodes \/ RecallBucket \/ ExpandBucket \/ RelateGroup
  \/ CloseBucket \/ PrepareFails
  \/ AnswerMcp \/ CallRouter \/ ClientTimeout
  \/ Serve \/ ModelAnswers \/ ModelFails
  \/ AssembleAndGate \/ AssembleRaises \/ Retry
  \/ Move \/ Tick

Spec == Init /\ [][Next]_vars

(***************************************************************************)
(* Properties.                                                             *)
(***************************************************************************)
\* The states of the gathering, of the call and of the verdict fit each other:
\* what has been resolved belongs to the tasks, a served call has a usable pair and
\* the client of a call is an attempt that waits for it.
DreamTypeOK ==
  /\ DOMAIN store = Records /\ moved \subseteq Records
  /\ pc \in {"idle", "recall", "merge", "relate", "reason", "waiting", "assemble", "done", "failed"}
  /\ attempt \in 1..MaxAttempts /\ now \in 1..MaxTime
  /\ topic \in DOMAIN Topics /\ bucket \in DOMAIN Ages
  /\ level \in 0..AssociationDepth /\ Len(found) <= TotalExpanded
  /\ Len(results) <= Len(tasks) /\ Claims(results) <= MaxClaims
  /\ pc \in {"assemble", "done"} => Len(results) = Len(tasks)
  /\ call.busy => call.pair \in 1..Pairs /\ call.protocol \in 1..Protocols[call.pair]
  /\ call.client => call.busy /\ pc = "waiting"
  /\ \A p \in 1..Pairs : failedUntil[p] <= now + Cooldown[p]
  /\ \A n \in DOMAIN verdict.decision : verdict.decision[n] \in Decisions

Prepared == pc \in {"reason", "waiting", "assemble", "done"}
IdsOf(t) == {evidence[t][n].id : n \in DOMAIN evidence[t]}

\* What a run reasons about is its own: no id twice under a topic, nothing of another
\* project when the session has one, nothing later than the session unless a reviewed
\* relation leads to it, however the store moved meanwhile (prepare_request, engine.py).
EvidenceSound ==
  Prepared => \A t \in ToSet(Topics) :
    /\ Cardinality(IdsOf(t)) = Len(evidence[t])
    /\ \A n \in DOMAIN evidence[t] :
         /\ evidence[t][n].time <= End \/ \E r \in Records : evidence[t][n].id \in ToSet(Related[r])
         /\ evidence[t][n].direct \/ Scope = NoProject
            \/ Project[evidence[t][n].id] \in {NoProject, Scope}

\* No record falls between two buckets: one that was stored and still throughout the
\* gathering, belongs to the topic and the project, and is beaten by fewer records than a
\* bucket's limit, is in the evidence (planner.py buckets, retriever.py ranges).
EvidenceComplete ==
  Prepared => \A t \in ToSet(Topics), n \in 1..PerBucket :
    LET r == Hits[t][n]
    IN n \in DOMAIN Hits[t] /\ r \notin moved /\ store[r].live /\ store[r].time <= End
       /\ <<t, r>> \in Relevant
       /\ (Scope = NoProject \/ Project[r] \in {NoProject, Scope})
       => r \in IdsOf(t)

\* A pair has failed since, or it still rests
PassedOver(until, p, start) == until[p] >= start /\ (Cooldown[p] > 0 => until[p] > start)

\* The configured order is kept across calls and clients: the router turns to a pair, or
\* gives up on a client, only when every pair before it has failed since the call began, or
\* in an earlier call whose cooldown still ran; a pair without a cooldown is always tried
\* again (reason_task, fallback_router.py).  A client that gives up itself leaves its call
\* to be served.
PreferredRoute ==
  /\ call'.busy => \A p \in 1..(call'.pair - 1) : PassedOver(failedUntil', p, call'.start)
  /\ pc = "waiting" /\ pc' = "failed" /\ ~call'.busy /\ backlog' = backlog
       => \A p \in 1..Pairs : PassedOver(failedUntil', p, IF call.busy THEN call.start ELSE now)

\* A pair rests only because it failed itself: the pairs that have ever rested have no more
\* protocols than protocols have failed, so one provider's failure costs the others nothing.
RestIsEarned ==
  FoldSet(LAMBDA p, sum : sum + Protocols[p], 0, {p \in 1..Pairs : failedUntil[p] > 0}) <= misses

\* What the gate promotes stands on two different pieces of the request's evidence at
\* least, one of them with a verification, whatever ids a claim repeats and whatever
\* duplicates were merged into it (gate.py thresholds).
PromotedSupported ==
  pc = "done" => \A n \in DOMAIN verdict.decision :
    verdict.decision[n] = "promote" =>
      LET c == verdict.cands[n]
      IN /\ Cardinality(ToSet(c.ids)) >= 2
         /\ ToSet(c.ids) \subseteq IdsOf(c.topic)
         /\ \E r \in ToSet(c.ids) : Verification[r] # ""

\* What the merge of duplicates makes of the run's candidates is what it should be
\* (gate.py evaluate).
MergeExact == pc = "done" => MergedExactly(Kept(Claimed), EvidenceById(evidence), verdict)

\* The gathering takes all it should and nothing else.
EvidenceExact == EvidenceSound /\ EvidenceComplete

\* The verdict follows from the evidence, merged duplicates or not.
GateSound == DreamTypeOK /\ PromotedSupported /\ MergeExact

\* The router keeps to the configured order and lets only failed pairs rest.
RouterSound == [][PreferredRoute /\ RestIsEarned']_vars
=============================================================================
