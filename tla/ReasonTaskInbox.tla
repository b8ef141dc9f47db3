--------------------------- MODULE ReasonTaskInbox ---------------------------
(***************************************************************************)
(* The Dream reasoning inbox (dreaming/reason_task_inbox.py), a SQLite     *)
(* table of bounded reasoning tasks, and the run that owns them            *)
(* (dreaming/run_reasoner.py): a run registers its tasks, waits for MCP    *)
(* consumers to claim and submit them, and completes by the fallback       *)
(* router what they left.                                                  *)
(*                                                                         *)
(* Every inbox operation is one BEGIN IMMEDIATE transaction, so one step.  *)
(* A run is identified by its request_id, a fresh uuid of every attempt.   *)
(* A consumer is known by the claim token alone: any token ever issued may *)
(* be submitted at any time and any number of times.  The rows carry wall  *)
(* clock times, the wait of a run is measured on the monotonic clock.      *)
(***************************************************************************)
EXTENDS Integers, Sequences, FiniteSets

CONSTANTS
  Runs, Tasks,
  TasksOf,      \* [Runs -> Seq(Tasks)], what build_tasks makes of each request
  Values,       \* results that pass validate_task_result
  NoValue,
  WaitTime,     \* dream_reason_wait_seconds
  LeaseTime,    \* lease_seconds of dream_reason_claim
  MaxTime, MaxClaims, MaxSteps, MaxPublish   \* bounds: clock, claims, clock steps, publishes

TaskSet(r) == {TasksOf[r][n] : n \in DOMAIN TasksOf[r]}

ASSUME ConstantsAssumption ==
  /\ TasksOf \in [Runs -> Seq(Tasks)]
  /\ \A r \in Runs : \A m, n \in DOMAIN TasksOf[r] : TasksOf[r][m] = TasksOf[r][n] => m = n
  /\ \A q, r \in Runs : q # r => TaskSet(q) \cap TaskSet(r) = {}
  /\ NoValue \notin Values
  /\ WaitTime \in Nat /\ LeaseTime \in Nat \ {0}
  /\ MaxTime \in Nat /\ MaxClaims \in Nat /\ MaxSteps \in Nat /\ MaxPublish \in Nat

VARIABLES
  wall, mono,   \* the two clocks
  steps,        \* wall clock corrections so far
  tasks,        \* dream_reason_tasks
  runs,         \* dream_reason_runs
  issued,       \* the task of every claim token, in the order of the claims
  acked,        \* submissions answered "completed"
  rpc, rloc,    \* program counter and locals of each run
  publishes

vars == <<wall, mono, steps, tasks, runs, issued, acked, rpc, rloc, publishes>>
clocks == <<wall, mono, steps>>

Statuses == {"none", "pending", "claimed", "completed", "fallback"}
Routes == {"none", "mcp", "fallback-router", "legacy"}
NoTask == [status |-> "none", token |-> 0, lease |-> 0, deadline |-> 0, created |-> 0,
           updated |-> 0, result |-> NoValue, route |-> "none"]
NoRun == [state |-> "none", deadline |-> 0, updated |-> 0, count |-> 0]

\* What a run keeps: the monotonic end of its wait, the task being resolved, the
\* result the fallback router returned for it, and the results resolved so far
NoLocals == [until |-> 0, at |-> 1, value |-> NoValue, used |-> <<>>]

RunStates == {"idle", "waiting", "resolve", "fallback", "store", "assembled", "failed", "lost"}
Terminal == {"assembled", "failed", "lost"}

Exists(t) == tasks[t].status # "none"
Existing(r) == {t \in TaskSet(r) : Exists(t)}
Current(r) == TasksOf[r][rloc[r].at]

(***************************************************************************)
(* The inbox.                                                              *)
(***************************************************************************)
\* Wrong variant: a task registered again starts over, completed or not
UpsertReset(row, deadline) ==
  [NoTask EXCEPT !.status = "pending", !.deadline = deadline, !.updated = wall, !.created = wall]

\* _upsert_task: a completed row keeps its result, any other becomes pending
UpsertTask(row, deadline) ==
  IF row.status = "completed" THEN [row EXCEPT !.deadline = deadline, !.updated = wall]
  ELSE [NoTask EXCEPT !.status = "pending", !.deadline = deadline, !.updated = wall,
                      !.created = IF row.status = "none" THEN wall ELSE row.created]

\* register_run, called by MCPFirstDreamReasoner.reason, which then starts to wait
RegisterRun(r) ==
  LET deadline == wall + WaitTime
  IN /\ rpc[r] = "idle"
     /\ deadline <= MaxTime /\ mono + WaitTime <= MaxTime
     /\ runs[r].state # "retired"
     /\ runs' = [runs EXCEPT ![r] = [state |-> "registered", deadline |-> deadline,
                                     updated |-> wall, count |-> Len(TasksOf[r])]]
     /\ tasks' = [t \in Tasks |-> IF t \in TaskSet(r) THEN UpsertTask(tasks[t], deadline)
                                  ELSE tasks[t]]
     /\ rpc' = [rpc EXCEPT ![r] = "waiting"]
     /\ rloc' = [rloc EXCEPT ![r].until = mono + WaitTime]
     /\ UNCHANGED <<clocks, issued, acked, publishes>>

\* Wrong variant: the tombstone of a retired run is not consulted
PublishAgain(r, t) ==
  /\ publishes < MaxPublish
  /\ publishes' = publishes + 1
  /\ wall + WaitTime <= MaxTime
  /\ tasks' = [tasks EXCEPT ![t] = UpsertTask(@, wall + WaitTime)]
  /\ UNCHANGED <<clocks, runs, issued, acked, rpc, rloc>>

\* publish: one task on its own, refused for a retired run
Publish(r, t) ==
  /\ publishes < MaxPublish
  /\ publishes' = publishes + 1
  /\ wall + WaitTime <= MaxTime
  /\ runs[r].state # "retired"
  /\ tasks' = [tasks EXCEPT ![t] = UpsertTask(@, wall + WaitTime)]
  /\ UNCHANGED <<clocks, runs, issued, acked, rpc, rloc>>

Claimable(t) ==
  /\ tasks[t].deadline > wall
  /\ \/ tasks[t].status = "pending"
     \/ tasks[t].status = "claimed" /\ tasks[t].lease <= wall

\* claim_next: the oldest claimable task gets a fresh token and a lease
ClaimNext(t) ==
  /\ Len(issued) < MaxClaims
  /\ Claimable(t)
  /\ \A u \in Tasks : Claimable(u) => tasks[t].created <= tasks[u].created
  /\ tasks' = [tasks EXCEPT ![t].status = "claimed", ![t].token = Len(issued) + 1,
                            ![t].lease = wall + LeaseTime, ![t].updated = wall]
  /\ issued' = Append(issued, t)
  /\ UNCHANGED <<clocks, runs, acked, rpc, rloc, publishes>>

Complete(t, v, route) ==
  tasks' = [tasks EXCEPT ![t].status = "completed", ![t].result = v,
                         ![t].route = route, ![t].updated = wall]

\* Wrong variant: the claim token is not compared
SubmitAnyToken(k, v) ==
  LET t == issued[k]
  IN /\ tasks[t].status = "claimed"
     /\ tasks[t].lease > wall /\ tasks[t].deadline > wall
     /\ Complete(t, v, "mcp")
     /\ acked' = acked \cup {[task |-> t, token |-> k, value |-> v]}
     /\ UNCHANGED <<clocks, runs, issued, rpc, rloc, publishes>>

\* submit with a valid result; every other submission raises and changes nothing
Submit(k, v) ==
  LET t == issued[k]
  IN /\ tasks[t].status = "claimed" /\ tasks[t].token = k
     /\ tasks[t].lease > wall /\ tasks[t].deadline > wall
     /\ Complete(t, v, "mcp")
     /\ acked' = acked \cup {[task |-> t, token |-> k, value |-> v]}
     /\ UNCHANGED <<clocks, runs, issued, rpc, rloc, publishes>>

\* Wrong variant: a status of its own
MarkFallbackFailed(t) ==
  /\ tasks[t].status \notin {"none", "completed"}
  /\ tasks' = [tasks EXCEPT ![t].status = "failed"]
  /\ UNCHANGED <<clocks, runs, issued, acked, rpc, rloc, publishes>>

\* mark_fallback, kept for the v0.1.1 router
MarkFallback(t) ==
  /\ tasks[t].status \notin {"none", "completed", "fallback"}
  /\ tasks' = [tasks EXCEPT ![t].status = "fallback", ![t].route = "legacy", ![t].updated = wall]
  /\ UNCHANGED <<clocks, runs, issued, acked, rpc, rloc, publishes>>

\* The conditions of retire_finalized_runs on the rows of a run
Retirable(r, before) ==
  /\ runs[r].state = "registered"
  /\ runs[r].deadline < before /\ runs[r].updated < before
  /\ Cardinality(Existing(r)) = runs[r].count
  /\ \A t \in Existing(r) : /\ tasks[t].updated < before /\ tasks[t].deadline < before
                            /\ tasks[t].lease <= wall

\* Wrong variant: tasks are deleted by age, whatever run they belong to
RetireByAge(r) ==
  /\ rpc[r] \in Terminal
  /\ \E before \in 0..wall :
       /\ Retirable(r, before)
       /\ tasks' = [t \in Tasks |-> IF tasks[t].deadline < before THEN NoTask ELSE tasks[t]]
  /\ runs' = [runs EXCEPT ![r].state = "retired", ![r].count = 0]
  /\ UNCHANGED <<clocks, issued, acked, rpc, rloc, publishes>>

\* retire_finalized_runs: the caller "must supply proven terminal run IDs"
RetireFinalizedRun(r) ==
  /\ rpc[r] \in Terminal
  /\ \E before \in 0..wall : Retirable(r, before)
  /\ tasks' = [t \in Tasks |-> IF t \in TaskSet(r) THEN NoTask ELSE tasks[t]]
  /\ runs' = [runs EXCEPT ![r].state = "retired", ![r].count = 0]
  /\ UNCHANGED <<clocks, issued, acked, rpc, rloc, publishes>>

(***************************************************************************)
(* The run: MCPFirstDreamReasoner.reason after register_run.               *)
(***************************************************************************)
AllCompleted(r) ==
  Existing(r) # {} /\ \A t \in Existing(r) : tasks[t].status = "completed"

\* Wrong variant: only completion ends the wait
WaitForAll(r) ==
  /\ rpc[r] = "waiting"
  /\ AllCompleted(r)
  /\ rpc' = [rpc EXCEPT ![r] = "resolve"]
  /\ UNCHANGED <<clocks, tasks, runs, issued, acked, rloc, publishes>>

\* The polling loop ends: no task, all completed, or the wait is over
WaitEnds(r) ==
  /\ rpc[r] = "waiting"
  /\ TasksOf[r] = <<>> \/ AllCompleted(r) \/ mono >= rloc[r].until
  /\ rpc' = [rpc EXCEPT ![r] = "resolve"]
  /\ UNCHANGED <<clocks, tasks, runs, issued, acked, rloc, publishes>>

Use(r, v) ==
  /\ rloc' = [rloc EXCEPT ![r].used = Append(@, v), ![r].at = @ + 1, ![r].value = NoValue]
  /\ rpc' = [rpc EXCEPT ![r] = "resolve"]

\* _resolve_task reads the row; a missing one raises "reason task disappeared"
ResolveTask(r) ==
  /\ rpc[r] = "resolve" /\ rloc[r].at <= Len(TasksOf[r])
  /\ IF tasks[Current(r)].status = "completed" THEN Use(r, tasks[Current(r)].result)
     ELSE /\ rpc' = [rpc EXCEPT ![r] = IF Exists(Current(r)) THEN "fallback" ELSE "lost"]
          /\ UNCHANGED rloc
  /\ UNCHANGED <<clocks, tasks, runs, issued, acked, publishes>>

\* The fallback router answers; the row is not locked meanwhile
FallbackAnswers(r) ==
  /\ rpc[r] = "fallback"
  /\ rpc' = [rpc EXCEPT ![r] = "store"]
  /\ \E v \in Values : rloc' = [rloc EXCEPT ![r].value = v]
  /\ UNCHANGED <<clocks, tasks, runs, issued, acked, publishes>>

\* Wrong variant: the fallback overwrites whatever completed meanwhile
CompleteOver(r) ==
  /\ rpc[r] = "store"
  /\ Exists(Current(r))
  /\ Complete(Current(r), rloc[r].value, "fallback-router")
  /\ Use(r, rloc[r].value)
  /\ UNCHANGED <<clocks, runs, issued, acked, publishes>>

\* complete_fallback: a task completed meanwhile keeps its result, which is used
CompleteFallback(r) ==
  /\ rpc[r] = "store"
  /\ LET row == tasks[Current(r)]
     IN \/ /\ row.status = "completed"
           /\ Use(r, row.result)
           /\ UNCHANGED tasks
        \/ /\ row.status \notin {"none", "completed"}
           /\ Complete(Current(r), rloc[r].value, "fallback-router")
           /\ Use(r, rloc[r].value)
        \/ /\ row.status = "none"
           /\ rpc' = [rpc EXCEPT ![r] = "lost"]
           /\ UNCHANGED <<tasks, rloc>>
  /\ UNCHANGED <<clocks, runs, issued, acked, publishes>>

\* assemble checks that there is exactly one result for every task
Assemble(r) ==
  /\ rpc[r] = "resolve" /\ rloc[r].at > Len(TasksOf[r])
  /\ rpc' = [rpc EXCEPT ![r] = "assembled"]
  /\ UNCHANGED <<clocks, tasks, runs, issued, acked, rloc, publishes>>

\* Every route of the fallback router failed, or the worker died: the tasks stay
RunFails(r) ==
  /\ rpc[r] \notin Terminal \cup {"idle"}
  /\ rpc' = [rpc EXCEPT ![r] = "failed"]
  /\ UNCHANGED <<clocks, tasks, runs, issued, acked, rloc, publishes>>

(***************************************************************************)
(* Time.                                                                   *)
(***************************************************************************)
Tick ==
  /\ mono < MaxTime
  /\ mono' = mono + 1
  /\ wall' = IF wall < MaxTime THEN wall + 1 ELSE wall
  /\ UNCHANGED <<steps, tasks, runs, issued, acked, rpc, rloc, publishes>>

\* The wall clock is set back
ClockStep ==
  /\ steps < MaxSteps /\ wall > 0
  /\ wall' = wall - 1
  /\ steps' = steps + 1
  /\ UNCHANGED <<mono, tasks, runs, issued, acked, rpc, rloc, publishes>>

Init ==
  /\ wall = 0 /\ mono = 0 /\ steps = 0 /\ publishes = 0
  /\ tasks = [t \in Tasks |-> NoTask]
  /\ runs = [r \in Runs |-> NoRun]
  /\ issued = <<>> /\ acked = {}
  /\ rpc = [r \in Runs |-> "idle"]
  /\ rloc = [r \in Runs |-> NoLocals]

RunStep(r) == \/ WaitEnds(r) \/ ResolveTask(r) \/ FallbackAnswers(r) \/ CompleteFallback(r)
              \/ Assemble(r)

Next ==
  \/ \E r \in Runs : RegisterRun(r) \/ RunStep(r) \/ RunFails(r) \/ RetireFinalizedRun(r)
  \/ \E r \in Runs : \E t \in TaskSet(r) : Publish(r, t)
  \/ \E t \in Tasks : ClaimNext(t) \/ MarkFallback(t)
  \/ \E k \in DOMAIN issued : \E v \in Values : Submit(k, v)
  \/ Tick \/ ClockStep

Spec == Init /\ [][Next]_vars

\* The thread of a run keeps running, time passes; no consumer has to come
Fairness == WF_vars(Tick) /\ \A r \in Runs : WF_vars(RunStep(r))
FairSpec == Spec /\ Fairness

(***************************************************************************)
(* Properties.                                                             *)
(***************************************************************************)
\* Rows and runners keep their types: in particular a task's status is one that
\* claim_next, submit and complete_fallback know how to handle.
TypeOK ==
  /\ wall \in 0..MaxTime /\ mono \in 0..MaxTime /\ steps \in 0..MaxSteps
  /\ tasks \in [Tasks -> [status: Statuses, token: Nat, lease: Nat, deadline: Nat,
                          created: Nat, updated: Nat, result: Values \cup {NoValue},
                          route: Routes]]
  /\ runs \in [Runs -> [state: {"none", "registered", "retired"}, deadline: Nat,
                        updated: Nat, count: Nat]]
  /\ issued \in Seq(Tasks)
  /\ acked \subseteq [task: Tasks, token: Nat, value: Values]
  /\ rpc \in [Runs -> RunStates]
  /\ rloc \in [Runs -> [until: Nat, at: Nat, value: Values \cup {NoValue},
                        used: Seq(Values)]]
  /\ publishes \in Nat

\* A submission that was acknowledged wins: it is what the inbox stores until
\* the run is retired, and what the run assembles, although the fallback router
\* may answer, the lease expire or the task be published again at any moment.
AckedWins ==
  \A r \in Runs : \A n \in DOMAIN TasksOf[r] : \A a \in acked :
    a.task = TasksOf[r][n] =>
      /\ runs[r].state # "retired" =>
           tasks[a.task].status = "completed" /\ tasks[a.task].result = a.value
      /\ n \in DOMAIN rloc[r].used => rloc[r].used[n] = a.value

\* The claim token fences: of all the claims of a task only the last one made can
\* be answered "completed", and only once.
LastClaimWins ==
  \A a \in acked :
    /\ \A k \in DOMAIN issued : issued[k] = a.task => k <= a.token
    /\ \A b \in acked : b.task = a.task => b = a

\* A run resolves every task to the result its row holds, whoever produced it,
\* so the audit trail and the assembled candidates agree.
UsedIsStored ==
  \A r \in Runs : runs[r].state # "retired" =>
    \A n \in DOMAIN rloc[r].used : rloc[r].used[n] = tasks[TasksOf[r][n]].result

\* A result once stored is never replaced by another one.
ResultIsFinal ==
  [][\A t \in Tasks : tasks[t].status = "completed" =>
       tasks'[t].status = "none" \/ tasks'[t].result = tasks[t].result]_vars

\* The tombstone of a retired run holds: none of its tasks comes back.
NoReplay == \A r \in Runs : runs[r].state = "retired" => Existing(r) = {}

\* No run finds that one of its tasks disappeared, whatever other runs are
\* retired while it waits.
NothingDisappears == \A r \in Runs : rpc[r] # "lost"

\* A registered run ends although no consumer ever claims or submits.
RunFinishes == \A r \in Runs : rpc[r] = "waiting" ~> rpc[r] \in Terminal

\* What a provider was told is stored: one answer for a task, its last claimant's.
AnswersKept == AckedWins /\ LastClaimWins

\* Rows, audit trail and runners agree about every task of a run.
InboxConsistent == TypeOK /\ UsedIsStored /\ NothingDisappears
==============================================================================
