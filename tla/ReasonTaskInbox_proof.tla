------------------------ MODULE ReasonTaskInbox_proof ------------------------
(***************************************************************************)
(* Theorems about ReasonTaskInbox for every number of runs, tasks, claims, *)
(* consumers, publishes and clock corrections.                             *)
(***************************************************************************)
EXTENDS ReasonTaskInbox, SequenceTheorems, TLAPS

TaskRows == [status: Statuses, token: Nat, lease: Nat, deadline: Nat, created: Nat,
             updated: Nat, result: Values \cup {NoValue}, route: Routes]
RunRows == [state: {"none", "registered", "retired"}, deadline: Nat, updated: Nat, count: Nat]
RunLocals == [until: Nat, at: Nat, value: Values \cup {NoValue}, used: Seq(Values)]

\* A completed row has a result
Results == \A t \in Tasks : tasks[t].status = "completed" => tasks[t].result \in Values

\* A run works its tasks off one by one, and keeps the answer it is about to store
AtWork(r) ==
  /\ rloc[r].at = Len(rloc[r].used) + 1
  /\ rpc[r] \in {"fallback", "store"} => rloc[r].at <= Len(TasksOf[r])
  /\ rpc[r] = "store" => rloc[r].value \in Values

TInv == TypeOK /\ Results /\ \A r \in Runs : AtWork(r)

\* A retired run has ended, and none of its tasks is there
Tombstones == \A r \in Runs : runs[r].state = "retired" =>
  rpc[r] \in Terminal /\ \A t \in TaskSet(r) : ~Exists(t)

\* The tasks of a run that works are there
Present == \A r \in Runs : rpc[r] \notin Terminal \cup {"idle"} => \A t \in TaskSet(r) : Exists(t)

\* The token in a claimed row is the last one issued for the task
LastToken == \A t \in Tasks : tasks[t].status = "claimed" =>
  \A k \in DOMAIN issued : issued[k] = t => k <= tasks[t].token

\* What was acknowledged is in the row until the run is retired
Gone(t) == \E r \in Runs : t \in TaskSet(r) /\ runs[r].state = "retired"
AckedDone == \A a \in acked :
  \/ tasks[a.task].status = "completed" /\ tasks[a.task].result = a.value
  \/ Gone(a.task)

\* What a run used is in the row until the run is retired
UsedDone == \A r \in Runs : runs[r].state # "retired" => \A n \in DOMAIN rloc[r].used :
  /\ n \in DOMAIN TasksOf[r]
  /\ tasks[TasksOf[r][n]].status = "completed"
  /\ tasks[TasksOf[r][n]].result = rloc[r].used[n]

AckedUsed == \A r \in Runs : \A n \in DOMAIN TasksOf[r] : \A a \in acked :
  a.task = TasksOf[r][n] /\ n \in DOMAIN rloc[r].used => rloc[r].used[n] = a.value

(***************************************************************************)
(* Types.                                                                  *)
(***************************************************************************)
LEMMA DefaultTypes == NoTask \in TaskRows /\ NoRun \in RunRows /\ NoLocals \in RunLocals
BY DEF NoTask, NoRun, NoLocals, TaskRows, RunRows, RunLocals, Statuses, Routes

\* The tasks of a run are tasks; two runs share none.
LEMMA TasksOfRuns ==
  ASSUME NEW r \in Runs
  PROVE  /\ TasksOf[r] \in Seq(Tasks) /\ Len(TasksOf[r]) \in Nat
         /\ DOMAIN TasksOf[r] = 1..Len(TasksOf[r])
         /\ \A n \in DOMAIN TasksOf[r] : TasksOf[r][n] \in Tasks /\ TasksOf[r][n] \in TaskSet(r)
         /\ TaskSet(r) \subseteq Tasks
         /\ \A q \in Runs, t \in TaskSet(r) : t \in TaskSet(q) => q = r
<1>1. TasksOf[r] \in Seq(Tasks)
  BY ConstantsAssumption
<1>2. \A n \in DOMAIN TasksOf[r] : TasksOf[r][n] \in Tasks /\ TasksOf[r][n] \in TaskSet(r)
  BY <1>1 DEF TaskSet
<1>3. \A q \in Runs, t \in TaskSet(r) : t \in TaskSet(q) => q = r
  BY ConstantsAssumption
<1> QED BY <1>1, <1>2, <1>3 DEF TaskSet

\* _upsert_task gives a row that is pending or was completed before, and keeps a result.
LEMMA UpsertEffect ==
  ASSUME NEW row \in TaskRows, NEW deadline \in Nat, wall \in Nat
  PROVE  /\ UpsertTask(row, deadline) \in TaskRows
         /\ row.status = "completed" =>
              /\ UpsertTask(row, deadline).status = "completed"
              /\ UpsertTask(row, deadline).result = row.result
         /\ row.status # "completed" => UpsertTask(row, deadline).status = "pending"
<1>1. CASE row.status = "completed"
  BY <1>1 DEF UpsertTask, TaskRows
<1>2. CASE row.status # "completed"
  BY <1>2 DEF UpsertTask, TaskRows, NoTask, Statuses, Routes
<1> QED BY <1>1, <1>2

\* An empty inbox and runs that have not begun are well typed.
LEMMA TypeInit == Init => TInv
<1> SUFFICES ASSUME Init PROVE TInv
  OBVIOUS
<1>1. TypeOK
  BY DefaultTypes, ConstantsAssumption DEF Init, TypeOK, TaskRows, RunRows, RunLocals, RunStates
<1>2. Results /\ \A r \in Runs : AtWork(r)
  BY DEF Init, Results, AtWork, NoTask, NoLocals
<1> QED BY <1>1, <1>2 DEF TInv

\* A run appends a result to those it used.
LEMMA UseType ==
  ASSUME TInv, NEW r \in Runs, NEW v \in Values, Use(r, v),
         rpc[r] \in {"resolve", "store"}
  PROVE  /\ rpc' \in [Runs -> RunStates]
         /\ rloc' \in [Runs -> RunLocals]
         /\ \A q \in Runs : AtWork(q)'
         /\ rpc'[r] = "resolve" /\ \A q \in Runs \ {r} : rpc'[q] = rpc[q] /\ rloc'[q] = rloc[q]
         /\ rloc'[r].used = Append(rloc[r].used, v)
<1>1. rloc \in [Runs -> RunLocals] /\ rpc \in [Runs -> RunStates]
  BY DEF TInv, TypeOK, RunLocals
<1>2. rloc[r] \in RunLocals
  BY <1>1
<1> DEFINE p == rloc[r]
           u == Append(p.used, v)
           n == p.at + 1
           new == [p EXCEPT !.used = u, !.at = n, !.value = NoValue]
<1>3. p.used \in Seq(Values) /\ p.at \in Nat
  BY <1>2 DEF RunLocals
<1>4. u \in Seq(Values) /\ Len(u) = Len(p.used) + 1
  BY <1>3, AppendProperties
<1>5. new \in RunLocals /\ new.used = u /\ new.at = n
  <2>1. n \in Nat
    BY <1>3
  <2> HIDE DEF p, u, n
  <2>2. p \in RunLocals
    BY <1>2 DEF p
  <2> QED BY <1>4, <2>1, <2>2 DEF RunLocals
<1>6. rloc' = [rloc EXCEPT ![r] = new]
  BY <1>1 DEF Use
<1>7. p.at = Len(p.used) + 1
  BY DEF TInv, AtWork
<1> HIDE DEF new
<1>8. AtWork(r)'
  BY <1>1, <1>3, <1>4, <1>5, <1>6, <1>7 DEF Use, AtWork
<1>9. \A q \in Runs \ {r} : rpc'[q] = rpc[q] /\ rloc'[q] = rloc[q] /\ AtWork(q)'
  BY <1>1, <1>6 DEF Use, AtWork, TInv
<1>10. rpc' = [rpc EXCEPT ![r] = "resolve"] /\ "resolve" \in RunStates
  BY DEF Use, RunStates
<1> QED BY <1>1, <1>5, <1>6, <1>8, <1>9, <1>10

\* A completed task keeps the run typed.
LEMMA CompleteType ==
  ASSUME TInv, NEW t \in Tasks, NEW v \in Values, NEW route \in Routes, Complete(t, v, route)
  PROVE  /\ tasks' \in [Tasks -> TaskRows]
         /\ tasks'[t].status = "completed" /\ tasks'[t].result = v
         /\ \A u \in Tasks \ {t} : tasks'[u] = tasks[u]
<1>1. tasks \in [Tasks -> TaskRows] /\ wall \in Nat
  BY ConstantsAssumption DEF TInv, TypeOK, TaskRows
<1> DEFINE p == tasks[t]
           new == [p EXCEPT !.status = "completed", !.result = v, !.route = route, !.updated = wall]
<1>2. new \in TaskRows /\ new.status = "completed" /\ new.result = v
  <2>1. p \in TaskRows
    BY <1>1
  <2> HIDE DEF p
  <2> QED BY <1>1, <2>1 DEF TaskRows, Statuses
<1>3. tasks' = [tasks EXCEPT ![t] = new]
  BY <1>1 DEF Complete
<1> HIDE DEF new
<1> QED BY <1>1, <1>2, <1>3

\* No step of a run, a consumer, a publisher or the clocks leaves the types.
LEMMA TypeStep == TInv /\ [Next]_vars => TInv'
<1> SUFFICES ASSUME TInv, [Next]_vars PROVE TInv'
  OBVIOUS
<1>t. /\ tasks \in [Tasks -> TaskRows] /\ runs \in [Runs -> RunRows]
      /\ rpc \in [Runs -> RunStates] /\ rloc \in [Runs -> RunLocals]
      /\ wall \in Nat /\ mono \in Nat /\ steps \in Nat /\ publishes \in Nat
      /\ issued \in Seq(Tasks) /\ acked \subseteq [task: Tasks, token: Nat, value: Values]
  BY ConstantsAssumption DEF TInv, TypeOK, TaskRows, RunRows, RunLocals
\* steps that leave clocks, claims and answers alone
<1>k. ASSUME UNCHANGED <<clocks, issued, acked>>, publishes' \in Nat,
             tasks' \in [Tasks -> TaskRows], runs' \in [Runs -> RunRows],
             rpc' \in [Runs -> RunStates], rloc' \in [Runs -> RunLocals],
             \A t \in Tasks : tasks'[t].status = "completed" => tasks'[t].result \in Values,
             \A r \in Runs : AtWork(r)'
      PROVE  TInv'
  BY <1>k DEF TInv, TypeOK, Results, clocks, TaskRows, RunRows, RunLocals
<1>r. \A t \in Tasks : tasks[t].status = "completed" => tasks[t].result \in Values
  BY DEF TInv, Results
<1>a. \A r \in Runs : AtWork(r)
  BY DEF TInv
<1>1. ASSUME NEW r \in Runs, RegisterRun(r) PROVE TInv'
  <2> DEFINE deadline == wall + WaitTime
  <2>1. deadline \in Nat /\ mono + WaitTime \in Nat
    BY <1>t, ConstantsAssumption
  <2>2. tasks' = [t \in Tasks |-> IF t \in TaskSet(r) THEN UpsertTask(tasks[t], deadline)
                                  ELSE tasks[t]]
    BY <1>1 DEF RegisterRun
  <2>3. runs' = [runs EXCEPT ![r] = [state |-> "registered", deadline |-> deadline,
                                     updated |-> wall, count |-> Len(TasksOf[r])]]
    BY <1>1 DEF RegisterRun
  <2>4. rpc' = [rpc EXCEPT ![r] = "waiting"] /\ rpc[r] = "idle"
        /\ rloc' = [rloc EXCEPT ![r].until = mono + WaitTime]
        /\ UNCHANGED <<clocks, issued, acked, publishes>>
    BY <1>1 DEF RegisterRun
  <2> HIDE DEF deadline
  <2>5. \A t \in Tasks : /\ tasks'[t] \in TaskRows
                         /\ tasks'[t].status = "completed" => tasks'[t].result \in Values
    <3> TAKE t \in Tasks
    <3>1. tasks[t] \in TaskRows
      BY <1>t
    <3> QED BY <1>t, <1>r, <2>1, <2>2, <3>1, UpsertEffect
  <2>6. tasks' \in [Tasks -> TaskRows]
    BY <2>2, <2>5
  <2>7. runs' \in [Runs -> RunRows]
    BY <1>t, <2>1, <2>3, TasksOfRuns DEF RunRows
  <2>8. rpc' \in [Runs -> RunStates]
    BY <1>t, <2>4 DEF RunStates
  <2>9. rloc' \in [Runs -> RunLocals] /\ \A q \in Runs : rloc'[q].at = rloc[q].at /\
          rloc'[q].used = rloc[q].used /\ rloc'[q].value = rloc[q].value
    <3> DEFINE p == rloc[r]
               until == mono + WaitTime
               new == [p EXCEPT !.until = until]
    <3>1. rloc' = [rloc EXCEPT ![r] = new]
      BY <1>t, <2>4
    <3>2. p \in RunLocals /\ until \in Nat
      BY <1>t, <2>1
    <3> HIDE DEF until
    <3>3. new \in RunLocals /\ new.at = p.at /\ new.used = p.used /\ new.value = p.value
      <4> HIDE DEF p
      <4> QED BY <3>2 DEF RunLocals
    <3> HIDE DEF new
    <3> QED BY <1>t, <3>1, <3>3
  <2>10. \A q \in Runs : AtWork(q)'
    BY <1>t, <1>a, <2>4, <2>9 DEF AtWork
  <2> QED BY <1>k, <1>t, <2>4, <2>5, <2>6, <2>7, <2>8, <2>9, <2>10
<1>2. ASSUME NEW r \in Runs, NEW to \in RunStates \ {"fallback", "store"},
             rpc' = [rpc EXCEPT ![r] = to],
             UNCHANGED <<clocks, tasks, runs, issued, acked, rloc, publishes>>
      PROVE  TInv'
  <2>1. \A q \in Runs : AtWork(q)'
    BY <1>2, <1>t, <1>a DEF AtWork
  <2>2. rpc' \in [Runs -> RunStates]
    BY <1>2, <1>t
  <2> QED BY <1>2, <1>k, <1>t, <1>r, <2>1, <2>2
<1>3. ASSUME NEW r \in Runs, WaitEnds(r) PROVE TInv'
  BY <1>3, <1>2 DEF WaitEnds, RunStates
<1>4. ASSUME NEW r \in Runs, ResolveTask(r) PROVE TInv'
  <2>1. CASE tasks[Current(r)].status = "completed"
    <3>1. Current(r) \in Tasks
      BY <1>4, <1>t, <1>a, TasksOfRuns DEF ResolveTask, Current, AtWork, RunLocals
    <3>2. tasks[Current(r)].result \in Values
      BY <2>1, <3>1, <1>r
    <3>3. Use(r, tasks[Current(r)].result) /\ rpc[r] = "resolve"
          /\ UNCHANGED <<clocks, tasks, runs, issued, acked, publishes>>
      BY <2>1, <1>4 DEF ResolveTask
    <3> QED BY <3>2, <3>3, UseType, <1>k, <1>t, <1>r
  <2>2. CASE tasks[Current(r)].status # "completed"
    <3>1. /\ rpc' = [rpc EXCEPT ![r] = IF Exists(Current(r)) THEN "fallback" ELSE "lost"]
          /\ UNCHANGED <<clocks, tasks, runs, issued, acked, rloc, publishes>>
          /\ rloc[r].at <= Len(TasksOf[r])
      BY <2>2, <1>4 DEF ResolveTask
    <3>2. \A q \in Runs : AtWork(q)'
      BY <3>1, <1>t, <1>a DEF AtWork
    <3>3. rpc' \in [Runs -> RunStates]
      BY <3>1, <1>t DEF RunStates
    <3> QED BY <3>1, <3>2, <3>3, <1>k, <1>t, <1>r
  <2> QED BY <2>1, <2>2
<1>5. ASSUME NEW r \in Runs, FallbackAnswers(r) PROVE TInv'
  <2>1. PICK v \in Values : rloc' = [rloc EXCEPT ![r].value = v]
    BY <1>5 DEF FallbackAnswers
  <2>2. /\ rpc[r] = "fallback" /\ rpc' = [rpc EXCEPT ![r] = "store"]
        /\ UNCHANGED <<clocks, tasks, runs, issued, acked, publishes>>
    BY <1>5 DEF FallbackAnswers
  <2>3. rloc' \in [Runs -> RunLocals] /\ rloc'[r].value = v
        /\ \A q \in Runs : rloc'[q].at = rloc[q].at /\ rloc'[q].used = rloc[q].used
                           /\ (q # r => rloc'[q] = rloc[q])
    BY <1>t, <2>1 DEF RunLocals
  <2>4. \A q \in Runs : AtWork(q)'
    BY <1>t, <1>a, <2>2, <2>3 DEF AtWork
  <2>5. rpc' \in [Runs -> RunStates]
    BY <1>t, <2>2 DEF RunStates
  <2> QED BY <1>k, <1>t, <1>r, <2>2, <2>3, <2>4, <2>5
<1>6. ASSUME NEW r \in Runs, CompleteFallback(r) PROVE TInv'
  <2>0. /\ Current(r) \in Tasks /\ rloc[r].value \in Values /\ rpc[r] = "store"
        /\ UNCHANGED <<clocks, runs, issued, acked, publishes>>
    BY <1>6, <1>t, <1>a, TasksOfRuns DEF CompleteFallback, Current, AtWork, RunLocals
  <2>1. CASE tasks[Current(r)].status = "completed" /\ Use(r, tasks[Current(r)].result)
             /\ UNCHANGED tasks
    BY <2>0, <2>1, UseType, <1>k, <1>t, <1>r
  <2>2. CASE Complete(Current(r), rloc[r].value, "fallback-router") /\ Use(r, rloc[r].value)
    <3>1. "fallback-router" \in Routes
      BY DEF Routes
    <3>2. tasks' \in [Tasks -> TaskRows]
          /\ \A t \in Tasks : tasks'[t].status = "completed" => tasks'[t].result \in Values
      BY <2>0, <2>2, <3>1, CompleteType, <1>r
    <3> QED BY <2>0, <2>2, <3>2, UseType, <1>k, <1>t
  <2>3. CASE rpc' = [rpc EXCEPT ![r] = "lost"] /\ UNCHANGED <<tasks, rloc>>
    BY <2>0, <2>3, <1>2 DEF RunStates
  <2> QED BY <1>6, <2>1, <2>2, <2>3 DEF CompleteFallback
<1>7. ASSUME NEW r \in Runs, Assemble(r) PROVE TInv'
  BY <1>7, <1>2 DEF Assemble, RunStates
<1>8. ASSUME NEW r \in Runs, RunFails(r) PROVE TInv'
  BY <1>8, <1>2 DEF RunFails, RunStates
<1>9. ASSUME NEW r \in Runs, RetireFinalizedRun(r) PROVE TInv'
  <2>1. /\ tasks' = [t \in Tasks |-> IF t \in TaskSet(r) THEN NoTask ELSE tasks[t]]
        /\ runs' = [runs EXCEPT ![r].state = "retired", ![r].count = 0]
        /\ UNCHANGED <<clocks, issued, acked, rpc, rloc, publishes>>
    BY <1>9 DEF RetireFinalizedRun
  <2>2. tasks' \in [Tasks -> TaskRows]
        /\ \A t \in Tasks : tasks'[t].status = "completed" => tasks'[t].result \in Values
    <3>1. NoTask.status # "completed"
      BY DEF NoTask
    <3> QED BY <2>1, <3>1, <1>t, <1>r, DefaultTypes
  <2>3. runs' \in [Runs -> RunRows]
    BY <2>1, <1>t DEF RunRows
  <2>4. \A q \in Runs : AtWork(q)'
    BY <2>1, <1>a DEF AtWork
  <2> QED BY <1>k, <1>t, <2>1, <2>2, <2>3, <2>4
<1>10. ASSUME NEW r \in Runs, NEW t \in TaskSet(r), Publish(r, t) PROVE TInv'
  <2>1. /\ tasks' = [tasks EXCEPT ![t] = UpsertTask(tasks[t], wall + WaitTime)]
        /\ publishes' = publishes + 1
        /\ UNCHANGED <<clocks, runs, issued, acked, rpc, rloc>>
    BY <1>10 DEF Publish
  <2>2. t \in Tasks /\ wall + WaitTime \in Nat
    BY <1>t, TasksOfRuns, ConstantsAssumption
  <2>3. tasks' \in [Tasks -> TaskRows]
        /\ \A u \in Tasks : tasks'[u].status = "completed" => tasks'[u].result \in Values
    <3> DEFINE new == UpsertTask(tasks[t], wall + WaitTime)
    <3>1. new \in TaskRows /\ (new.status = "completed" => new.result \in Values)
      BY <1>t, <1>r, <2>2, UpsertEffect
    <3>2. tasks' = [tasks EXCEPT ![t] = new]
      BY <2>1
    <3> HIDE DEF new
    <3> QED BY <1>t, <1>r, <2>2, <3>1, <3>2
  <2>4. \A q \in Runs : AtWork(q)'
    BY <2>1, <1>a DEF AtWork
  <2> QED BY <1>k, <1>t, <2>1, <2>3, <2>4
<1>11. ASSUME NEW t \in Tasks, ClaimNext(t) PROVE TInv'
  <2>1. /\ tasks' = [tasks EXCEPT ![t].status = "claimed", ![t].token = Len(issued) + 1,
                                  ![t].lease = wall + LeaseTime, ![t].updated = wall]
        /\ issued' = Append(issued, t)
        /\ UNCHANGED <<clocks, runs, acked, rpc, rloc, publishes>>
    BY <1>11 DEF ClaimNext
  <2> DEFINE p == tasks[t]
             k == Len(issued) + 1
             l == wall + LeaseTime
             new == [p EXCEPT !.status = "claimed", !.token = k, !.lease = l, !.updated = wall]
  <2>2. p \in TaskRows /\ k \in Nat /\ l \in Nat
    BY <1>t, ConstantsAssumption
  <2>3. tasks' = [tasks EXCEPT ![t] = new]
    BY <2>1, <1>t
  <2> HIDE DEF p, k, l
  <2>4. new \in TaskRows /\ new.status = "claimed"
    BY <2>2, <1>t DEF TaskRows, Statuses
  <2> HIDE DEF new
  <2>5. tasks' \in [Tasks -> TaskRows]
        /\ \A u \in Tasks : tasks'[u].status = "completed" => tasks'[u].result \in Values
    BY <1>t, <1>r, <2>3, <2>4
  <2>6. issued' \in Seq(Tasks)
    BY <1>t, <2>1, AppendProperties
  <2>7. \A q \in Runs : AtWork(q)'
    BY <2>1, <1>a DEF AtWork
  <2> QED BY <1>t, <2>1, <2>5, <2>6, <2>7
        DEF TInv, TypeOK, Results, clocks, TaskRows, RunRows, RunLocals
<1>12. ASSUME NEW t \in Tasks, MarkFallback(t) PROVE TInv'
  <2>1. /\ tasks' = [tasks EXCEPT ![t].status = "fallback", ![t].route = "legacy", ![t].updated = wall]
        /\ UNCHANGED <<clocks, runs, issued, acked, rpc, rloc, publishes>>
    BY <1>12 DEF MarkFallback
  <2> DEFINE p == tasks[t]
             new == [p EXCEPT !.status = "fallback", !.route = "legacy", !.updated = wall]
  <2>2. new \in TaskRows /\ new.status = "fallback"
    <3>1. p \in TaskRows
      BY <1>t
    <3> HIDE DEF p
    <3> QED BY <3>1, <1>t DEF TaskRows, Statuses, Routes
  <2>3. tasks' = [tasks EXCEPT ![t] = new]
    BY <2>1, <1>t
  <2> HIDE DEF new
  <2>4. tasks' \in [Tasks -> TaskRows]
        /\ \A u \in Tasks : tasks'[u].status = "completed" => tasks'[u].result \in Values
    BY <1>t, <1>r, <2>2, <2>3
  <2>5. \A q \in Runs : AtWork(q)'
    BY <2>1, <1>a DEF AtWork
  <2> QED BY <1>k, <1>t, <2>1, <2>4, <2>5
<1>13. ASSUME NEW k \in DOMAIN issued, NEW v \in Values, Submit(k, v) PROVE TInv'
  <2>1. issued[k] \in Tasks /\ k \in Nat
    BY <1>t, LenProperties, ElementOfSeq
  <2>2. /\ Complete(issued[k], v, "mcp")
        /\ acked' = acked \cup {[task |-> issued[k], token |-> k, value |-> v]}
        /\ UNCHANGED <<clocks, runs, issued, rpc, rloc, publishes>>
    BY <1>13 DEF Submit
  <2>3. "mcp" \in Routes
    BY DEF Routes
  <2>4. tasks' \in [Tasks -> TaskRows]
        /\ \A u \in Tasks : tasks'[u].status = "completed" => tasks'[u].result \in Values
    BY <2>1, <2>2, <2>3, CompleteType, <1>r
  <2>5. acked' \subseteq [task: Tasks, token: Nat, value: Values]
    BY <1>t, <2>1, <2>2
  <2>6. \A q \in Runs : AtWork(q)'
    BY <2>2, <1>a DEF AtWork
  <2> QED BY <1>t, <2>2, <2>4, <2>5, <2>6
        DEF TInv, TypeOK, Results, clocks, TaskRows, RunRows, RunLocals
<1>14. ASSUME Tick \/ ClockStep PROVE TInv'
  <2>1. \A q \in Runs : AtWork(q)'
    BY <1>14, <1>a DEF Tick, ClockStep, AtWork
  <2>2. Results' /\ UNCHANGED <<tasks, runs, issued, acked, rpc, rloc, publishes>>
    BY <1>14, <1>r DEF Tick, ClockStep, Results
  <2>3. wall' \in 0..MaxTime /\ mono' \in 0..MaxTime /\ steps' \in 0..MaxSteps
    BY <1>14, ConstantsAssumption DEF Tick, ClockStep, TInv, TypeOK
  <2> QED BY <2>1, <2>2, <2>3 DEF TInv, TypeOK
<1>15. CASE UNCHANGED vars
  BY <1>15, <1>a DEF vars, TInv, TypeOK, Results, AtWork
<1> QED
  BY <1>1, <1>3, <1>4, <1>5, <1>6, <1>7, <1>8, <1>9, <1>10, <1>11, <1>12, <1>13, <1>14, <1>15
  DEF Next, RunStep

\* Every field of a row, a run, a run's locals and an answer has its type.
THEOREM InboxTypeCorrect == Spec => []TypeOK
<1>1. TInv => TypeOK
  BY DEF TInv
<1> QED BY <1>1, TypeInit, TypeStep, PTL DEF Spec

(***************************************************************************)
(* Safety.                                                                 *)
(***************************************************************************)
SInv == /\ NothingDisappears /\ Tombstones /\ Present /\ LastToken /\ AckedDone
        /\ UsedDone /\ AckedUsed /\ LastClaimWins

\* The conjuncts of SInv hold of an empty inbox.
LEMMA SafetyInit == Init => SInv
<1> SUFFICES ASSUME Init PROVE SInv
  OBVIOUS
<1>1. \A t \in Tasks : tasks[t].status = "none"
  BY DEF Init, NoTask
<1>2. \A r \in Runs : rpc[r] = "idle" /\ runs[r].state = "none" /\ rloc[r].used = <<>>
  BY DEF Init, NoRun, NoLocals
<1>3. acked = {} /\ issued = <<>>
  BY DEF Init
<1> QED BY <1>1, <1>2, <1>3 DEF SInv, NothingDisappears, Tombstones, Present, LastToken,
  AckedDone, UsedDone, AckedUsed, LastClaimWins, Terminal

\* A step that only deletes no row, keeps every completed one and issues, claims and
\* acknowledges nothing keeps what is known of runs that did not move.
RowsKept == \A t \in Tasks :
  /\ Exists(t) => tasks'[t].status # "none"
  /\ tasks[t].status = "completed" =>
       tasks'[t].status = "completed" /\ tasks'[t].result = tasks[t].result
  /\ tasks'[t].status = "claimed" => tasks[t].status = "claimed" /\ tasks'[t].token = tasks[t].token

\* Rows appear for tasks of runs that are not retired only
NoneRaised == \A r \in Runs : runs[r].state = "retired" =>
  \A t \in TaskSet(r) : tasks'[t].status = tasks[t].status

\* A step that keeps the rows in that sense keeps what is known of retired runs,
\* claims and acknowledged answers ...
LEMMA SafetyRows ==
  ASSUME TInv, SInv, RowsKept, NoneRaised, UNCHANGED <<issued, acked>>,
         \A r \in Runs : (runs'[r].state = "retired") <=> (runs[r].state = "retired"),
         \A r \in Runs : runs[r].state = "retired" => rpc'[r] = rpc[r]
  PROVE  Tombstones' /\ LastToken' /\ AckedDone' /\ LastClaimWins'
<1>0. acked \subseteq [task: Tasks, token: Nat, value: Values] /\ issued \in Seq(Tasks)
  BY DEF TInv, TypeOK
<1>1. Tombstones'
  BY TasksOfRuns DEF SInv, Tombstones, NoneRaised, Exists
<1>2. LastToken'
  BY DEF SInv, LastToken, RowsKept
<1>3. AckedDone'
  BY <1>0 DEF SInv, AckedDone, RowsKept, Gone
<1>4. LastClaimWins'
  BY DEF SInv, LastClaimWins
<1> QED BY <1>1, <1>2, <1>3, <1>4

\* ... and of runs that stay where they are
LEMMA SafetyRuns ==
  ASSUME TInv, SInv, RowsKept, UNCHANGED <<acked, rpc, rloc>>,
         \A r \in Runs : (runs'[r].state = "retired") <=> (runs[r].state = "retired")
  PROVE  NothingDisappears' /\ Present' /\ UsedDone' /\ AckedUsed'
<1>1. NothingDisappears'
  BY DEF SInv, NothingDisappears
<1>2. Present'
  BY TasksOfRuns DEF SInv, Present, RowsKept, Exists
<1>3. UsedDone'
  BY TasksOfRuns DEF SInv, UsedDone, RowsKept
<1>4. AckedUsed'
  BY DEF SInv, AckedUsed
<1> QED BY <1>1, <1>2, <1>3, <1>4

\* A run that uses the result its row holds keeps what is known of the used results.
LEMMA SafetyUse ==
  ASSUME TInv, SInv, TInv', RowsKept, UNCHANGED <<runs, acked>>,
         NEW r \in Runs, rpc[r] \in {"resolve", "store"}, rloc[r].at <= Len(TasksOf[r]),
         NEW v \in Values, Use(r, v),
         tasks'[Current(r)].status = "completed", tasks'[Current(r)].result = v,
         AckedDone'
  PROVE  NothingDisappears' /\ Present' /\ UsedDone' /\ AckedUsed'
<1>1. /\ rpc'[r] = "resolve" /\ rloc'[r].used = Append(rloc[r].used, v)
      /\ \A q \in Runs \ {r} : rpc'[q] = rpc[q] /\ rloc'[q] = rloc[q]
  BY UseType
<1>2. rloc[r].used \in Seq(Values) /\ rloc[r].at = Len(rloc[r].used) + 1
  BY DEF TInv, TypeOK, AtWork
<1>3. DOMAIN rloc'[r].used = 1..(Len(rloc[r].used) + 1)
      /\ rloc'[r].used[rloc[r].at] = v
      /\ \A n \in DOMAIN rloc[r].used : n # rloc[r].at /\ rloc'[r].used[n] = rloc[r].used[n]
  BY <1>1, <1>2, AppendProperties, LenProperties
<1>4. runs[r].state # "retired"
  BY DEF SInv, Tombstones, Terminal
<1>5. rloc[r].at \in DOMAIN TasksOf[r] /\ Current(r) \in TaskSet(r) /\ Current(r) \in Tasks
  BY <1>2, TasksOfRuns DEF Current
<1>6. NothingDisappears'
  BY <1>1 DEF SInv, NothingDisappears
<1>7. Present'
  BY <1>1, TasksOfRuns DEF SInv, Present, RowsKept, Exists, Terminal
<1>8. \A n \in DOMAIN rloc'[r].used : n = rloc[r].at \/ n \in DOMAIN rloc[r].used
  BY <1>2, <1>3, LenProperties
<1>9. UsedDone'
  <2> SUFFICES ASSUME NEW q \in Runs, runs[q].state # "retired", NEW n \in DOMAIN rloc'[q].used
               PROVE  /\ n \in DOMAIN TasksOf[q]
                      /\ tasks'[TasksOf[q][n]].status = "completed"
                      /\ tasks'[TasksOf[q][n]].result = rloc'[q].used[n]
    BY DEF UsedDone
  <2>1. CASE q # r \/ n \in DOMAIN rloc[r].used
    <3>1. n \in DOMAIN rloc[q].used /\ rloc'[q].used[n] = rloc[q].used[n]
      BY <1>1, <1>3, <2>1
    <3>2. /\ n \in DOMAIN TasksOf[q] /\ tasks[TasksOf[q][n]].status = "completed"
          /\ tasks[TasksOf[q][n]].result = rloc[q].used[n]
      BY <3>1 DEF SInv, UsedDone
    <3> QED BY <3>1, <3>2, TasksOfRuns DEF RowsKept
  <2>2. CASE q = r /\ n = rloc[r].at
    BY <1>3, <1>5, <2>2 DEF Current
  <2> QED BY <1>8, <2>1, <2>2
<1>10. AckedUsed'
  <2> SUFFICES ASSUME NEW q \in Runs, NEW n \in DOMAIN TasksOf[q], NEW a \in acked,
                      a.task = TasksOf[q][n], n \in DOMAIN rloc'[q].used
               PROVE  rloc'[q].used[n] = a.value
    BY DEF AckedUsed
  <2>1. CASE q # r \/ n \in DOMAIN rloc[r].used
    BY <1>1, <1>3, <2>1 DEF SInv, AckedUsed
  <2>2. CASE q = r /\ n = rloc[r].at
    <3>1. a.task = Current(r)
      BY <2>2 DEF Current
    <3>2. ~Gone(a.task)
      BY <1>4, <1>5, <3>1, TasksOfRuns DEF Gone
    <3>3. ~Gone(a.task)' /\ a \in acked'
      BY <3>2 DEF Gone
    <3>4. tasks'[a.task].result = a.value
      BY <3>3 DEF AckedDone
    <3> QED BY <1>3, <2>2, <3>1, <3>4
  <2> QED BY <1>8, <2>1, <2>2
<1> QED BY <1>6, <1>7, <1>9, <1>10

\* Every step keeps SInv.
LEMMA SafetyStep == TInv /\ SInv /\ [Next]_vars => SInv'
<1> SUFFICES ASSUME TInv, SInv, [Next]_vars PROVE SInv'
  OBVIOUS
<1>i. TInv'
  BY TypeStep
<1>t. /\ tasks \in [Tasks -> TaskRows] /\ runs \in [Runs -> RunRows]
      /\ rpc \in [Runs -> RunStates] /\ rloc \in [Runs -> RunLocals] /\ wall \in Nat
      /\ issued \in Seq(Tasks) /\ acked \subseteq [task: Tasks, token: Nat, value: Values]
  BY ConstantsAssumption DEF TInv, TypeOK, TaskRows, RunRows, RunLocals
<1>a. \A r \in Runs : AtWork(r)
  BY DEF TInv
\* steps on the rows alone
<1>k. ASSUME RowsKept, NoneRaised, UNCHANGED <<issued, acked, runs, rpc, rloc>> PROVE SInv'
  BY <1>k, SafetyRows, SafetyRuns DEF SInv
<1>s. ASSUME UNCHANGED tasks PROVE RowsKept /\ NoneRaised
  BY <1>s DEF RowsKept, NoneRaised, Exists
<1>1. ASSUME NEW r \in Runs, RegisterRun(r) PROVE SInv'
  <2> DEFINE deadline == wall + WaitTime
  <2>1. /\ tasks' = [t \in Tasks |-> IF t \in TaskSet(r) THEN UpsertTask(tasks[t], deadline)
                                     ELSE tasks[t]]
        /\ runs[r].state # "retired" /\ rpc[r] = "idle" /\ UNCHANGED <<issued, acked>>
        /\ deadline \in Nat
    BY <1>1, <1>t, ConstantsAssumption DEF RegisterRun
  <2>2. \A q \in Runs : (runs'[q].state = "retired") <=> (runs[q].state = "retired")
    BY <1>1, <1>t DEF RegisterRun
  <2>3. /\ rpc' = [rpc EXCEPT ![r] = "waiting"]
        /\ \A q \in Runs : rloc'[q].used = rloc[q].used
    BY <1>1, <1>t DEF RegisterRun, RunLocals
  <2> HIDE DEF deadline
  <2>4. RowsKept /\ \A t \in TaskSet(r) : tasks'[t].status # "none"
    <3> SUFFICES ASSUME NEW t \in Tasks
                 PROVE  /\ t \in TaskSet(r) => tasks'[t].status # "none"
                        /\ Exists(t) => tasks'[t].status # "none"
                        /\ tasks[t].status = "completed" =>
                             tasks'[t].status = "completed" /\ tasks'[t].result = tasks[t].result
                        /\ tasks'[t].status = "claimed" =>
                             tasks[t].status = "claimed" /\ tasks'[t].token = tasks[t].token
      BY TasksOfRuns DEF RowsKept
    <3>1. tasks[t] \in TaskRows
      BY <1>t
    <3> QED BY <1>t, <2>1, <3>1, UpsertEffect DEF Exists
  <2>5. NoneRaised
    BY <2>1, TasksOfRuns DEF NoneRaised
  <2>6. \A q \in Runs : runs[q].state = "retired" => rpc'[q] = rpc[q]
    BY <2>1, <2>3
  <2>7. Tombstones' /\ LastToken' /\ AckedDone' /\ LastClaimWins'
    BY <2>1, <2>2, <2>4, <2>5, <2>6, SafetyRows
  <2>8. NothingDisappears'
    BY <1>t, <2>3 DEF SInv, NothingDisappears
  <2>9. Present'
    BY <1>t, <2>3, <2>4, TasksOfRuns DEF SInv, Present, RowsKept, Exists
  <2>10. UsedDone'
    BY <2>2, <2>3, <2>4, TasksOfRuns DEF SInv, UsedDone, RowsKept
  <2>11. AckedUsed'
    BY <2>1, <2>3 DEF SInv, AckedUsed
  <2> QED BY <2>7, <2>8, <2>9, <2>10, <2>11 DEF SInv
\* a run moves on to work on its tasks, or ends
<1>2. ASSUME NEW r \in Runs, NEW to \in RunStates \ {"idle", "lost"},
             rpc' = [rpc EXCEPT ![r] = to], rpc[r] \notin Terminal \cup {"idle"},
             UNCHANGED <<tasks, runs, issued, acked>>,
             \A q \in Runs : rloc'[q].used = rloc[q].used
      PROVE  SInv'
  <2>1. \A q \in Runs : runs[q].state = "retired" => rpc'[q] = rpc[q]
    BY <1>2, <1>t DEF SInv, Tombstones
  <2>2. Tombstones' /\ LastToken' /\ AckedDone' /\ LastClaimWins'
    BY <1>2, <1>s, <2>1, SafetyRows
  <2>3. NothingDisappears' /\ Present'
    BY <1>2, <1>t DEF SInv, NothingDisappears, Present, Exists, Terminal
  <2>4. UsedDone' /\ AckedUsed'
    BY <1>2 DEF SInv, UsedDone, AckedUsed
  <2> QED BY <2>2, <2>3, <2>4 DEF SInv
<1>3. ASSUME NEW r \in Runs, WaitEnds(r) PROVE SInv'
  BY <1>3, <1>2 DEF WaitEnds, RunStates, Terminal
\* a run never finds its task gone
<1>p. ASSUME NEW r \in Runs, rpc[r] \in {"resolve", "store"}, rloc[r].at <= Len(TasksOf[r])
      PROVE  Exists(Current(r)) /\ Current(r) \in Tasks /\ Current(r) \in TaskSet(r)
  <2>1. rloc[r].at \in DOMAIN TasksOf[r]
    BY <1>p, <1>t, <1>a, TasksOfRuns DEF AtWork, RunLocals
  <2> QED BY <1>p, <2>1, TasksOfRuns DEF SInv, Present, Current, Terminal
<1>4. ASSUME NEW r \in Runs, ResolveTask(r) PROVE SInv'
  <2>0. rpc[r] = "resolve" /\ rloc[r].at <= Len(TasksOf[r])
        /\ UNCHANGED <<clocks, tasks, runs, issued, acked, publishes>>
    BY <1>4 DEF ResolveTask
  <2>1. CASE tasks[Current(r)].status = "completed"
    <3>1. Use(r, tasks[Current(r)].result) /\ tasks[Current(r)].result \in Values
      BY <1>4, <1>p, <2>0, <2>1 DEF ResolveTask, TInv, Results
    <3>2. \A q \in Runs : runs[q].state = "retired" => rpc'[q] = rpc[q]
      BY <2>0, <3>1, UseType DEF SInv, Tombstones, Terminal
    <3>3. Tombstones' /\ LastToken' /\ AckedDone' /\ LastClaimWins'
      BY <1>s, <2>0, <3>2, SafetyRows
    <3> QED BY <1>i, <1>s, <2>0, <2>1, <3>1, <3>3, SafetyUse DEF SInv
  <2>2. CASE tasks[Current(r)].status # "completed"
    <3>1. rpc' = [rpc EXCEPT ![r] = "fallback"] /\ UNCHANGED rloc
      BY <1>4, <1>p, <2>0, <2>2 DEF ResolveTask
    <3> QED BY <1>2, <2>0, <3>1 DEF RunStates, Terminal
  <2> QED BY <2>1, <2>2
<1>5. ASSUME NEW r \in Runs, FallbackAnswers(r) PROVE SInv'
  <2>1. \A q \in Runs : rloc'[q].used = rloc[q].used
    BY <1>5, <1>t DEF FallbackAnswers, RunLocals
  <2> QED BY <1>2, <1>5, <2>1 DEF FallbackAnswers, RunStates, Terminal
<1>6. ASSUME NEW r \in Runs, CompleteFallback(r) PROVE SInv'
  <2>0. /\ rpc[r] = "store" /\ rloc[r].at <= Len(TasksOf[r]) /\ rloc[r].value \in Values
        /\ UNCHANGED <<clocks, runs, issued, acked, publishes>>
    BY <1>6, <1>a DEF CompleteFallback, AtWork
  <2>p. Exists(Current(r)) /\ Current(r) \in Tasks /\ Current(r) \in TaskSet(r)
    BY <1>p, <2>0
  <2>n. runs[r].state # "retired"
    BY <2>0 DEF SInv, Tombstones, Terminal
  <2>1. CASE tasks[Current(r)].status = "completed"
    <3>1. Use(r, tasks[Current(r)].result) /\ UNCHANGED tasks /\ tasks[Current(r)].result \in Values
      BY <1>6, <2>1, <2>p DEF CompleteFallback, TInv, Results
    <3>2. \A q \in Runs : runs[q].state = "retired" => rpc'[q] = rpc[q]
      BY <2>0, <3>1, UseType DEF SInv, Tombstones, Terminal
    <3>3. Tombstones' /\ LastToken' /\ AckedDone' /\ LastClaimWins'
      BY <1>s, <2>0, <3>1, <3>2, SafetyRows
    <3> QED BY <1>i, <1>s, <2>0, <2>1, <3>1, <3>3, SafetyUse DEF SInv
  <2>2. CASE tasks[Current(r)].status # "completed"
    <3>1. Complete(Current(r), rloc[r].value, "fallback-router") /\ Use(r, rloc[r].value)
      BY <1>6, <2>2, <2>p DEF CompleteFallback, Exists
    <3>2. /\ tasks'[Current(r)].status = "completed" /\ tasks'[Current(r)].result = rloc[r].value
          /\ \A u \in Tasks \ {Current(r)} : tasks'[u] = tasks[u]
      BY <2>0, <2>p, <3>1, CompleteType DEF Routes
    <3>3. RowsKept
      BY <2>2, <3>2 DEF RowsKept, Exists
    <3>4. NoneRaised
      BY <2>n, <2>p, <3>2, TasksOfRuns DEF NoneRaised
    <3>5. \A q \in Runs : runs[q].state = "retired" => rpc'[q] = rpc[q]
      BY <2>0, <2>n, <3>1, UseType
    <3>6. Tombstones' /\ LastToken' /\ AckedDone' /\ LastClaimWins'
      BY <2>0, <3>3, <3>4, <3>5, SafetyRows
    <3> QED BY <1>i, <2>0, <3>1, <3>2, <3>3, <3>6, SafetyUse DEF SInv
  <2> QED BY <2>1, <2>2
<1>7. ASSUME NEW r \in Runs, Assemble(r) PROVE SInv'
  BY <1>7, <1>2 DEF Assemble, RunStates, Terminal
<1>8. ASSUME NEW r \in Runs, RunFails(r) PROVE SInv'
  BY <1>8, <1>2 DEF RunFails, RunStates, Terminal
<1>9. ASSUME NEW r \in Runs, RetireFinalizedRun(r) PROVE SInv'
  <2>1. /\ tasks' = [t \in Tasks |-> IF t \in TaskSet(r) THEN NoTask ELSE tasks[t]]
        /\ rpc[r] \in Terminal
        /\ UNCHANGED <<clocks, issued, acked, rpc, rloc, publishes>>
    BY <1>9 DEF RetireFinalizedRun
  <2>2. runs'[r].state = "retired" /\ \A q \in Runs \ {r} : runs'[q] = runs[q]
    BY <1>9, <1>t DEF RetireFinalizedRun, RunRows
  <2>3. /\ \A t \in TaskSet(r) : tasks'[t].status = "none"
        /\ \A t \in Tasks \ TaskSet(r) : tasks'[t] = tasks[t]
        /\ \A q \in Runs \ {r} : \A t \in TaskSet(q) : tasks'[t] = tasks[t]
    BY <2>1, TasksOfRuns DEF NoTask
  <2>4. Tombstones'
    BY <2>1, <2>2, <2>3 DEF SInv, Tombstones, Exists
  <2>5. NothingDisappears' /\ Present'
    BY <2>1, <2>3 DEF SInv, NothingDisappears, Present, Exists
  <2>6. LastToken' /\ LastClaimWins'
    BY <2>1, <2>3 DEF SInv, LastToken, LastClaimWins
  <2>7. AckedDone'
    BY <1>t, <2>1, <2>2, <2>3 DEF SInv, AckedDone, Gone
  <2>8. UsedDone'
    BY <2>1, <2>2, <2>3, TasksOfRuns DEF SInv, UsedDone
  <2>9. AckedUsed'
    BY <2>1 DEF SInv, AckedUsed
  <2> QED BY <2>4, <2>5, <2>6, <2>7, <2>8, <2>9 DEF SInv
<1>10. ASSUME NEW r \in Runs, NEW t \in TaskSet(r), Publish(r, t) PROVE SInv'
  <2> DEFINE new == UpsertTask(tasks[t], wall + WaitTime)
  <2>1. /\ tasks' = [tasks EXCEPT ![t] = new] /\ runs[r].state # "retired"
        /\ UNCHANGED <<clocks, runs, issued, acked, rpc, rloc>>
    BY <1>10 DEF Publish
  <2>2. t \in Tasks /\ wall + WaitTime \in Nat /\ tasks[t] \in TaskRows
    BY <1>t, TasksOfRuns, ConstantsAssumption
  <2>3. /\ tasks[t].status = "completed" => new.status = "completed" /\ new.result = tasks[t].result
        /\ tasks[t].status # "completed" => new.status = "pending"
    BY <1>t, <2>2, UpsertEffect
  <2> HIDE DEF new
  <2>4. tasks'[t] = new /\ \A u \in Tasks \ {t} : tasks'[u] = tasks[u]
    BY <1>t, <2>1, <2>2
  <2>5. RowsKept
    BY <2>3, <2>4 DEF RowsKept, Exists
  <2>6. NoneRaised
    BY <2>1, <2>4, TasksOfRuns DEF NoneRaised
  <2> QED BY <1>k, <2>1, <2>5, <2>6
<1>11. ASSUME NEW t \in Tasks, ClaimNext(t) PROVE SInv'
  <2>1. /\ tasks[t].status \in {"pending", "claimed"}
        /\ issued' = Append(issued, t) /\ UNCHANGED <<clocks, runs, acked, rpc, rloc, publishes>>
    BY <1>11 DEF ClaimNext, Claimable
  <2>2. /\ tasks'[t].status = "claimed" /\ tasks'[t].token = Len(issued) + 1
        /\ \A u \in Tasks \ {t} : tasks'[u] = tasks[u]
    BY <1>11, <1>t DEF ClaimNext, TaskRows
  <2>3. /\ Len(issued) \in Nat /\ DOMAIN issued = 1..Len(issued)
        /\ DOMAIN issued' = 1..(Len(issued) + 1) /\ issued'[Len(issued) + 1] = t
        /\ \A k \in 1..Len(issued) : issued'[k] = issued[k]
    BY <1>t, <2>1, AppendProperties, LenProperties
  <2>4. ASSUME NEW r \in Runs, runs[r].state = "retired" PROVE t \notin TaskSet(r)
    BY <2>1, <2>4 DEF SInv, Tombstones, Exists
  <2>5. ASSUME NEW a \in acked PROVE a.task # t /\ a.task \in Tasks
    BY <1>t, <2>1, <2>4, <2>5 DEF SInv, AckedDone, Gone
  <2>6. Tombstones'
    BY <2>1, <2>2, <2>4, TasksOfRuns DEF SInv, Tombstones, Exists
  <2>7. NothingDisappears' /\ Present'
    BY <2>1, <2>2, TasksOfRuns DEF SInv, NothingDisappears, Present, Exists
  <2>8. LastToken'
    <3> SUFFICES ASSUME NEW u \in Tasks, tasks'[u].status = "claimed", NEW k \in DOMAIN issued',
                        issued'[k] = u
                 PROVE  k <= tasks'[u].token
      BY DEF LastToken
    <3>1. CASE u = t
      BY <2>2, <2>3, <3>1
    <3>2. CASE u # t
      BY <2>2, <2>3, <3>2 DEF SInv, LastToken
    <3> QED BY <3>1, <3>2
  <2>9. AckedDone'
    BY <2>1, <2>2, <2>5 DEF SInv, AckedDone, Gone
  <2>10. UsedDone' /\ AckedUsed'
    BY <2>1, <2>2, TasksOfRuns DEF SInv, UsedDone, AckedUsed
  <2>11. LastClaimWins'
    BY <2>1, <2>3, <2>5 DEF SInv, LastClaimWins
  <2> QED BY <2>6, <2>7, <2>8, <2>9, <2>10, <2>11 DEF SInv
<1>12. ASSUME NEW t \in Tasks, MarkFallback(t) PROVE SInv'
  <2>1. /\ tasks[t].status \notin {"none", "completed"}
        /\ UNCHANGED <<clocks, runs, issued, acked, rpc, rloc, publishes>>
    BY <1>12 DEF MarkFallback
  <2>2. tasks'[t].status = "fallback" /\ \A u \in Tasks \ {t} : tasks'[u] = tasks[u]
    BY <1>12, <1>t DEF MarkFallback, TaskRows
  <2>3. RowsKept
    BY <2>1, <2>2 DEF RowsKept, Exists
  <2>4. NoneRaised
    BY <2>1, <2>2, TasksOfRuns DEF NoneRaised, SInv, Tombstones, Exists
  <2> QED BY <1>k, <2>1, <2>3, <2>4
<1>13. ASSUME NEW k \in DOMAIN issued, NEW v \in Values, Submit(k, v) PROVE SInv'
  <2> DEFINE t == issued[k]
  <2>1. t \in Tasks /\ k \in Nat
    BY <1>t, LenProperties, ElementOfSeq
  <2>2. /\ tasks[t].status = "claimed" /\ tasks[t].token = k /\ Complete(t, v, "mcp")
        /\ acked' = acked \cup {[task |-> t, token |-> k, value |-> v]}
        /\ UNCHANGED <<clocks, runs, issued, rpc, rloc, publishes>>
    BY <1>13 DEF Submit
  <2>3. /\ tasks'[t].status = "completed" /\ tasks'[t].result = v
        /\ \A u \in Tasks \ {t} : tasks'[u] = tasks[u]
    BY <2>1, <2>2, CompleteType DEF Routes
  <2>t. \A j \in DOMAIN issued : issued[j] = t => j <= k
    BY <2>1, <2>2 DEF SInv, LastToken
  <2> HIDE DEF t
  <2>4. ASSUME NEW r \in Runs, runs[r].state = "retired" PROVE t \notin TaskSet(r)
    BY <2>2, <2>4 DEF SInv, Tombstones, Exists
  <2>5. ASSUME NEW a \in acked PROVE a.task # t /\ a.task \in Tasks
    BY <1>t, <2>2, <2>4, <2>5 DEF SInv, AckedDone, Gone
  <2>6. Tombstones'
    BY <2>2, <2>3, <2>4, TasksOfRuns DEF SInv, Tombstones, Exists
  <2>7. NothingDisappears' /\ Present'
    BY <2>2, <2>3, TasksOfRuns DEF SInv, NothingDisappears, Present, Exists
  <2>8. LastToken'
    BY <2>2, <2>3 DEF SInv, LastToken
  <2>9. AckedDone'
    BY <2>2, <2>3, <2>5 DEF SInv, AckedDone, Gone
  <2>10. UsedDone'
    BY <2>2, <2>3, TasksOfRuns DEF SInv, UsedDone
  <2>11. AckedUsed'
    <3> SUFFICES ASSUME NEW r \in Runs, NEW n \in DOMAIN TasksOf[r], TasksOf[r][n] = t,
                        n \in DOMAIN rloc[r].used
                 PROVE  FALSE
      BY <2>2 DEF SInv, AckedUsed
    <3>1. runs[r].state # "retired"
      BY <2>4, TasksOfRuns
    <3> QED BY <2>2, <3>1 DEF SInv, UsedDone
  <2>12. LastClaimWins'
    BY <2>2, <2>5, <2>t DEF SInv, LastClaimWins
  <2> QED BY <2>6, <2>7, <2>8, <2>9, <2>10, <2>11, <2>12 DEF SInv
<1>14. ASSUME Tick \/ ClockStep PROVE SInv'
  BY <1>14, <1>k, <1>s DEF Tick, ClockStep
<1>15. CASE UNCHANGED vars
  BY <1>15, <1>k, <1>s DEF vars
<1> QED
  BY <1>1, <1>3, <1>4, <1>5, <1>6, <1>7, <1>8, <1>9, <1>10, <1>11, <1>12, <1>13, <1>14, <1>15
  DEF Next, RunStep

\* The invariant of the inbox and its runs.
LEMMA Inductive == Spec => [](TInv /\ SInv)
BY TypeInit, TypeStep, SafetyInit, SafetyStep, PTL DEF Spec

\* InboxConsistent: rows and runners are typed, every result a run used is the one its
\* row holds, and no run ever finds one of its tasks gone, whatever is published,
\* claimed, answered and retired around it.
THEOREM InboxStaysConsistent == Spec => []InboxConsistent
<1>1. TInv /\ SInv => InboxConsistent
  <2> SUFFICES ASSUME TInv, SInv PROVE UsedIsStored
    BY DEF InboxConsistent, TInv, SInv
  <2> QED BY DEF SInv, UsedDone, UsedIsStored
<1> QED BY <1>1, Inductive, PTL

\* AnswersKept: what submit acknowledged is what the row keeps and what the run
\* assembles, and only the last claimant of a task is ever acknowledged, once.
THEOREM AcknowledgedAnswersKept == Spec => []AnswersKept
<1>1. TInv /\ SInv => AnswersKept
  <2> SUFFICES ASSUME TInv, SInv PROVE AckedWins
    BY DEF AnswersKept, SInv
  <2> SUFFICES ASSUME NEW r \in Runs, NEW n \in DOMAIN TasksOf[r], NEW a \in acked,
                      a.task = TasksOf[r][n]
               PROVE  /\ runs[r].state # "retired" =>
                           tasks[a.task].status = "completed" /\ tasks[a.task].result = a.value
                      /\ n \in DOMAIN rloc[r].used => rloc[r].used[n] = a.value
    BY DEF AckedWins
  <2>1. runs[r].state # "retired" => ~Gone(a.task)
    BY TasksOfRuns DEF Gone
  <2> QED BY <2>1 DEF SInv, AckedDone, AckedUsed
<1> QED BY <1>1, Inductive, PTL

\* NoReplay: the tombstone of a retired run keeps every one of its tasks away for good.
THEOREM RetiredStaysRetired == Spec => []NoReplay
<1>1. TInv /\ SInv => NoReplay
  BY DEF SInv, Tombstones, NoReplay, Existing
<1> QED BY <1>1, Inductive, PTL

\* ResultIsFinal: no step of a consumer, publisher, fallback or run replaces a result.
THEOREM ResultsAreFinal == Spec => ResultIsFinal
<1> DEFINE Final == \A t \in Tasks : tasks[t].status = "completed" =>
                      tasks'[t].status = "none" \/ tasks'[t].result = tasks[t].result
<1>1. TInv /\ SInv /\ [Next]_vars => [Final]_vars
  <2> SUFFICES ASSUME TInv, SInv, Next, NEW t \in Tasks, tasks[t].status = "completed"
               PROVE  tasks'[t].status = "none" \/ tasks'[t].result = tasks[t].result
    OBVIOUS
  <2>t. tasks \in [Tasks -> TaskRows] /\ wall + WaitTime \in Nat /\ wall \in Nat
    BY ConstantsAssumption DEF TInv, TypeOK, TaskRows
  <2>u. \A d \in Nat : UpsertTask(tasks[t], d).result = tasks[t].result
    BY <2>t, UpsertEffect
  <2>1. ASSUME NEW r \in Runs, RegisterRun(r) PROVE tasks'[t].result = tasks[t].result
    <3>1. tasks' = [u \in Tasks |-> IF u \in TaskSet(r) THEN UpsertTask(tasks[u], wall + WaitTime)
                                    ELSE tasks[u]]
      BY <2>1 DEF RegisterRun
    <3> QED BY <2>t, <2>u, <3>1
  <2>2. ASSUME NEW r \in Runs, NEW u \in TaskSet(r), Publish(r, u)
        PROVE tasks'[t].result = tasks[t].result
    <3>1. tasks' = [tasks EXCEPT ![u] = UpsertTask(tasks[u], wall + WaitTime)]
      BY <2>2 DEF Publish
    <3> QED BY <2>t, <2>u, <3>1
  <2>3. ASSUME NEW u \in Tasks, u # t, NEW v, NEW route, Complete(u, v, route)
        PROVE  tasks'[t].result = tasks[t].result
    BY <2>t, <2>3 DEF Complete
  <2>4. ASSUME NEW r \in Runs, CompleteFallback(r) PROVE tasks'[t].result = tasks[t].result
    <3>1. CASE UNCHANGED tasks
      BY <3>1
    <3>2. CASE tasks[Current(r)].status # "completed"
               /\ Complete(Current(r), rloc[r].value, "fallback-router")
      BY <2>t, <3>2 DEF Complete
    <3> QED BY <2>4, <3>1, <3>2 DEF CompleteFallback
  <2>5. ASSUME NEW k \in DOMAIN issued, NEW v \in Values, Submit(k, v)
        PROVE  tasks'[t].result = tasks[t].result
    BY <2>t, <2>5 DEF Submit, Complete
  <2>6. ASSUME NEW u \in Tasks, ClaimNext(u) PROVE tasks'[t].result = tasks[t].result
    BY <2>t, <2>6 DEF ClaimNext, Claimable
  <2>7. ASSUME NEW u \in Tasks, MarkFallback(u) PROVE tasks'[t].result = tasks[t].result
    BY <2>t, <2>7 DEF MarkFallback
  <2>8. ASSUME NEW r \in Runs, RetireFinalizedRun(r)
        PROVE  tasks'[t].status = "none" \/ tasks'[t].result = tasks[t].result
    BY <2>t, <2>8 DEF RetireFinalizedRun, NoTask
  <2>9. ASSUME UNCHANGED tasks PROVE tasks'[t].result = tasks[t].result
    BY <2>9
  <2> QED BY <2>1, <2>2, <2>4, <2>5, <2>6, <2>7, <2>8, <2>9
          DEF Next, RunStep, WaitEnds, ResolveTask, FallbackAnswers, Assemble, RunFails, Tick, ClockStep
<1> QED BY <1>1, Inductive, PTL DEF Spec, ResultIsFinal
=============================================================================
