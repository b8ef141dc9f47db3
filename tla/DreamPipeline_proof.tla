------------------------- MODULE DreamPipeline_proof -------------------------
(***************************************************************************)
(* Theorems about DreamPipeline for every number of sessions, episodes,    *)
(* attempts, errors, crashes, deferrals and requeues.  What is said of the *)
(* marks on the episodes holds for any number of worker processes; what is *)
(* said of the job rows is of the one worker that the deployment starts:   *)
(* rows are updated by id only, and a second worker's recovery takes the   *)
(* rows that the first one works on.                                       *)
(***************************************************************************)
EXTENDS DreamPipeline, FiniteSetTheorems, SequenceTheorems, TLAPS

Jobs == [status: JobStatus, attempts: Nat, ready: BOOLEAN]
Locals == [session: Sessions \cup {NoSession}, snap: SUBSET Episodes,
           todo: SUBSET (Episodes \cup Sessions), spent: SUBSET Sessions]

\* The steps in which a worker has a job
Working == {"quota", "load", "reason", "write", "mark", "marking", "done",
            "unmark", "unmarking", "fail"}

(***************************************************************************)
(* The invariant of one worker, whatever the others do: it has a session   *)
(* and what it loaded of it, the session was written back before it is     *)
(* marked, and what it marks are episodes of that session.                 *)
(***************************************************************************)
WorkerOK(w) ==
  /\ wpc[w] \in Working => wloc[w].session \in Sessions
  /\ wpc[w] \in {"reason", "write", "mark", "marking", "done"} =>
       wloc[w].snap # {} /\ wloc[w].snap \subseteq EpisodesOf(wloc[w].session)
  /\ wpc[w] \in {"mark", "marking", "done"} => dreamed[wloc[w].session] # {}
  /\ wpc[w] \in {"marking", "unmarking"} => wloc[w].todo \subseteq EpisodesOf(wloc[w].session)
  /\ wpc[w] \in {"recover", "retry"} => wloc[w].todo \subseteq Sessions

\* What was read was stored
DreamedOK == \A s \in Sessions : dreamed[s] \subseteq EpisodesOf(s)

MarkInv == TypeOK /\ (\A w \in Workers : WorkerOK(w)) /\ DreamedOK /\ MarkAfterWriteBack

(***************************************************************************)
(* The invariant of the job rows and the one worker w.                     *)
(***************************************************************************)
\* A row that waits has an attempt left
RowsOK == \A s \in Sessions :
  /\ jobs[s].attempts <= MaxAttempts
  /\ jobs[s].status = "pending" => jobs[s].attempts < MaxAttempts

\* The worker's job is processing; what it recovers is processing and is spent
\* or has an attempt left; what it retries failed and has an attempt left.  Each
\* of them may have been made pending by the rescue script meanwhile.
ClaimOK(w) ==
  /\ wpc[w] \in Working => jobs[wloc[w].session].status \in {"processing", "pending"}
  /\ wpc[w] = "recover" => \A s \in wloc[w].todo :
       /\ jobs[s].status \in {"processing", "pending"}
       /\ s \in wloc[w].spent \/ jobs[s].attempts < MaxAttempts
  /\ wpc[w] = "retry" => \A s \in wloc[w].todo :
       jobs[s].status \in {"failed", "pending"} /\ jobs[s].attempts < MaxAttempts

\* What is left to mark, after the run of its own that was written back
MarksOK(w) ==
  /\ wpc[w] \in {"mark", "marking", "done"} => dreamed[wloc[w].session] = wloc[w].snap
  /\ wpc[w] = "marking" => \A e \in wloc[w].snap : eps[e] = "processed" \/ e \in wloc[w].todo
  /\ wpc[w] = "done" => \A e \in wloc[w].snap : eps[e] = "processed"

QueueInv(w) == MarkInv /\ RowsOK /\ ClaimOK(w) /\ MarksOK(w) /\ ProcessedMeansDreamed

QueueInvAll == \A w \in Workers : QueueInv(w)

-----------------------------------------------------------------------------
(***************************************************************************)
(* Types.                                                                  *)
(***************************************************************************)

\* A row that is put into the queue, and a worker without a job, have their types.
LEMMA NothingTypes ==
  /\ NoJob \in Jobs
  /\ NoWork \in Locals
  /\ \A j \in Jobs : \A st \in JobStatus : [j EXCEPT !.status = st] \in Jobs
<1>1. NoJob \in Jobs BY DEF NoJob, Jobs, JobStatus
<1>2. NoWork \in Locals BY DEF NoWork, Locals
<1>3. \A j \in Jobs : \A st \in JobStatus : [j EXCEPT !.status = st] \in Jobs BY DEF Jobs
<1> QED BY <1>1, <1>2, <1>3

\* At the start every row, worker and episode is in a known state.
LEMMA TypeInit == Init => TypeOK
<1> SUFFICES ASSUME Init PROVE TypeOK OBVIOUS
<1>1. jobs \in [Sessions -> Jobs] BY NothingTypes DEF Init
<1>2. wloc \in [Workers -> Locals] BY NothingTypes DEF Init
<1>3. order \in Seq(Sessions) BY EmptySeq DEF Init
<1> QED BY <1>1, <1>2, <1>3 DEF Init, TypeOK, Jobs, Locals, WPCs

\* Queueing a session keeps the types of the queue.
LEMMA EnqueueType ==
  ASSUME TypeOK, NEW s \in Sessions, Enqueue(s)
  PROVE  jobs' \in [Sessions -> Jobs] /\ order' \in Seq(Sessions)
<1>1. jobs \in [Sessions -> Jobs] /\ order \in Seq(Sessions) BY DEF TypeOK, Jobs
<1>2. [NoJob EXCEPT !.status = "pending"] \in Jobs BY NothingTypes DEF JobStatus
<1>3. Append(order, s) \in Seq(Sessions) BY <1>1, AppendProperties
<1> QED BY <1>1, <1>2, <1>3 DEF Enqueue

\* What a claim does: the oldest row that can be claimed is processing, with one
\* attempt more.
LEMMA ClaimEffect ==
  ASSUME TypeOK, NEW w \in Workers, ClaimNext(w)
  PROVE  \E s \in Sessions :
           /\ Claimable(s)
           /\ jobs' \in [Sessions -> Jobs]
           /\ jobs'[s].status = "processing" /\ jobs'[s].attempts = jobs[s].attempts + 1
           /\ \A t \in Sessions \ {s} : jobs'[t] = jobs[t]
           /\ wloc' = [wloc EXCEPT ![w].session = s]
           /\ forced' = forced \ {s}
<1>0. jobs \in [Sessions -> Jobs] /\ order \in Seq(Sessions) BY DEF TypeOK, Jobs
<1>1. PICK n \in DOMAIN order :
        /\ Claimable(order[n])
        /\ jobs' = [jobs EXCEPT ![order[n]].status = "processing", ![order[n]].attempts = @ + 1]
        /\ wloc' = [wloc EXCEPT ![w].session = order[n]]
        /\ forced' = forced \ {order[n]}
  BY DEF ClaimNext
<1> DEFINE s == order[n]
           m == jobs[s].attempts + 1
           new == [jobs[s] EXCEPT !.status = "processing", !.attempts = m]
<1>2. s \in Sessions BY <1>0, <1>1, ElementOfSeq, LenProperties
<1>3. jobs[s] \in Jobs /\ m \in Nat BY <1>0, <1>2 DEF Jobs
<1>4. jobs' = [jobs EXCEPT ![s] = new] BY <1>0, <1>1, <1>2
<1> HIDE DEF m
<1>5. new \in Jobs /\ new.status = "processing" /\ new.attempts = m
  BY <1>3 DEF Jobs, JobStatus
<1> HIDE DEF new
<1>6. jobs' \in [Sessions -> Jobs] /\ jobs'[s] = new /\ \A t \in Sessions \ {s} : jobs'[t] = jobs[t]
  <2> HIDE DEF s
  <2> QED BY <1>0, <1>2, <1>4, <1>5
<1> HIDE DEF s
<1> QED BY <1>1, <1>2, <1>5, <1>6 DEF s, m

\* What a deferral does to the row of the job.
LEMMA DeferEffect ==
  ASSUME TypeOK, NEW w \in Workers, wloc[w].session \in Sessions, Defer(w)
  PROVE  /\ jobs' \in [Sessions -> Jobs]
         /\ \A t \in Sessions : jobs'[t] = jobs[t] \/
              /\ t = wloc[w].session
              /\ jobs[t].status = "processing" /\ jobs'[t].status = "pending"
              /\ jobs'[t].attempts = IF jobs[t].attempts = 0 THEN 0 ELSE jobs[t].attempts - 1
<1> DEFINE s == wloc[w].session
           m == IF jobs[s].attempts = 0 THEN 0 ELSE jobs[s].attempts - 1
           new == [status |-> "pending", ready |-> FALSE, attempts |-> m]
<1>0. jobs \in [Sessions -> Jobs] /\ s \in Sessions BY DEF TypeOK, Jobs
<1>1. jobs[s].attempts \in Nat BY <1>0 DEF Jobs
<1>2. m \in Nat BY <1>1
<1>3. IF jobs[s].status # "processing" THEN jobs' = jobs ELSE jobs' = [jobs EXCEPT ![s] = new]
  BY DEF Defer
<1> HIDE DEF m
<1>4. new \in Jobs /\ new.status = "pending" /\ new.attempts = m BY <1>2 DEF Jobs, JobStatus
<1> HIDE DEF new
<1>5. CASE jobs[s].status # "processing" BY <1>0, <1>3, <1>5
<1>6. CASE jobs[s].status = "processing"
  <2> HIDE DEF s
  <2>1. jobs' = [jobs EXCEPT ![s] = new] BY <1>3, <1>6
  <2>2. jobs' \in [Sessions -> Jobs] /\ jobs'[s] = new /\ \A t \in Sessions \ {s} : jobs'[t] = jobs[t]
    BY <1>0, <1>4, <2>1
  <2> QED BY <1>0, <1>4, <1>6, <2>2 DEF s, m
<1> QED BY <1>5, <1>6

\* The session of a worker that has a job.
SessionsOK == \A w \in Workers : wpc[w] \in Working => wloc[w].session \in Sessions

\* The queue keeps its types.
LEMMA QueueType ==
  ASSUME TypeOK, SessionsOK, Next
  PROVE  jobs' \in [Sessions -> Jobs] /\ order' \in Seq(Sessions)
<1> DEFINE Goal == jobs' \in [Sessions -> Jobs] /\ order' \in Seq(Sessions)
<1>0. jobs \in [Sessions -> Jobs] /\ order \in Seq(Sessions) BY DEF TypeOK, Jobs
<1>n. "pending" \in JobStatus /\ "failed" \in JobStatus /\ "processed" \in JobStatus BY DEF JobStatus
<1>1. ASSUME NEW s \in Sessions, DreamEnqueue(s) \/ SchedulerEnqueue(s) PROVE Goal
  <2>1. Enqueue(s) BY <1>1 DEF DreamEnqueue, SchedulerEnqueue
  <2> QED BY <2>1, EnqueueType
<1>2. ASSUME NEW s \in Sessions, BecomesAvailable(s) PROVE Goal
  BY <1>0, <1>2 DEF BecomesAvailable, Jobs
<1>3. ASSUME NEW w \in Workers, RecoverUpdate(w) PROVE Goal
  <2>1. jobs' = [s \in Sessions |->
               IF s \notin wloc[w].todo THEN jobs[s]
               ELSE [jobs[s] EXCEPT !.status = IF s \in wloc[w].spent THEN "failed" ELSE "pending"]]
        /\ order' = order
    BY <1>3 DEF RecoverUpdate
  <2> QED BY <1>0, <1>n, <2>1, NothingTypes
<1>4. ASSUME NEW w \in Workers, RetryUpdate(w) PROVE Goal
  <2>1. jobs' = [s \in Sessions |->
               IF s \in wloc[w].todo THEN [jobs[s] EXCEPT !.status = "pending"] ELSE jobs[s]]
        /\ order' = order
    BY <1>4 DEF RetryUpdate
  <2> QED BY <1>0, <1>n, <2>1, NothingTypes
<1>5. ASSUME NEW w \in Workers, ClaimNext(w) PROVE Goal
  BY <1>0, <1>5, ClaimEffect DEF ClaimNext
<1>6. ASSUME NEW w \in Workers, Defer(w) PROVE Goal
  <2>1. wloc[w].session \in Sessions BY <1>6 DEF Defer, SessionsOK, Working
  <2> QED BY <1>0, <1>6, <2>1, DeferEffect DEF Defer
<1>7. ASSUME NEW w \in Workers, MarkProcessed(w) \/ MarkFailed(w) PROVE Goal
  <2> DEFINE s == wloc[w].session
             new(st) == [jobs[s] EXCEPT !.status = st]
  <2>1. s \in Sessions BY <1>7 DEF MarkProcessed, MarkFailed, SessionsOK, Working
  <2>2. \E st \in JobStatus : jobs' = [jobs EXCEPT ![s] = new(st)]
    BY <1>0, <1>7, <1>n DEF MarkProcessed, MarkFailed, SetJob
  <2>3. \A st \in JobStatus : new(st) \in Jobs BY <1>0, <2>1, NothingTypes
  <2>4. order' = order BY <1>7 DEF MarkProcessed, MarkFailed
  <2> HIDE DEF s, new
  <2> QED BY <1>0, <2>1, <2>2, <2>3, <2>4
<1>8. ASSUME RequeueUpdate PROVE Goal
  <2>1. jobs' = [s \in Sessions |->
               IF s \in rescue THEN [NoJob EXCEPT !.status = "pending"] ELSE jobs[s]]
        /\ order' = order
    BY <1>8 DEF RequeueUpdate
  <2> QED BY <1>0, <1>n, <2>1, NothingTypes
<1>9. ASSUME NEW w \in Workers, WorkerStep(w), ~RecoverUpdate(w), ~RetryUpdate(w), ~ClaimNext(w),
             ~MarkProcessed(w), ~MarkFailed(w)
      PROVE  UNCHANGED <<jobs, order>>
  BY <1>9 DEF WorkerStep, RecoverSelect, RetrySelect, QuotaReserved, Load, Reason, WriteBack, MarkScan, MarkOne
<1>10. ASSUME (\E e \in Episodes : StoreEpisode(e)) \/ (\E s \in Sessions : QuietPeriodEnds(s)) \/ SchedulerScan
              \/ RequeueSelect \/ (\E w \in Workers : Raise(w) \/ Crash(w))
       PROVE  UNCHANGED <<jobs, order>>
  BY <1>10 DEF StoreEpisode, QuietPeriodEnds, SchedulerScan, RequeueSelect, Raise, Crash
<1> QED BY <1>0, <1>1, <1>2, <1>3, <1>4, <1>5, <1>6, <1>7, <1>8, <1>9, <1>10 DEF Next

\* The workers keep their types.
LEMMA WorkerType ==
  ASSUME TypeOK, SessionsOK, Next
  PROVE  wpc' \in [Workers -> WPCs] /\ wloc' \in [Workers -> Locals]
<1> DEFINE Goal == wpc' \in [Workers -> WPCs] /\ wloc' \in [Workers -> Locals]
<1>0. wpc \in [Workers -> WPCs] /\ wloc \in [Workers -> Locals] BY DEF TypeOK, Locals
<1>1. ASSUME NEW w \in Workers, NEW l \in WPCs, Goto(w, l) PROVE wpc' \in [Workers -> WPCs]
  BY <1>0, <1>1 DEF Goto
<1>2. ASSUME NEW w \in Workers, Idle(w) PROVE Goal
  <2>1. wpc' \in [Workers -> WPCs] BY <1>1, <1>2 DEF Idle, WPCs
  <2> QED BY <1>0, <1>2, <2>1, NothingTypes DEF Idle
<1>3. ASSUME NEW w \in Workers, RecoverSelect(w) PROVE Goal
  <2> DEFINE left == {s \in Sessions : jobs[s].status = "processing"}
             sp == {s \in left : jobs[s].attempts >= MaxAttempts}
             new == [wloc[w] EXCEPT !.todo = left, !.spent = sp]
  <2>1. wloc' = [wloc EXCEPT ![w] = new] BY <1>0, <1>3 DEF RecoverSelect
  <2>2. left \subseteq Sessions /\ sp \subseteq Sessions OBVIOUS
  <2> HIDE DEF left, sp
  <2>3. new \in Locals BY <1>0, <2>2 DEF Locals
  <2> HIDE DEF new
  <2>4. wpc' \in [Workers -> WPCs] BY <1>1, <1>3 DEF RecoverSelect, WPCs
  <2> QED BY <1>0, <2>1, <2>3, <2>4
<1>4. ASSUME NEW w \in Workers, ClaimNext(w) PROVE Goal
  <2>1. PICK s \in Sessions : wloc' = [wloc EXCEPT ![w].session = s] BY <1>4, ClaimEffect
  <2>2. wloc' \in [Workers -> Locals] BY <1>0, <2>1 DEF Locals
  <2>3. wpc' \in [Workers -> WPCs] BY <1>1, <1>4 DEF ClaimNext, WPCs
  <2> QED BY <2>2, <2>3
<1>5. ASSUME NEW w \in Workers, RetrySelect(w) PROVE Goal
  <2>1. PICK s \in Sessions : wloc' = [wloc EXCEPT ![w].todo = {s}] BY <1>5 DEF RetrySelect
  <2>2. wloc' \in [Workers -> Locals] BY <1>0, <2>1 DEF Locals
  <2>3. wpc' \in [Workers -> WPCs] BY <1>1, <1>5 DEF RetrySelect, WPCs
  <2> QED BY <2>2, <2>3
<1>6. ASSUME NEW w \in Workers, Load(w) PROVE Goal
  <2>1. wpc' \in [Workers -> WPCs] BY <1>1, <1>6 DEF Load, WPCs
  <2>2. wloc' = wloc \/ \E snap \in SUBSET EpisodesOf(wloc[w].session) : wloc' = [wloc EXCEPT ![w].snap = snap]
    BY <1>6 DEF Load
  <2>3. EpisodesOf(wloc[w].session) \subseteq Episodes BY DEF EpisodesOf
  <2>4. wloc' \in [Workers -> Locals] BY <1>0, <2>2, <2>3 DEF Locals
  <2> QED BY <2>1, <2>4
<1>7. ASSUME NEW w \in Workers, MarkScan(w) PROVE Goal
  <2>1. wpc' \in [Workers -> WPCs]
    <3>1. \E l \in WPCs : Goto(w, l) BY <1>7 DEF MarkScan, WPCs
    <3> QED BY <1>1, <3>1
  <2>2. EpisodesOf(wloc[w].session) \subseteq Episodes BY DEF EpisodesOf
  <2>3. \E t \in SUBSET Episodes : wloc' = [wloc EXCEPT ![w].todo = t] BY <1>7, <2>2 DEF MarkScan
  <2>4. wloc' \in [Workers -> Locals] BY <1>0, <2>3 DEF Locals
  <2> QED BY <2>1, <2>4
<1>8. ASSUME NEW w \in Workers, MarkOne(w) PROVE Goal
  <2>1. wpc' = wpc \/ \E l \in {"done", "fail"} : Goto(w, l) BY <1>8 DEF MarkOne
  <2>2. wpc' \in [Workers -> WPCs] BY <1>0, <1>1, <2>1 DEF WPCs
  <2>3. wloc' = wloc \/ \E e : wloc' = [wloc EXCEPT ![w].todo = @ \ {e}] BY <1>8 DEF MarkOne
  <2>4. wloc' \in [Workers -> Locals] BY <1>0, <2>3 DEF Locals
  <2> QED BY <2>2, <2>4
<1>9. ASSUME NEW w \in Workers, QuotaReserved(w) \/ Reason(w) \/ WriteBack(w) \/ Raise(w) PROVE Goal
  <2>1. wloc' = wloc /\ \E l \in WPCs : Goto(w, l)
    BY <1>9 DEF QuotaReserved, Reason, WriteBack, Raise, WPCs
  <2> QED BY <1>0, <1>1, <2>1
<1>10. ASSUME NEW w \in Workers, RecoverUpdate(w) \/ RetryUpdate(w) \/ MarkProcessed(w) \/ MarkFailed(w) \/ Defer(w)
       PROVE  Goal
  BY <1>2, <1>10 DEF RecoverUpdate, RetryUpdate, MarkProcessed, MarkFailed, Defer
<1>11. ASSUME NEW w \in Workers, Crash(w) PROVE Goal
  BY <1>0, <1>1, <1>11, NothingTypes DEF Crash, WPCs
<1>12. ASSUME ~\E w \in Workers : WorkerStep(w) \/ Defer(w) \/ Raise(w) \/ Crash(w)
       PROVE  UNCHANGED <<wpc, wloc>>
  BY <1>12 DEF Next, StoreEpisode, DreamEnqueue, QuietPeriodEnds, BecomesAvailable, SchedulerEnqueue,
     SchedulerScan, RequeueSelect, RequeueUpdate
<1> QED BY <1>0, <1>3, <1>4, <1>5, <1>6, <1>7, <1>8, <1>9, <1>10, <1>11, <1>12 DEF WorkerStep

\* Episodes, sessions and what was written back keep their types.
LEMMA DataType ==
  ASSUME TypeOK, SessionsOK, Next
  PROVE  /\ eps' \in [Episodes -> {"absent", "pending", "processed", "failed"}]
         /\ quiet' \in [Sessions -> BOOLEAN]
         /\ cand' \subseteq Sessions /\ forced' \subseteq Sessions /\ rescue' \subseteq Sessions
         /\ dreamed' \in [Sessions -> SUBSET Episodes]
<1>0. /\ eps \in [Episodes -> {"absent", "pending", "processed", "failed"}]
      /\ quiet \in [Sessions -> BOOLEAN] /\ cand \subseteq Sessions /\ forced \subseteq Sessions
      /\ rescue \subseteq Sessions
      /\ dreamed \in [Sessions -> SUBSET Episodes] /\ wloc \in [Workers -> Locals]
  BY DEF TypeOK, Locals
<1>1. eps' \in [Episodes -> {"absent", "pending", "processed", "failed"}]
  <2>1. eps' = eps \/ \E e : \E st \in {"pending", "processed", "failed"} : eps' = [eps EXCEPT ![e] = st]
    BY DEF Next, WorkerStep, StoreEpisode, DreamEnqueue, QuietPeriodEnds, BecomesAvailable, SchedulerEnqueue,
       SchedulerScan, RequeueSelect, RequeueUpdate, Defer, Raise, Crash, RecoverSelect, RecoverUpdate, ClaimNext,
       RetrySelect, RetryUpdate, QuotaReserved, Load, Reason, WriteBack, MarkScan, MarkOne, MarkProcessed,
       MarkFailed
  <2> QED BY <1>0, <2>1
<1>2. quiet' \in [Sessions -> BOOLEAN]
  <2>1. quiet' = quiet \/ \E s : \E b \in BOOLEAN : quiet' = [quiet EXCEPT ![s] = b]
    BY DEF Next, WorkerStep, StoreEpisode, DreamEnqueue, QuietPeriodEnds, BecomesAvailable, SchedulerEnqueue,
       SchedulerScan, RequeueSelect, RequeueUpdate, Defer, Raise, Crash, RecoverSelect, RecoverUpdate, ClaimNext,
       RetrySelect, RetryUpdate, QuotaReserved, Load, Reason, WriteBack, MarkScan, MarkOne, MarkProcessed,
       MarkFailed
  <2> QED BY <1>0, <2>1
<1>3. cand' \subseteq Sessions /\ forced' \subseteq Sessions
  <2>1. Candidates \subseteq Sessions BY DEF Candidates
  <2>2. cand' \subseteq cand \/ cand' = Candidates
    BY DEF Next, WorkerStep, StoreEpisode, DreamEnqueue, QuietPeriodEnds, BecomesAvailable, SchedulerEnqueue,
       SchedulerScan, RequeueSelect, RequeueUpdate, Defer, Raise, Crash, RecoverSelect, RecoverUpdate, ClaimNext,
       RetrySelect, RetryUpdate, QuotaReserved, Load, Reason, WriteBack, MarkScan, MarkOne, MarkProcessed,
       MarkFailed
  <2>3. forced' \subseteq forced \/ \E s \in Sessions : forced' = forced \cup {s}
    BY DEF Next, WorkerStep, StoreEpisode, DreamEnqueue, QuietPeriodEnds, BecomesAvailable, SchedulerEnqueue,
       SchedulerScan, RequeueSelect, RequeueUpdate, Defer, Raise, Crash, RecoverSelect, RecoverUpdate, ClaimNext,
       RetrySelect, RetryUpdate, QuotaReserved, Load, Reason, WriteBack, MarkScan, MarkOne, MarkProcessed,
       MarkFailed
  <2> QED BY <1>0, <2>1, <2>2, <2>3
<1>4. dreamed' \in [Sessions -> SUBSET Episodes]
  <2>1. dreamed' = dreamed \/ \E w \in Workers : dreamed' = [dreamed EXCEPT ![wloc[w].session] = wloc[w].snap]
    BY DEF Next, WorkerStep, StoreEpisode, DreamEnqueue, QuietPeriodEnds, BecomesAvailable, SchedulerEnqueue,
       SchedulerScan, RequeueSelect, RequeueUpdate, Defer, Raise, Crash, RecoverSelect, RecoverUpdate, ClaimNext,
       RetrySelect, RetryUpdate, QuotaReserved, Load, Reason, WriteBack, MarkScan, MarkOne, MarkProcessed,
       MarkFailed
  <2>2. \A w \in Workers : wloc[w].snap \subseteq Episodes BY <1>0 DEF Locals
  <2> QED BY <1>0, <2>1, <2>2
<1>5. rescue' \subseteq Sessions
  <2>1. rescue' = rescue \/ rescue' = {} \/ rescue' \in SUBSET Failed
    BY DEF Next, WorkerStep, StoreEpisode, DreamEnqueue, QuietPeriodEnds, BecomesAvailable, SchedulerEnqueue,
       SchedulerScan, RequeueSelect, RequeueUpdate, Defer, Raise, Crash, RecoverSelect, RecoverUpdate, ClaimNext,
       RetrySelect, RetryUpdate, QuotaReserved, Load, Reason, WriteBack, MarkScan, MarkOne, MarkProcessed,
       MarkFailed, env
  <2>2. Failed \subseteq Sessions BY DEF Failed
  <2> QED BY <1>0, <2>1, <2>2
<1> QED BY <1>1, <1>2, <1>3, <1>4, <1>5

\* No step of a worker, a producer, the scheduler or the clock leaves the types.
LEMMA TypeStep == TypeOK /\ SessionsOK /\ [Next]_vars => TypeOK'
<1> SUFFICES ASSUME TypeOK, SessionsOK, [Next]_vars PROVE TypeOK' OBVIOUS
<1>1. CASE UNCHANGED vars BY <1>1 DEF TypeOK, vars, env
<1>2. CASE Next BY <1>2, QueueType, WorkerType, DataType DEF TypeOK, Jobs, Locals
<1> QED BY <1>1, <1>2

-----------------------------------------------------------------------------
(***************************************************************************)
(* The marks on the episodes, for any number of workers.                   *)
(***************************************************************************)

\* What a step does to the episodes and to what was written back: an episode is
\* never forgotten, it becomes processed only by a worker that marks it, and a
\* run that is written back had loaded something.
LEMMA MarkEffect ==
  ASSUME TypeOK, [Next]_vars
  PROVE  /\ \A e \in Episodes : eps[e] # "absent" => eps'[e] # "absent"
         /\ \A e \in Episodes : eps'[e] = "processed" /\ eps[e] # "processed" =>
              \E w \in Workers : wpc[w] = "marking" /\ e \in wloc[w].todo
         /\ \A s \in Sessions : dreamed'[s] = dreamed[s] \/
              \E w \in Workers : /\ wpc[w] = "write" /\ wloc[w].session = s
                                 /\ dreamed'[s] = wloc[w].snap
<1> DEFINE Goal == /\ \A e \in Episodes : eps[e] # "absent" => eps'[e] # "absent"
                   /\ \A e \in Episodes : eps'[e] = "processed" /\ eps[e] # "processed" =>
                        \E w \in Workers : wpc[w] = "marking" /\ e \in wloc[w].todo
                   /\ \A s \in Sessions : dreamed'[s] = dreamed[s] \/
                        \E w \in Workers : /\ wpc[w] = "write" /\ wloc[w].session = s
                                           /\ dreamed'[s] = wloc[w].snap
<1>0. /\ eps \in [Episodes -> {"absent", "pending", "processed", "failed"}]
      /\ dreamed \in [Sessions -> SUBSET Episodes]
  BY DEF TypeOK
<1>1. ASSUME NEW e \in Episodes, StoreEpisode(e) PROVE Goal
  BY <1>0, <1>1 DEF StoreEpisode
<1>2. ASSUME NEW w \in Workers, WriteBack(w) PROVE Goal
  BY <1>0, <1>2 DEF WriteBack
<1>3. ASSUME NEW w \in Workers, MarkOne(w) PROVE Goal
  BY <1>0, <1>3 DEF MarkOne
<1>4. ASSUME ~(\E e \in Episodes : StoreEpisode(e)), ~(\E w \in Workers : WriteBack(w) \/ MarkOne(w))
      PROVE  UNCHANGED <<eps, dreamed>>
  BY <1>4 DEF Next, WorkerStep, DreamEnqueue, QuietPeriodEnds, BecomesAvailable, SchedulerEnqueue,
     SchedulerScan, RequeueSelect, RequeueUpdate, Defer, Raise, Crash, RecoverSelect, RecoverUpdate, ClaimNext,
     RetrySelect, RetryUpdate, QuotaReserved, Load, Reason, MarkScan, MarkProcessed, MarkFailed, vars
<1> QED BY <1>1, <1>2, <1>3, <1>4

\* The locals of a worker are its own.
LEMMA OwnLocals ==
  ASSUME TypeOK, [Next]_vars, NEW w \in Workers, ~(WorkerStep(w) \/ Defer(w) \/ Raise(w) \/ Crash(w))
  PROVE  wpc'[w] = wpc[w] /\ wloc'[w] = wloc[w]
<1>0. wpc \in [Workers -> WPCs] /\ wloc \in [Workers -> Locals] BY DEF TypeOK, Locals
<1>1. ASSUME NEW u \in Workers, u # w, WorkerStep(u) \/ Defer(u) \/ Raise(u) \/ Crash(u)
      PROVE  wpc'[w] = wpc[w] /\ wloc'[w] = wloc[w]
  <2>1. (\E l : Goto(u, l)) \/ wpc' = wpc
    BY <1>1 DEF WorkerStep, Defer, Raise, Crash, RecoverSelect, RecoverUpdate, ClaimNext, Idle,
       RetrySelect, RetryUpdate, QuotaReserved, Load, Reason, WriteBack, MarkScan, MarkOne, MarkProcessed, MarkFailed
  <2>2. wpc'[w] = wpc[w] BY <1>0, <1>1, <2>1 DEF Goto
  <2>3. wloc'[w] = wloc[w]
    BY <1>0, <1>1 DEF WorkerStep, Defer, Raise, Crash, RecoverSelect, RecoverUpdate, ClaimNext, Idle,
       RetrySelect, RetryUpdate, QuotaReserved, Load, Reason, WriteBack, MarkScan, MarkOne, MarkProcessed, MarkFailed
  <2> QED BY <2>2, <2>3
<1>2. ASSUME ~\E u \in Workers : WorkerStep(u) \/ Defer(u) \/ Raise(u) \/ Crash(u)
      PROVE  UNCHANGED <<wpc, wloc>>
  BY <1>2 DEF Next, StoreEpisode, DreamEnqueue, QuietPeriodEnds, BecomesAvailable, SchedulerEnqueue,
     SchedulerScan, RequeueSelect, RequeueUpdate, vars
<1> QED BY <1>1, <1>2

\* Episodes of a session and what was written back of it only grow from nothing.
LEMMA NothingForgotten ==
  ASSUME TypeOK, \A w \in Workers : WorkerOK(w), [Next]_vars, NEW s \in Sessions
  PROVE  /\ EpisodesOf(s) \subseteq EpisodesOf(s)'
         /\ dreamed[s] # {} => dreamed'[s] # {}
         /\ dreamed[s] \subseteq EpisodesOf(s) => dreamed'[s] \subseteq EpisodesOf(s)'
<1>1. EpisodesOf(s) \subseteq EpisodesOf(s)' BY MarkEffect DEF EpisodesOf
<1>2. dreamed'[s] = dreamed[s] \/
        \E w \in Workers : wpc[w] = "write" /\ wloc[w].session = s /\ dreamed'[s] = wloc[w].snap
  BY MarkEffect
<1>3. ASSUME NEW w \in Workers, wpc[w] = "write", wloc[w].session = s
      PROVE  wloc[w].snap # {} /\ wloc[w].snap \subseteq EpisodesOf(s)
  BY <1>3 DEF WorkerOK
<1> QED BY <1>1, <1>2, <1>3

\* A worker's own step keeps what is true of it.
LEMMA WorkerOwnStep ==
  ASSUME TypeOK, TypeOK', \A u \in Workers : WorkerOK(u), Next,
         NEW w \in Workers, WorkerStep(w) \/ Defer(w) \/ Raise(w) \/ Crash(w)
  PROVE  WorkerOK(w)'
<1>0. /\ wpc \in [Workers -> WPCs] /\ wloc \in [Workers -> Locals]
      /\ dreamed \in [Sessions -> SUBSET Episodes] /\ WorkerOK(w)
  BY DEF TypeOK, Locals
<1>1. \A s \in Sessions : EpisodesOf(s) \subseteq EpisodesOf(s)' BY NothingForgotten
<1>2. \A s \in Sessions : dreamed[s] # {} => dreamed'[s] # {} BY NothingForgotten
<1>3. ASSUME wpc'[w] \in {"down", "idle"} PROVE WorkerOK(w)' BY <1>3 DEF WorkerOK, Working
<1>4. CASE RecoverSelect(w)
  <2>1. wpc'[w] = "recover" BY <1>0, <1>4 DEF RecoverSelect, Goto
  <2>2. wloc'[w].todo \subseteq Sessions
    <3> DEFINE left == {s \in Sessions : jobs[s].status = "processing"}
               sp == {s \in left : jobs[s].attempts >= MaxAttempts}
               new == [wloc[w] EXCEPT !.todo = left, !.spent = sp]
    <3>1. wloc' = [wloc EXCEPT ![w] = new] BY <1>0, <1>4 DEF RecoverSelect
    <3>2. left \subseteq Sessions OBVIOUS
    <3> HIDE DEF left, sp
    <3>3. new.todo = left BY <1>0 DEF Locals
    <3> HIDE DEF new
    <3> QED BY <1>0, <3>1, <3>2, <3>3
  <2> QED BY <2>1, <2>2 DEF WorkerOK, Working
<1>5. CASE RecoverUpdate(w) \/ RetryUpdate(w) \/ MarkProcessed(w) \/ MarkFailed(w) \/ Defer(w) \/ Crash(w)
  <2>1. wpc'[w] \in {"down", "idle"}
    BY <1>0, <1>5 DEF RecoverUpdate, RetryUpdate, MarkProcessed, MarkFailed, Defer, Crash, Idle, Goto
  <2> QED BY <1>3, <2>1
<1>6. CASE ClaimNext(w)
  <2>1. wpc'[w] = "quota" BY <1>0, <1>6 DEF ClaimNext, Goto
  <2>2. PICK s \in Sessions : wloc' = [wloc EXCEPT ![w].session = s] BY <1>6, ClaimEffect
  <2>3. wloc'[w].session = s BY <1>0, <2>2 DEF Locals
  <2> QED BY <2>1, <2>3 DEF WorkerOK
<1>7. CASE RetrySelect(w)
  <2>1. wpc'[w] = "retry" BY <1>0, <1>7 DEF RetrySelect, Goto
  <2>2. PICK s \in Sessions : wloc' = [wloc EXCEPT ![w].todo = {s}] BY <1>7 DEF RetrySelect
  <2>3. wloc'[w].todo = {s} BY <1>0, <2>2 DEF Locals
  <2> QED BY <2>1, <2>3 DEF WorkerOK, Working
<1>8. CASE QuotaReserved(w)
  <2>1. wpc[w] = "quota" /\ wpc'[w] = "load" /\ wloc' = wloc
    BY <1>0, <1>8 DEF QuotaReserved, Goto
  <2> QED BY <1>0, <2>1 DEF WorkerOK, Working
<1>9. CASE Load(w)
  <2>1. wpc[w] = "load" /\ wloc[w].session \in Sessions BY <1>0, <1>9 DEF Load, WorkerOK, Working
  <2>s. PICK s \in Sessions : s = wloc[w].session BY <2>1
  <2>2. CASE wpc'[w] = "unmark" /\ wloc' = wloc BY <2>1, <2>2 DEF WorkerOK, Working
  <2>3. CASE \E snap \in SUBSET EpisodesOf(wloc[w].session) :
               snap # {} /\ wloc' = [wloc EXCEPT ![w].snap = snap] /\ wpc'[w] = "reason"
    <3>1. PICK snap \in SUBSET EpisodesOf(wloc[w].session) :
            snap # {} /\ wloc' = [wloc EXCEPT ![w].snap = snap] /\ wpc'[w] = "reason"
      BY <2>3
    <3>2. wloc'[w].snap = snap /\ wloc'[w].session = wloc[w].session BY <1>0, <3>1 DEF Locals
    <3>3. snap \subseteq EpisodesOf(s)' BY <1>1, <2>s
    <3> QED BY <2>s, <3>1, <3>2, <3>3 DEF WorkerOK, Working
  <2> QED BY <1>0, <1>9, <2>2, <2>3 DEF Load, Goto
<1>10. CASE Reason(w)
  <2>1. wpc[w] = "reason" /\ wpc'[w] = "write" /\ wloc' = wloc BY <1>0, <1>10 DEF Reason, Goto
  <2>2. wloc[w].session \in Sessions BY <1>0, <2>1 DEF WorkerOK, Working
  <2> QED BY <1>0, <1>1, <2>1, <2>2 DEF WorkerOK, EpisodesOf
<1>11. CASE WriteBack(w)
  <2>1. wpc[w] = "write" /\ wpc'[w] = "mark" /\ wloc' = wloc
        /\ dreamed' = [dreamed EXCEPT ![wloc[w].session] = wloc[w].snap]
    BY <1>0, <1>11 DEF WriteBack, Goto
  <2>2. wloc[w].session \in Sessions /\ wloc[w].snap # {} BY <1>0, <2>1 DEF WorkerOK, Working
  <2>3. dreamed'[wloc[w].session] = wloc[w].snap BY <1>0, <2>1, <2>2
  <2> QED BY <1>0, <1>1, <2>1, <2>2, <2>3 DEF WorkerOK, EpisodesOf
<1>12. CASE MarkScan(w)
  <2> DEFINE all == EpisodesOf(wloc[w].session)
             t == IF Cardinality(all) >= EpisodeLimit THEN {} ELSE all
  <2>1. wpc[w] \in {"mark", "unmark"} /\ wpc'[w] \in {"marking", "unmark", "unmarking", "fail"}
        /\ (wpc'[w] = "marking" => wpc[w] = "mark")
    BY <1>0, <1>12 DEF MarkScan, Goto
  <2>2. wloc' = [wloc EXCEPT ![w].todo = t] /\ dreamed' = dreamed BY <1>12 DEF MarkScan
  <2>3. PICK s \in Sessions : s = wloc[w].session BY <1>0, <2>1 DEF WorkerOK, Working
  <2>4. t \subseteq EpisodesOf(s)' BY <1>1, <2>3
  <2> HIDE DEF t
  <2>5. wloc'[w].todo = t /\ wloc'[w].session = wloc[w].session /\ wloc'[w].snap = wloc[w].snap
    BY <1>0, <2>2 DEF Locals
  <2>6. wpc[w] = "mark" => /\ wloc[w].snap # {} /\ wloc[w].snap \subseteq EpisodesOf(wloc[w].session)
                           /\ dreamed[wloc[w].session] # {}
    BY <1>0 DEF WorkerOK
  <2>7. wpc[w] = "mark" => wloc[w].snap \subseteq EpisodesOf(s)' BY <1>1, <2>3, <2>6
  <2> QED BY <2>1, <2>2, <2>3, <2>4, <2>5, <2>6, <2>7 DEF WorkerOK, Working
<1>13. CASE MarkOne(w)
  <2>1. wpc[w] \in {"marking", "unmarking"} /\ dreamed' = dreamed BY <1>13 DEF MarkOne
  <2>2. wpc'[w] = wpc[w] \/ wpc'[w] = IF wpc[w] = "marking" THEN "done" ELSE "fail"
    BY <1>0, <1>13 DEF MarkOne, Goto
  <2>3. wloc'[w].todo \subseteq wloc[w].todo /\ wloc'[w].session = wloc[w].session
        /\ wloc'[w].snap = wloc[w].snap
    <3>1. wloc' = wloc \/ \E e : wloc' = [wloc EXCEPT ![w].todo = @ \ {e}] BY <1>13 DEF MarkOne
    <3> QED BY <1>0, <3>1 DEF Locals
  <2>s. PICK s \in Sessions : s = wloc[w].session BY <1>0, <2>1 DEF WorkerOK, Working
  <2>4. wloc[w].todo \subseteq EpisodesOf(s) BY <1>0, <2>1, <2>s DEF WorkerOK
  <2>5. EpisodesOf(s) \subseteq EpisodesOf(s)' BY <1>1
  <2>6. wpc[w] = "marking" => /\ wloc[w].snap # {} /\ wloc[w].snap \subseteq EpisodesOf(wloc[w].session)
                              /\ dreamed[wloc[w].session] # {}
    BY <1>0 DEF WorkerOK
  <2> QED BY <2>1, <2>2, <2>3, <2>4, <2>5, <2>6, <2>s DEF WorkerOK, Working
<1>14. CASE Raise(w)
  <2>1. wpc[w] \in Working /\ wpc'[w] \in {"fail", "unmark"} /\ wloc' = wloc
    BY <1>0, <1>14 DEF Raise, Goto, Working
  <2> QED BY <1>0, <2>1 DEF WorkerOK, Working
<1> QED BY <1>4, <1>5, <1>6, <1>7, <1>8, <1>9, <1>10, <1>11, <1>12, <1>13, <1>14 DEF WorkerStep

\* What the others do keeps what is true of a worker.
LEMMA WorkerOthersStep ==
  ASSUME TypeOK, \A u \in Workers : WorkerOK(u), [Next]_vars,
         NEW w \in Workers, wpc'[w] = wpc[w], wloc'[w] = wloc[w]
  PROVE  WorkerOK(w)'
<1>0. WorkerOK(w) OBVIOUS
<1>1. CASE wpc[w] \notin Working BY <1>0, <1>1 DEF WorkerOK, Working
<1>2. CASE wpc[w] \in Working
  <2>1. PICK s \in Sessions : s = wloc[w].session BY <1>0, <1>2 DEF WorkerOK
  <2>2. EpisodesOf(s) \subseteq EpisodesOf(s)' /\ (dreamed[s] # {} => dreamed'[s] # {})
    BY NothingForgotten
  <2> QED BY <1>0, <2>1, <2>2 DEF WorkerOK
<1> QED BY <1>1, <1>2

\* No worker has written anything back at the start.
LEMMA MarkInvInit == Init => MarkInv
<1> SUFFICES ASSUME Init PROVE MarkInv OBVIOUS
<1>1. TypeOK BY TypeInit
<1>2. ASSUME NEW w \in Workers PROVE WorkerOK(w) BY DEF Init, WorkerOK, Working
<1>3. DreamedOK /\ MarkAfterWriteBack BY DEF Init, DreamedOK, MarkAfterWriteBack
<1> QED BY <1>1, <1>2, <1>3 DEF MarkInv

\* Every step keeps what is known of the workers: their own steps, and those of
\* the others, which reach neither their locals nor the episodes they are to mark.
LEMMA MarkInvStep == MarkInv /\ [Next]_vars => MarkInv'
<1> SUFFICES ASSUME MarkInv, [Next]_vars PROVE MarkInv' OBVIOUS
<1>0. TypeOK /\ (\A w \in Workers : WorkerOK(w)) /\ DreamedOK /\ MarkAfterWriteBack BY DEF MarkInv
<1>1. SessionsOK BY <1>0 DEF SessionsOK, WorkerOK
<1>2. TypeOK' BY <1>0, <1>1, TypeStep
<1>3. ASSUME NEW w \in Workers PROVE WorkerOK(w)'
  <2>1. CASE WorkerStep(w) \/ Defer(w) \/ Raise(w) \/ Crash(w)
    <3>1. Next BY <2>1 DEF Next
    <3> QED BY <1>0, <1>2, <2>1, <3>1, WorkerOwnStep
  <2>2. CASE ~(WorkerStep(w) \/ Defer(w) \/ Raise(w) \/ Crash(w))
    BY <1>0, <2>2, OwnLocals, WorkerOthersStep
  <2> QED BY <2>1, <2>2
<1>4. DreamedOK' BY <1>0, NothingForgotten DEF DreamedOK
<1>5. MarkAfterWriteBack'
  <2> SUFFICES ASSUME NEW e \in Episodes, eps'[e] = "processed" PROVE dreamed'[SessionOf[e]] # {}
    BY DEF MarkAfterWriteBack
  <2>1. PICK s \in Sessions : s = SessionOf[e] BY ConstantsAssumption
  <2>2. dreamed[s] # {}
    <3>1. CASE eps[e] = "processed" BY <1>0, <2>1, <3>1 DEF MarkAfterWriteBack
    <3>2. CASE eps[e] # "processed"
      <4>1. PICK w \in Workers : wpc[w] = "marking" /\ e \in wloc[w].todo BY <1>0, <3>2, MarkEffect
      <4>2. WorkerOK(w) BY <1>0
      <4>3. s = wloc[w].session BY <2>1, <4>1, <4>2 DEF WorkerOK, EpisodesOf
      <4> QED BY <4>1, <4>2, <4>3 DEF WorkerOK
    <3> QED BY <3>1, <3>2
  <2>3. dreamed'[s] # {} BY <1>0, <2>2, NothingForgotten
  <2> QED BY <2>1, <2>3
<1> QED BY <1>2, <1>3, <1>4, <1>5 DEF MarkInv

\* With any number of workers the invariant about the marks holds throughout.
LEMMA MarksInductive == Spec => []MarkInv
<1> QED BY MarkInvInit, MarkInvStep, PTL DEF Spec

\* However many workers run and wherever they fail, crash or take each other's
\* jobs, an episode is marked processed only after a run of its session was
\* written back.
THEOREM MarkedAfterWriteBack == Spec => []MarkAfterWriteBack
<1>1. MarkInv => MarkAfterWriteBack BY DEF MarkInv
<1> QED BY <1>1, MarksInductive, PTL

-----------------------------------------------------------------------------
(***************************************************************************)
(* The job rows, with one worker.                                          *)
(***************************************************************************)
\* What a step leaves of a row: its status and attempts, or a fresh pending row
\* in place of none or of one that the rescue script had selected
RowStays(s) == \/ jobs'[s].status = jobs[s].status /\ jobs'[s].attempts = jobs[s].attempts
               \/ /\ jobs[s].status = "none" \/ (s \in rescue /\ RequeueUpdate)
                  /\ jobs'[s].status = "pending" /\ jobs'[s].attempts = 0

\* A processed row is taken back by nothing but the rescue script
KeptProcessed == \A s \in Sessions : jobs[s].status = "processed" /\ jobs'[s].status # "processed" =>
                   s \in rescue /\ RequeueUpdate

\* Callers, the scheduler, time and the operator leave what the worker counts on.
LEMMA OthersStep ==
  ASSUME TypeOK, NEW w \in Workers, WorkerOK(w), RowsOK, ClaimOK(w),
         \/ \E s \in Sessions : DreamEnqueue(s) \/ SchedulerEnqueue(s) \/ BecomesAvailable(s)
         \/ RequeueUpdate
  PROVE  RowsOK' /\ ClaimOK(w)' /\ KeptProcessed
<1>0. /\ jobs \in [Sessions -> Jobs] /\ wpc' = wpc /\ wloc' = wloc
      /\ MaxAttempts \in Nat \ {0}
  BY ConstantsAssumption DEF TypeOK, Jobs, DreamEnqueue, SchedulerEnqueue, BecomesAvailable, RequeueUpdate
<1>n. [NoJob EXCEPT !.status = "pending"].status = "pending"
      /\ [NoJob EXCEPT !.status = "pending"].attempts = 0
  BY DEF NoJob
<1>1. \A s \in Sessions : RowStays(s)
  <2>1. ASSUME NEW s \in Sessions, Enqueue(s) PROVE \A t \in Sessions : RowStays(t)
    <3> DEFINE new == [NoJob EXCEPT !.status = "pending"]
    <3>1. jobs' = jobs \/ (jobs[s].status = "none" /\ jobs' = [jobs EXCEPT ![s] = new])
      BY <2>1 DEF Enqueue, HasJob
    <3>2. new.status = "pending" /\ new.attempts = 0 BY <1>n
    <3> HIDE DEF new
    <3> QED BY <1>0, <3>1, <3>2 DEF RowStays
  <2>2. ASSUME NEW s \in Sessions, DreamEnqueue(s) \/ SchedulerEnqueue(s) PROVE Enqueue(s)
    BY <2>2 DEF DreamEnqueue, SchedulerEnqueue
  <2>3. ASSUME NEW s \in Sessions, BecomesAvailable(s) PROVE \A t \in Sessions : RowStays(t)
    BY <1>0, <2>3 DEF BecomesAvailable, RowStays, Jobs
  <2>4. ASSUME RequeueUpdate, NEW t \in Sessions PROVE RowStays(t)
    <3>1. jobs' = [s \in Sessions |->
                 IF s \in rescue THEN [NoJob EXCEPT !.status = "pending"] ELSE jobs[s]]
      BY <2>4 DEF RequeueUpdate
    <3>2. jobs'[t] = IF t \in rescue THEN [NoJob EXCEPT !.status = "pending"] ELSE jobs[t]
      BY <3>1
    <3> QED BY <1>n, <2>4, <3>2 DEF RowStays
  <2> QED BY <2>1, <2>2, <2>3, <2>4
<1>2. RowsOK' BY <1>0, <1>1 DEF RowsOK, RowStays
<1>3. ClaimOK(w)'
  <2>1. wpc[w] \in Working => wloc[w].session \in Sessions BY DEF WorkerOK
  <2>2. wpc[w] \in {"recover", "retry"} => wloc[w].todo \subseteq Sessions BY DEF WorkerOK
  <2> QED BY <1>0, <1>1, <2>1, <2>2 DEF ClaimOK, RowStays
<1>4. KeptProcessed BY <1>1 DEF RowStays, KeptProcessed
<1> QED BY <1>2, <1>3, <1>4

\* The worker's steps that leave the rows alone.
LEMMA LocalStep ==
  ASSUME TypeOK, NEW w \in Workers, WorkerOK(w), RowsOK, ClaimOK(w), jobs' = jobs,
         \/ wpc'[w] = wpc[w] /\ wloc'[w] = wloc[w]
         \/ RecoverSelect(w) \/ RetrySelect(w) \/ QuotaReserved(w) \/ Load(w) \/ Reason(w) \/ WriteBack(w)
         \/ MarkScan(w) \/ MarkOne(w) \/ Raise(w) \/ Crash(w)
  PROVE  RowsOK' /\ ClaimOK(w)'
<1>0. jobs \in [Sessions -> Jobs] /\ wpc \in [Workers -> WPCs] /\ wloc \in [Workers -> Locals]
  BY DEF TypeOK, Jobs, Locals
<1>1. RowsOK' BY DEF RowsOK
<1>2. CASE wpc'[w] = wpc[w] /\ wloc'[w] = wloc[w] BY <1>1, <1>2 DEF ClaimOK
<1>3. CASE RecoverSelect(w)
  <2> DEFINE left == {s \in Sessions : jobs[s].status = "processing"}
             sp == {s \in left : jobs[s].attempts >= MaxAttempts}
             new == [wloc[w] EXCEPT !.todo = left, !.spent = sp]
  <2>1. wloc' = [wloc EXCEPT ![w] = new] BY <1>0, <1>3 DEF RecoverSelect
  <2>2. \A s \in left : jobs[s].status = "processing" /\ (s \in sp \/ jobs[s].attempts < MaxAttempts)
    BY <1>0, ConstantsAssumption DEF Jobs
  <2> HIDE DEF left, sp
  <2>3. new.todo = left /\ new.spent = sp BY <1>0 DEF Locals
  <2> HIDE DEF new
  <2>4. wpc'[w] = "recover" BY <1>0, <1>3 DEF RecoverSelect, Goto
  <2>5. wloc'[w] = new BY <1>0, <2>1
  <2> QED BY <1>1, <2>2, <2>3, <2>4, <2>5 DEF ClaimOK, Working
<1>4. CASE RetrySelect(w)
  <2>1. PICK s \in Sessions : Retriable(s) /\ wloc' = [wloc EXCEPT ![w].todo = {s}]
    BY <1>4 DEF RetrySelect
  <2>2. wloc'[w].todo = {s} BY <1>0, <2>1 DEF Locals
  <2>3. wpc'[w] = "retry" BY <1>0, <1>4 DEF RetrySelect, Goto
  <2> QED BY <1>1, <2>1, <2>2, <2>3 DEF ClaimOK, Working, Retriable
<1>5. CASE \/ QuotaReserved(w) \/ Load(w) \/ Reason(w) \/ WriteBack(w) \/ MarkScan(w) \/ MarkOne(w) \/ Raise(w)
  <2>1. wpc[w] \in Working /\ wpc'[w] \in Working
    BY <1>0, <1>5 DEF QuotaReserved, Load, Reason, WriteBack, MarkScan, MarkOne, Raise, Goto, Working
  <2>2. wloc' = wloc \/ (\E x : wloc' = [wloc EXCEPT ![w].todo = x]) \/ (\E x : wloc' = [wloc EXCEPT ![w].snap = x])
    BY <1>5 DEF QuotaReserved, Load, Reason, WriteBack, MarkScan, MarkOne, Raise
  <2>3. wloc'[w].session = wloc[w].session BY <1>0, <2>2 DEF Locals
  <2> QED BY <1>1, <2>1, <2>3 DEF ClaimOK, Working
<1>6. CASE Crash(w)
  <2>1. wpc'[w] = "down" BY <1>0, <1>6 DEF Crash, Goto
  <2> QED BY <1>1, <2>1 DEF ClaimOK, Working
<1> QED BY <1>2, <1>3, <1>4, <1>5, <1>6

\* The worker's steps that change rows: it claims a row that waits, and gives up
\* or finishes rows that are its own.
LEMMA RowStep ==
  ASSUME TypeOK, NEW w \in Workers, WorkerOK(w), RowsOK, ClaimOK(w),
         \/ ClaimNext(w) \/ RecoverUpdate(w) \/ RetryUpdate(w) \/ Defer(w)
         \/ MarkProcessed(w) \/ MarkFailed(w)
  PROVE  /\ RowsOK' /\ ClaimOK(w)'
         /\ \A s \in Sessions : jobs[s].status = "processed" => jobs'[s].status = "processed"
<1> DEFINE Goal == /\ RowsOK' /\ ClaimOK(w)'
                   /\ \A s \in Sessions : jobs[s].status = "processed" => jobs'[s].status = "processed"
<1>0. /\ jobs \in [Sessions -> Jobs] /\ wpc \in [Workers -> WPCs] /\ wloc \in [Workers -> Locals]
      /\ MaxAttempts \in Nat \ {0}
  BY ConstantsAssumption DEF TypeOK, Jobs, Locals
<1>a. \A s \in Sessions : jobs[s].attempts \in Nat BY <1>0 DEF Jobs
<1>1. ASSUME wpc'[w] = "idle" PROVE ClaimOK(w)' BY <1>1 DEF ClaimOK, Working
<1>2. CASE ClaimNext(w)
  <2>1. PICK s \in Sessions :
           /\ Claimable(s)
           /\ jobs'[s].status = "processing" /\ jobs'[s].attempts = jobs[s].attempts + 1
           /\ \A t \in Sessions \ {s} : jobs'[t] = jobs[t]
           /\ wloc' = [wloc EXCEPT ![w].session = s]
    BY <1>2, ClaimEffect
  <2>2. wpc'[w] = "quota" BY <1>0, <1>2 DEF ClaimNext, Goto
  <2>3. wloc'[w].session = s BY <1>0, <2>1 DEF Locals
  <2>4. ClaimOK(w)' BY <2>1, <2>2, <2>3 DEF ClaimOK
  <2>5. jobs[s].status = "pending" /\ jobs[s].attempts < MaxAttempts
    BY <2>1 DEF Claimable, RowsOK
  <2>6. RowsOK'
    <3> SUFFICES ASSUME NEW t \in Sessions
                 PROVE  /\ jobs'[t].attempts <= MaxAttempts
                        /\ jobs'[t].status = "pending" => jobs'[t].attempts < MaxAttempts
      BY DEF RowsOK
    <3>1. CASE t = s BY <1>0, <1>a, <2>1, <2>5, <3>1
    <3>2. CASE t # s BY <2>1, <3>2 DEF RowsOK
    <3> QED BY <3>1, <3>2
  <2> QED BY <2>1, <2>4, <2>5, <2>6
<1>3. CASE RecoverUpdate(w)
  <2>1. /\ wpc[w] = "recover"
        /\ jobs' = [s \in Sessions |->
               IF s \notin wloc[w].todo THEN jobs[s]
               ELSE [jobs[s] EXCEPT !.status = IF s \in wloc[w].spent THEN "failed" ELSE "pending"]]
    BY <1>3 DEF RecoverUpdate
  <2>2. \A s \in Sessions : /\ jobs'[s].attempts = jobs[s].attempts
                            /\ IF s \notin wloc[w].todo THEN jobs'[s].status = jobs[s].status
                               ELSE jobs'[s].status = IF s \in wloc[w].spent THEN "failed" ELSE "pending"
    BY <1>0, <2>1 DEF Jobs
  <2>3. wpc'[w] = "idle" BY <1>0, <1>3 DEF RecoverUpdate, Idle, Goto
  <2>4. RowsOK' BY <2>1, <2>2 DEF RowsOK, ClaimOK
  <2>5. \A s \in Sessions : jobs[s].status = "processed" => jobs'[s].status = "processed"
    BY <2>1, <2>2 DEF ClaimOK
  <2> QED BY <1>1, <2>3, <2>4, <2>5
<1>4. CASE RetryUpdate(w)
  <2>1. /\ wpc[w] = "retry"
        /\ jobs' = [s \in Sessions |->
               IF s \in wloc[w].todo THEN [jobs[s] EXCEPT !.status = "pending"] ELSE jobs[s]]
    BY <1>4 DEF RetryUpdate
  <2>2. \A s \in Sessions : /\ jobs'[s].attempts = jobs[s].attempts
                            /\ IF s \notin wloc[w].todo THEN jobs'[s].status = jobs[s].status
                               ELSE jobs'[s].status = "pending"
    BY <1>0, <2>1 DEF Jobs
  <2>3. wpc'[w] = "idle" BY <1>0, <1>4 DEF RetryUpdate, Idle, Goto
  <2>4. RowsOK' BY <2>1, <2>2 DEF RowsOK, ClaimOK
  <2>5. \A s \in Sessions : jobs[s].status = "processed" => jobs'[s].status = "processed"
    BY <2>1, <2>2 DEF ClaimOK
  <2> QED BY <1>1, <2>3, <2>4, <2>5
<1>5. CASE Defer(w)
  <2>1. wloc[w].session \in Sessions BY <1>5 DEF Defer, WorkerOK, Working
  <2>2. \A t \in Sessions : jobs'[t] = jobs[t] \/
          /\ jobs[t].status = "processing" /\ jobs'[t].status = "pending"
          /\ jobs'[t].attempts = IF jobs[t].attempts = 0 THEN 0 ELSE jobs[t].attempts - 1
    BY <1>5, <2>1, DeferEffect
  <2>3. wpc'[w] = "idle" BY <1>0, <1>5 DEF Defer, Idle, Goto
  <2>4. RowsOK' BY <1>0, <1>a, <2>2 DEF RowsOK
  <2> QED BY <1>1, <2>2, <2>3, <2>4
<1>6. CASE MarkProcessed(w) \/ MarkFailed(w)
  <2>1. wloc[w].session \in Sessions /\ jobs[wloc[w].session].status # "processed"
    BY <1>6 DEF MarkProcessed, MarkFailed, WorkerOK, ClaimOK, Working
  <2>2. \E st \in {"processed", "failed"} : jobs' = [jobs EXCEPT ![wloc[w].session].status = st]
    BY <1>6 DEF MarkProcessed, MarkFailed, SetJob
  <2>3. \A t \in Sessions : /\ jobs'[t].attempts = jobs[t].attempts
                            /\ IF t = wloc[w].session THEN jobs'[t].status \in {"processed", "failed"}
                               ELSE jobs'[t].status = jobs[t].status
    BY <1>0, <2>1, <2>2 DEF Jobs
  <2>4. wpc'[w] = "idle" BY <1>0, <1>6 DEF MarkProcessed, MarkFailed, Idle, Goto
  <2>5. RowsOK' BY <2>3 DEF RowsOK
  <2> QED BY <1>1, <2>1, <2>3, <2>4, <2>5
<1> QED BY <1>2, <1>3, <1>4, <1>5, <1>6

\* A step of the one worker, or one of the others.
LEMMA QueueStep ==
  ASSUME NEW w, Workers = {w}, MarkInv, RowsOK, ClaimOK(w), [Next]_vars
  PROVE  RowsOK' /\ ClaimOK(w)' /\ KeptProcessed
<1>0. TypeOK /\ w \in Workers /\ WorkerOK(w) BY DEF MarkInv
<1>1. CASE \/ \E s \in Sessions : DreamEnqueue(s) \/ SchedulerEnqueue(s) \/ BecomesAvailable(s)
           \/ RequeueUpdate
  BY <1>0, <1>1, OthersStep
<1>2. CASE \/ ClaimNext(w) \/ RecoverUpdate(w) \/ RetryUpdate(w) \/ Defer(w)
           \/ MarkProcessed(w) \/ MarkFailed(w)
  BY <1>0, <1>2, RowStep DEF KeptProcessed
<1>3. CASE \/ RecoverSelect(w) \/ RetrySelect(w) \/ QuotaReserved(w) \/ Load(w) \/ Reason(w) \/ WriteBack(w)
           \/ MarkScan(w) \/ MarkOne(w) \/ Raise(w) \/ Crash(w)
  <2>1. jobs' = jobs
    BY <1>3 DEF RecoverSelect, RetrySelect, QuotaReserved, Load, Reason, WriteBack, MarkScan, MarkOne, Raise, Crash
  <2>2. RowsOK' /\ ClaimOK(w)' BY <1>0, <1>3, <2>1, LocalStep
  <2> QED BY <2>1, <2>2 DEF KeptProcessed
<1>4. CASE \/ \E e \in Episodes : StoreEpisode(e)
           \/ \E s \in Sessions : QuietPeriodEnds(s)
           \/ SchedulerScan \/ RequeueSelect \/ UNCHANGED vars
  <2>1. jobs' = jobs /\ wpc' = wpc /\ wloc' = wloc
    BY <1>4 DEF StoreEpisode, QuietPeriodEnds, SchedulerScan, RequeueSelect, vars, env
  <2>2. RowsOK' /\ ClaimOK(w)' BY <1>0, <2>1, LocalStep
  <2> QED BY <2>1, <2>2 DEF KeptProcessed
<1> QED BY <1>0, <1>1, <1>2, <1>3, <1>4 DEF Next, WorkerStep

\* A job becomes processed only by its worker, and an episode loses its
\* processed mark only by a worker that marks the session failed.
LEMMA BecomesProcessed ==
  ASSUME NEW w, Workers = {w}, TypeOK, SessionsOK, [Next]_vars
  PROVE  /\ \A s \in Sessions : jobs'[s].status = "processed" /\ jobs[s].status # "processed" =>
              MarkProcessed(w) /\ s = wloc[w].session
         /\ \A e \in Episodes : eps[e] = "processed" /\ eps'[e] # "processed" =>
              wpc[w] = "unmarking" /\ e \in wloc[w].todo
<1>0. jobs \in [Sessions -> Jobs] /\ w \in Workers
      /\ eps \in [Episodes -> {"absent", "pending", "processed", "failed"}]
  BY DEF TypeOK, Jobs
<1>n. [NoJob EXCEPT !.status = "pending"].status = "pending" BY DEF NoJob
<1>1. ASSUME NEW s \in Sessions, jobs'[s].status = "processed", jobs[s].status # "processed"
      PROVE  MarkProcessed(w) /\ s = wloc[w].session
  <2>1. ASSUME NEW t \in Sessions, Enqueue(t) PROVE FALSE
    <3> DEFINE new == [NoJob EXCEPT !.status = "pending"]
    <3>1. jobs' = jobs \/ jobs' = [jobs EXCEPT ![t] = new] BY <2>1 DEF Enqueue
    <3>2. new.status = "pending" BY <1>n
    <3> HIDE DEF new
    <3> QED BY <1>0, <1>1, <3>1, <3>2
  <2>2. ASSUME NEW t \in Sessions, DreamEnqueue(t) \/ SchedulerEnqueue(t) PROVE FALSE
    BY <2>1, <2>2 DEF DreamEnqueue, SchedulerEnqueue
  <2>3. ASSUME NEW t \in Sessions, BecomesAvailable(t) PROVE FALSE
    BY <1>0, <1>1, <2>3 DEF BecomesAvailable, Jobs
  <2>4. ASSUME RequeueUpdate PROVE FALSE
    BY <1>0, <1>1, <1>n, <2>4 DEF RequeueUpdate
  <2>5. ASSUME RecoverUpdate(w) \/ RetryUpdate(w) PROVE FALSE
    BY <1>0, <1>1, <2>5 DEF RecoverUpdate, RetryUpdate, Jobs
  <2>6. ASSUME ClaimNext(w) PROVE FALSE
    <3>1. PICK t \in Sessions : jobs'[t].status = "processing" /\ \A u \in Sessions \ {t} : jobs'[u] = jobs[u]
      BY <1>0, <2>6, ClaimEffect
    <3> QED BY <1>1, <3>1
  <2>7. ASSUME Defer(w) PROVE FALSE
    <3>1. wloc[w].session \in Sessions BY <1>0, <2>7 DEF Defer, SessionsOK, Working
    <3> QED BY <1>0, <1>1, <2>7, <3>1, DeferEffect
  <2>8. ASSUME MarkFailed(w) PROVE FALSE
    BY <1>0, <1>1, <2>8 DEF MarkFailed, SetJob, Jobs
  <2>9. ASSUME MarkProcessed(w) PROVE s = wloc[w].session
    BY <1>0, <1>1, <2>9 DEF MarkProcessed, SetJob, Jobs
  <2>10. ASSUME \/ RecoverSelect(w) \/ RetrySelect(w) \/ QuotaReserved(w) \/ Load(w) \/ Reason(w)
                \/ WriteBack(w) \/ MarkScan(w) \/ MarkOne(w) \/ Raise(w) \/ Crash(w)
                \/ (\E e \in Episodes : StoreEpisode(e)) \/ (\E t \in Sessions : QuietPeriodEnds(t))
                \/ SchedulerScan \/ RequeueSelect \/ UNCHANGED vars
         PROVE  FALSE
    <3>1. jobs' = jobs
      BY <2>10 DEF RecoverSelect, RetrySelect, QuotaReserved, Load, Reason, WriteBack, MarkScan, MarkOne,
         Raise, Crash, StoreEpisode, QuietPeriodEnds, SchedulerScan, RequeueSelect, vars
    <3> QED BY <1>1, <3>1
  <2> QED BY <1>0, <2>2, <2>3, <2>4, <2>5, <2>6, <2>7, <2>8, <2>9, <2>10 DEF Next, WorkerStep
<1>2. ASSUME NEW e \in Episodes, eps[e] = "processed", eps'[e] # "processed"
      PROVE  wpc[w] = "unmarking" /\ e \in wloc[w].todo
  <2>1. ASSUME NEW x \in Episodes, StoreEpisode(x) PROVE FALSE
    BY <1>0, <1>2, <2>1 DEF StoreEpisode
  <2>2. ASSUME MarkOne(w) PROVE wpc[w] = "unmarking" /\ e \in wloc[w].todo
    BY <1>0, <1>2, <2>2 DEF MarkOne
  <2>3. ASSUME ~(\E x \in Episodes : StoreEpisode(x)), ~MarkOne(w) PROVE eps' = eps
    BY <1>0, <2>3 DEF Next, WorkerStep, DreamEnqueue, QuietPeriodEnds, BecomesAvailable, SchedulerEnqueue,
       SchedulerScan, RequeueSelect, RequeueUpdate, Defer, Raise, Crash, RecoverSelect, RecoverUpdate, ClaimNext, WriteBack,
       RetrySelect, RetryUpdate, QuotaReserved, Load, Reason, MarkScan, MarkProcessed, MarkFailed, vars
  <2> QED BY <1>2, <2>1, <2>2, <2>3
<1> QED BY <1>1, <1>2

\* What is left to mark is known: an episode of the run is marked or still to do.
LEMMA MarksStep ==
  ASSUME NEW w, Workers = {w}, MarkInv, MarksOK(w), [Next]_vars
  PROVE  MarksOK(w)'
<1>0. /\ TypeOK /\ w \in Workers /\ WorkerOK(w)
      /\ wpc \in [Workers -> WPCs] /\ wloc \in [Workers -> Locals]
      /\ eps \in [Episodes -> {"absent", "pending", "processed", "failed"}]
      /\ dreamed \in [Sessions -> SUBSET Episodes] /\ wloc[w].snap \subseteq Episodes
  BY DEF MarkInv, TypeOK, Locals
<1>s. SessionsOK BY <1>0 DEF MarkInv, SessionsOK, WorkerOK
<1>k. ASSUME NEW e \in Episodes, eps[e] = "processed", wpc[w] # "unmarking" PROVE eps'[e] = "processed"
  BY <1>0, <1>k, <1>s, BecomesProcessed
<1>1. ASSUME wpc'[w] \notin {"mark", "marking", "done"} PROVE MarksOK(w)' BY <1>1 DEF MarksOK
<1>2. CASE wpc'[w] = wpc[w] /\ wloc'[w] = wloc[w] /\ dreamed' = dreamed
  BY <1>0, <1>2, <1>k DEF MarksOK
<1>3. CASE WriteBack(w)
  <2>1. wpc[w] = "write" /\ wpc'[w] = "mark" /\ wloc' = wloc
        /\ dreamed' = [dreamed EXCEPT ![wloc[w].session] = wloc[w].snap]
    BY <1>0, <1>3 DEF WriteBack, Goto
  <2>2. wloc[w].session \in Sessions BY <1>0, <2>1 DEF WorkerOK, Working
  <2> QED BY <1>0, <2>1, <2>2 DEF MarksOK
<1>4. CASE MarkScan(w)
  <2> DEFINE all == EpisodesOf(wloc[w].session)
             refused == Cardinality(all) >= EpisodeLimit
             t == IF refused THEN {} ELSE all
  <2>1. wpc'[w] = "marking" => wpc[w] = "mark" /\ ~refused
    BY <1>0, <1>4 DEF MarkScan, Goto
  <2>2. wpc'[w] \in {"marking", "unmark", "unmarking", "fail"} BY <1>0, <1>4 DEF MarkScan, Goto
  <2>3. wloc' = [wloc EXCEPT ![w].todo = t] /\ dreamed' = dreamed BY <1>4 DEF MarkScan
  <2>4. wloc[w].snap \subseteq all \/ wpc[w] # "mark" BY <1>0 DEF WorkerOK
  <2>5. ~refused => t = all OBVIOUS
  <2> HIDE DEF t, refused, all
  <2>6. wloc'[w].todo = t /\ wloc'[w].session = wloc[w].session /\ wloc'[w].snap = wloc[w].snap
    BY <1>0, <2>3 DEF Locals
  <2> QED BY <2>1, <2>2, <2>3, <2>4, <2>5, <2>6 DEF MarksOK
<1>5. CASE MarkOne(w)
  <2>1. wpc[w] \in {"marking", "unmarking"} /\ dreamed' = dreamed BY <1>5 DEF MarkOne
  <2>2. CASE wpc[w] = "unmarking"
    <3>1. wpc'[w] \in {"unmarking", "fail"} BY <1>0, <1>5, <2>2 DEF MarkOne, Goto
    <3> QED BY <1>1, <3>1
  <2>3. CASE wpc[w] = "marking" /\ wpc' = wpc
    <3>1. PICK e \in wloc[w].todo :
            eps' = [eps EXCEPT ![e] = "processed"] /\ wloc' = [wloc EXCEPT ![w].todo = @ \ {e}]
      BY <1>0, <1>5, <2>3 DEF MarkOne, Goto
    <3>2. wloc'[w].todo = wloc[w].todo \ {e} /\ wloc'[w].session = wloc[w].session
          /\ wloc'[w].snap = wloc[w].snap
      BY <1>0, <3>1 DEF Locals
    <3>3. \A x \in Episodes : eps'[x] = IF x = e THEN "processed" ELSE eps[x] BY <1>0, <3>1
    <3> QED BY <1>0, <2>1, <2>3, <3>2, <3>3 DEF MarksOK
  <2>4. CASE wpc[w] = "marking" /\ wpc' # wpc
    <3>1. wloc[w].todo = {} /\ wpc'[w] = "done" /\ wloc' = wloc /\ eps' = eps
      BY <1>0, <1>5, <2>4 DEF MarkOne, Goto
    <3> QED BY <2>1, <2>4, <3>1 DEF MarksOK
  <2> QED BY <2>1, <2>2, <2>3, <2>4
<1>6. CASE \/ RecoverSelect(w) \/ RecoverUpdate(w) \/ ClaimNext(w) \/ RetrySelect(w) \/ RetryUpdate(w)
           \/ QuotaReserved(w) \/ Load(w) \/ Reason(w) \/ MarkProcessed(w) \/ MarkFailed(w)
           \/ Defer(w) \/ Raise(w) \/ Crash(w)
  <2>1. wpc'[w] \notin {"mark", "marking", "done"}
    BY <1>0, <1>6 DEF RecoverSelect, RecoverUpdate, ClaimNext, RetrySelect, RetryUpdate, QuotaReserved,
       Load, Reason, MarkProcessed, MarkFailed, Defer, Raise, Crash, Idle, Goto
  <2> QED BY <1>1, <2>1
<1>7. CASE ~(WorkerStep(w) \/ Defer(w) \/ Raise(w) \/ Crash(w))
  <2>1. dreamed' = dreamed
    BY <1>0, <1>7 DEF Next, WorkerStep, StoreEpisode, DreamEnqueue, QuietPeriodEnds, BecomesAvailable,
       SchedulerEnqueue, SchedulerScan, RequeueSelect, RequeueUpdate, vars
  <2> QED BY <1>0, <1>2, <1>7, <2>1, OwnLocals
<1> QED BY <1>3, <1>4, <1>5, <1>6, <1>7 DEF WorkerStep

\* A processed job stays covered: nothing marks its episodes failed any more,
\* and no other run replaces what was written back.
LEMMA ProcessedStep ==
  ASSUME NEW w, Workers = {w}, MarkInv, ClaimOK(w), MarksOK(w), ProcessedMeansDreamed, [Next]_vars
  PROVE  ProcessedMeansDreamed'
<1>0. TypeOK /\ w \in Workers /\ WorkerOK(w) /\ DreamedOK BY DEF MarkInv
<1>s. SessionsOK BY <1>0 DEF MarkInv, SessionsOK, WorkerOK
<1> SUFFICES ASSUME NEW s \in Sessions, jobs'[s].status = "processed"
             PROVE  dreamed'[s] # {} /\ \A e \in dreamed'[s] : eps'[e] = "processed"
  BY DEF ProcessedMeansDreamed
<1>1. CASE jobs[s].status = "processed"
  <2>1. dreamed[s] # {} /\ \A e \in dreamed[s] : eps[e] = "processed"
    BY <1>1 DEF ProcessedMeansDreamed
  <2>2. wpc[w] \in Working => wloc[w].session # s BY <1>1 DEF ClaimOK
  <2>3. dreamed'[s] = dreamed[s]
    <3>1. wpc[w] = "write" => wloc[w].session # s BY <2>2 DEF Working
    <3> QED BY <1>0, <3>1, MarkEffect
  <2>4. ASSUME NEW e \in dreamed[s], eps'[e] # "processed" PROVE FALSE
    <3>1. e \in Episodes /\ SessionOf[e] = s BY <1>0 DEF DreamedOK, EpisodesOf
    <3>2. wpc[w] = "unmarking" /\ e \in wloc[w].todo BY <1>0, <1>s, <2>1, <2>4, <3>1, BecomesProcessed
    <3>3. e \in EpisodesOf(wloc[w].session) BY <1>0, <3>2 DEF WorkerOK
    <3> QED BY <2>2, <3>1, <3>2, <3>3 DEF EpisodesOf, Working
  <2> QED BY <2>1, <2>3, <2>4
<1>2. CASE jobs[s].status # "processed"
  <2>1. MarkProcessed(w) /\ s = wloc[w].session BY <1>0, <1>2, <1>s, BecomesProcessed
  <2>2. wpc[w] = "done" /\ eps' = eps /\ dreamed' = dreamed BY <2>1 DEF MarkProcessed
  <2> QED BY <1>0, <2>1, <2>2 DEF MarksOK, WorkerOK
<1> QED BY <1>1, <1>2

\* At the start there is no job.
LEMMA QueueInvInit == ASSUME NEW w, Workers = {w} PROVE Init => QueueInv(w)
<1> SUFFICES ASSUME Init PROVE QueueInv(w) OBVIOUS
<1>1. MarkInv BY MarkInvInit
<1>2. RowsOK BY ConstantsAssumption DEF Init, RowsOK, NoJob
<1>3. wpc[w] = "down" BY DEF Init
<1>4. ClaimOK(w) /\ MarksOK(w) BY <1>3 DEF ClaimOK, MarksOK, Working
<1>5. ProcessedMeansDreamed BY DEF Init, ProcessedMeansDreamed, NoJob
<1> QED BY <1>1, <1>2, <1>4, <1>5 DEF QueueInv

\* With one worker the invariant about the queue holds throughout.
LEMMA QueueInductive == ASSUME NEW w, Workers = {w} PROVE Spec => []QueueInv(w)
<1>1. QueueInv(w) /\ [Next]_vars => QueueInv(w)'
  BY MarkInvStep, QueueStep, MarksStep, ProcessedStep DEF QueueInv
<1> QED BY <1>1, QueueInvInit, PTL DEF Spec

-----------------------------------------------------------------------------
(***************************************************************************)
(* The theorems about the queue.                                           *)
(***************************************************************************)

\* With one worker, whatever fails, crashes, is deferred or requeued, and in
\* whatever order, the rescue script between its SELECT and its UPDATE included:
\* a row keeps a status the queue knows, and the attempts it counts (those since
\* it was last requeued, less what deferrals gave back) never exceed the limit.
THEOREM QueueStaysConsistent == ASSUME NEW w, Workers = {w} PROVE Spec => []QueueConsistent
<1>1. QueueInv(w) => QueueConsistent
  BY DEF QueueInv, MarkInv, RowsOK, QueueConsistent, AttemptsBounded
<1> QED BY <1>1, QueueInductive, PTL

\* With one worker, a job is processed only when a run of it was written back
\* and every episode that run had read is marked processed.
THEOREM ProcessedWasDreamed == ASSUME NEW w, Workers = {w} PROVE Spec => []ProcessedMeansDreamed
<1>1. QueueInv(w) => ProcessedMeansDreamed BY DEF QueueInv
<1> QED BY <1>1, QueueInductive, PTL

\* With one worker, a processed job is taken back by nothing but the UPDATE of a
\* rescue script that had selected its row before: no late failure, deferral,
\* retry, recovery or enqueueing does it.
THEOREM ProcessedStays == ASSUME NEW w, Workers = {w} PROVE Spec => ProcessedIsFinal
<1>1. QueueInv(w) /\ [Next]_vars =>
        [\A s \in Sessions : jobs[s].status = "processed" /\ jobs'[s].status # "processed" =>
           s \in rescue /\ RequeueUpdate]_vars
  BY QueueStep DEF QueueInv, KeptProcessed
<1> QED BY <1>1, QueueInductive, PTL DEF Spec, ProcessedIsFinal
=============================================================================
