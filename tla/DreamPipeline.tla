---------------------------- MODULE DreamPipeline ----------------------------
(***************************************************************************)
(* The Dreaming pipeline around its job queue: Episodes stored by the API  *)
(* (memory/service.py), the nightly scheduler that turns quiet pending     *)
(* sessions into jobs (dreaming/scheduler.py), the SQLite queue            *)
(* (dreaming/queue.py), the worker loop (dreaming/main.py, worker.py) and  *)
(* the per-Episode status marks (dreaming/session.py).                     *)
(*                                                                         *)
(* The episodes live in Qdrant, the jobs in SQLite: no step changes both.  *)
(* What a run concludes (engine, gate, writeback) is one step that may     *)
(* fail; here only which episodes it had read matters.                     *)
(***************************************************************************)
EXTENDS Integers, Sequences, FiniteSets

CONSTANTS
  Sessions, Episodes,
  SessionOf,        \* [Episodes -> Sessions]
  Workers,          \* worker processes (run_worker)
  NoSession,
  MaxAttempts,      \* dream_worker_max_attempts
  EpisodeLimit,     \* limit of DreamSessionLoader (1000)
  ScanCap,          \* CYBERBRAIN_DREAM_SCHEDULER_MAX_POINTS
  RequeueLimit,     \* limit of requeue_all_failed (100)
  MaxErrors, MaxCrashes, MaxDefers, MaxRequeues   \* bounds on the environment

ASSUME ConstantsAssumption ==
  /\ SessionOf \in [Episodes -> Sessions]
  /\ IsFiniteSet(Episodes) /\ IsFiniteSet(Sessions)
  /\ NoSession \notin Sessions
  /\ MaxAttempts \in Nat \ {0} /\ EpisodeLimit \in Nat \ {0} /\ ScanCap \in Nat \ {0}
  /\ RequeueLimit \in Nat \ {0}
  /\ MaxErrors \in Nat /\ MaxCrashes \in Nat /\ MaxDefers \in Nat /\ MaxRequeues \in Nat

VARIABLES
  eps,      \* episode -> absent | pending | processed | failed   (dream_status)
  quiet,    \* session -> its latest event is older than the quiet period
  jobs,     \* session -> row of dream_jobs, UNIQUE(session_id, scope_key)
  order,    \* sessions in created_at order of their jobs
  cand,     \* sessions the scheduler is about to enqueue
  wpc, wloc,\* program counter and locals of each worker
  dreamed,  \* session -> episodes read by its last run that was written back
  forced,   \* sessions a dream_enqueue call is waiting on
  rescue,   \* sessions whose jobs the operator's script selected and will requeue
  errors, crashes, defers, requeues

\* The rescue script, and what the bounds count
env == <<rescue, errors, crashes, defers, requeues>>
vars == <<eps, quiet, jobs, order, cand, wpc, wloc, dreamed, forced, env>>

JobStatus == {"none", "pending", "processing", "processed", "failed"}
NoJob == [status |-> "none", attempts |-> 0, ready |-> TRUE]

WPCs == {"down", "recover", "idle", "retry", "quota", "load", "reason", "write",
         "mark", "marking", "done", "unmark", "unmarking", "fail"}

NoWork == [session |-> NoSession, snap |-> {}, todo |-> {}, spent |-> {}]

EpisodesOf(s) == {e \in Episodes : SessionOf[e] = s /\ eps[e] # "absent"}
HasJob(s) == jobs[s].status # "none"

SetJob(s, st) == jobs' = [jobs EXCEPT ![s].status = st]
Goto(w, l) == wpc' = [wpc EXCEPT ![w] = l]
Idle(w) == Goto(w, "idle") /\ wloc' = [wloc EXCEPT ![w] = NoWork]

(***************************************************************************)
(* API: memory_store and dream_enqueue.                                    *)
(***************************************************************************)
StoreEpisode(e) ==
  /\ eps[e] = "absent"
  /\ eps' = [eps EXCEPT ![e] = "pending"]
  /\ quiet' = [quiet EXCEPT ![SessionOf[e]] = FALSE]
  /\ UNCHANGED <<jobs, order, cand, wpc, wloc, dreamed, forced, env>>

\* Wrong variant: enqueueing again sets the row back to pending
EnqueueReset(s) ==
  /\ jobs' = [jobs EXCEPT ![s] = [NoJob EXCEPT !.status = "pending"]]
  /\ order' = IF HasJob(s) THEN order ELSE Append(order, s)

\* DreamQueue.enqueue: a row that exists keeps its status
Enqueue(s) ==
  IF HasJob(s) THEN UNCHANGED <<jobs, order>>
  ELSE /\ jobs' = [jobs EXCEPT ![s] = [NoJob EXCEPT !.status = "pending"]]
       /\ order' = Append(order, s)

\* dream_enqueue (DreamOperations.enqueue): forced counts until a run is claimed
DreamEnqueue(s) ==
  /\ s \notin forced
  /\ Enqueue(s)
  /\ forced' = forced \cup {s}
  /\ UNCHANGED <<eps, quiet, cand, wpc, wloc, dreamed, env>>

\* Time passes: the quiet period of a session ends; a deferred job is due again
QuietPeriodEnds(s) ==
  /\ ~quiet[s]
  /\ quiet' = [quiet EXCEPT ![s] = TRUE]
  /\ UNCHANGED <<eps, jobs, order, cand, wpc, wloc, dreamed, forced, env>>

BecomesAvailable(s) ==
  /\ ~jobs[s].ready
  /\ jobs' = [jobs EXCEPT ![s].ready = TRUE]
  /\ UNCHANGED <<eps, quiet, order, cand, wpc, wloc, dreamed, forced, env>>

(***************************************************************************)
(* Scheduler: run_once.                                                    *)
(***************************************************************************)
PendingEpisodes == {e \in Episodes : eps[e] = "pending"}

\* Wrong variant: the comparison with the quiet cutoff is reversed
CandidatesReversed == {s \in Sessions : ~quiet[s] /\ \E e \in PendingEpisodes : SessionOf[e] = s}

Candidates == {s \in Sessions : quiet[s] /\ \E e \in PendingEpisodes : SessionOf[e] = s}

\* A scan that reaches the cap raises and enqueues nothing; one that would find
\* every candidate skipped_existing changes nothing either
SchedulerScan ==
  /\ cand = {}
  /\ Cardinality(PendingEpisodes) < ScanCap
  /\ \E s \in Candidates : ~HasJob(s)
  /\ cand' = Candidates
  /\ UNCHANGED <<eps, quiet, jobs, order, wpc, wloc, dreamed, forced, env>>

\* A session with any job of any status is skipped_existing
SchedulerEnqueue(s) ==
  /\ s \in cand
  /\ cand' = cand \ {s}
  /\ Enqueue(s)
  /\ UNCHANGED <<eps, quiet, wpc, wloc, dreamed, forced, env>>

(***************************************************************************)
(* Worker: run_worker.                                                     *)
(***************************************************************************)
\* recover_processing selects the processing rows with their attempts ...
RecoverSelect(w) ==
  LET left == {s \in Sessions : jobs[s].status = "processing"}
  IN /\ wpc[w] = "down"
     /\ Goto(w, "recover")
     /\ wloc' = [wloc EXCEPT ![w].todo = left,
                             ![w].spent = {s \in left : jobs[s].attempts >= MaxAttempts}]
     /\ UNCHANGED <<eps, quiet, jobs, order, cand, dreamed, forced, env>>

\* Wrong variant: the claims of the dead process are left as they are
RecoverNone(w) ==
  /\ wpc[w] = "recover"
  /\ Idle(w)
  /\ UNCHANGED <<eps, quiet, jobs, order, cand, dreamed, forced, env>>

\* ... and updates each of them by id
RecoverUpdate(w) ==
  /\ wpc[w] = "recover"
  /\ jobs' = [s \in Sessions |->
               IF s \notin wloc[w].todo THEN jobs[s]
               ELSE [jobs[s] EXCEPT !.status =
                       IF s \in wloc[w].spent THEN "failed" ELSE "pending"]]
  /\ Idle(w)
  /\ UNCHANGED <<eps, quiet, order, cand, dreamed, forced, env>>

Claimable(s) == jobs[s].status = "pending" /\ jobs[s].ready

\* claim_next: BEGIN IMMEDIATE, the oldest available pending row
ClaimNext(w) ==
  /\ wpc[w] = "idle"
  /\ \E n \in DOMAIN order :
       /\ Claimable(order[n])
       /\ \A m \in 1..(n - 1) : ~Claimable(order[m])
       /\ jobs' = [jobs EXCEPT ![order[n]].status = "processing", ![order[n]].attempts = @ + 1]
       /\ wloc' = [wloc EXCEPT ![w].session = order[n]]
       /\ forced' = forced \ {order[n]}
  /\ Goto(w, "quota")
  /\ UNCHANGED <<eps, quiet, order, cand, dreamed, env>>

Retriable(s) == jobs[s].status = "failed" /\ jobs[s].attempts < MaxAttempts

\* Wrong variant: off by one in the attempt limit
RetrySelectLoose(w) ==
  /\ wpc[w] = "idle"
  /\ ~\E s \in Sessions : Claimable(s)
  /\ \E s \in Sessions :
       /\ jobs[s].status = "failed" /\ jobs[s].attempts <= MaxAttempts
       /\ wloc' = [wloc EXCEPT ![w].todo = {s}]
  /\ Goto(w, "retry")
  /\ UNCHANGED <<eps, quiet, jobs, order, cand, dreamed, forced, env>>

\* Nothing to claim: retry_failed(limit=1) selects a failed row ...
RetrySelect(w) ==
  /\ wpc[w] = "idle"
  /\ ~\E s \in Sessions : Claimable(s)
  /\ \E s \in Sessions :
       /\ Retriable(s)
       /\ wloc' = [wloc EXCEPT ![w].todo = {s}]
  /\ Goto(w, "retry")
  /\ UNCHANGED <<eps, quiet, jobs, order, cand, dreamed, forced, env>>

\* ... and makes it pending, by id only
RetryUpdate(w) ==
  /\ wpc[w] = "retry"
  /\ jobs' = [s \in Sessions |->
               IF s \in wloc[w].todo THEN [jobs[s] EXCEPT !.status = "pending"] ELSE jobs[s]]
  /\ Idle(w)
  /\ UNCHANGED <<eps, quiet, order, cand, dreamed, forced, env>>

\* Quota reservation; QuotaExceededError defers the job and gives the attempt back
QuotaReserved(w) ==
  /\ wpc[w] = "quota"
  /\ Goto(w, "load")
  /\ UNCHANGED <<eps, quiet, jobs, order, cand, wloc, dreamed, forced, env>>

Defer(w) ==
  /\ wpc[w] = "quota"
  /\ defers < MaxDefers
  /\ defers' = defers + 1
  /\ LET s == wloc[w].session
     IN jobs' = IF jobs[s].status # "processing" THEN jobs
                ELSE [jobs EXCEPT ![s] = [status |-> "pending", ready |-> FALSE,
                        attempts |-> IF @.attempts = 0 THEN 0 ELSE @.attempts - 1]]
  /\ Idle(w)
  /\ UNCHANGED <<eps, quiet, order, cand, dreamed, forced, rescue, errors, crashes, requeues>>

\* DreamSessionLoader.load: all episodes of the session, at most EpisodeLimit,
\* of whatever status; none is an error
Load(w) ==
  /\ wpc[w] = "load"
  /\ \/ /\ EpisodesOf(wloc[w].session) = {}
        /\ Goto(w, "unmark")
        /\ UNCHANGED wloc
     \/ \E snap \in SUBSET EpisodesOf(wloc[w].session) :
        /\ snap # {}
        /\ IF Cardinality(EpisodesOf(wloc[w].session)) <= EpisodeLimit
           THEN snap = EpisodesOf(wloc[w].session)
           ELSE Cardinality(snap) = EpisodeLimit
        /\ wloc' = [wloc EXCEPT ![w].snap = snap]
        /\ Goto(w, "reason")
  /\ UNCHANGED <<eps, quiet, jobs, order, cand, dreamed, forced, env>>

\* Wrong variant: the episodes are marked before the run is written back
ReasonThenMark(w) ==
  /\ wpc[w] = "reason"
  /\ Goto(w, "mark")
  /\ UNCHANGED <<eps, quiet, jobs, order, cand, wloc, dreamed, forced, env>>

\* engine.dry_run and promotion.evaluate: no effect on this state
Reason(w) ==
  /\ wpc[w] = "reason"
  /\ Goto(w, "write")
  /\ UNCHANGED <<eps, quiet, jobs, order, cand, wloc, dreamed, forced, env>>

\* writeback.write_and_audit
WriteBack(w) ==
  /\ wpc[w] = "write"
  /\ dreamed' = [dreamed EXCEPT ![wloc[w].session] = wloc[w].snap]
  /\ Goto(w, "mark")
  /\ UNCHANGED <<eps, quiet, jobs, order, cand, wloc, forced, env>>

\* Wrong variant: a session at the limit is marked as far as the scroll reaches
MarkScanTruncated(w) ==
  /\ wpc[w] \in {"mark", "unmark"}
  /\ Goto(w, IF wpc[w] = "mark" THEN "marking" ELSE "unmarking")
  /\ \E some \in SUBSET EpisodesOf(wloc[w].session) :
       /\ Cardinality(some) <= EpisodeLimit
       /\ some # EpisodesOf(wloc[w].session) => Cardinality(some) = EpisodeLimit
       /\ wloc' = [wloc EXCEPT ![w].todo = some]
  /\ UNCHANGED <<eps, quiet, jobs, order, cand, dreamed, forced, env>>

\* update_status: scroll the session again, refuse at the limit
MarkScan(w) ==
  LET all == EpisodesOf(wloc[w].session)
      refused == Cardinality(all) >= EpisodeLimit
  IN /\ wpc[w] \in {"mark", "unmark"}
     /\ Goto(w, CASE wpc[w] = "mark" /\ ~refused -> "marking"
                  [] wpc[w] = "mark" /\ refused -> "unmark"
                  [] wpc[w] = "unmark" /\ ~refused -> "unmarking"
                  [] OTHER -> "fail")
     /\ wloc' = [wloc EXCEPT ![w].todo = IF refused THEN {} ELSE all]
     /\ UNCHANGED <<eps, quiet, jobs, order, cand, dreamed, forced, env>>

\* ... then one set_payload per episode
MarkOne(w) ==
  /\ wpc[w] \in {"marking", "unmarking"}
  /\ \/ \E e \in wloc[w].todo :
          /\ eps' = [eps EXCEPT ![e] = IF wpc[w] = "marking" THEN "processed" ELSE "failed"]
          /\ wloc' = [wloc EXCEPT ![w].todo = @ \ {e}]
          /\ UNCHANGED wpc
     \/ /\ wloc[w].todo = {}
        /\ Goto(w, IF wpc[w] = "marking" THEN "done" ELSE "fail")
        /\ UNCHANGED <<eps, wloc>>
  /\ UNCHANGED <<quiet, jobs, order, cand, dreamed, forced, env>>

\* queue.mark_processed, by id only
MarkProcessed(w) ==
  /\ wpc[w] = "done"
  /\ SetJob(wloc[w].session, "processed")
  /\ Idle(w)
  /\ UNCHANGED <<eps, quiet, order, cand, dreamed, forced, env>>

\* Wrong variant: a job whose attempts are used up gets a status of its own
MarkFailedExhausted(w) ==
  /\ wpc[w] = "fail"
  /\ SetJob(wloc[w].session,
            IF jobs[wloc[w].session].attempts = MaxAttempts THEN "exhausted" ELSE "failed")
  /\ Idle(w)
  /\ UNCHANGED <<eps, quiet, order, cand, dreamed, forced, env>>

\* queue.mark_failed, by id only
MarkFailed(w) ==
  /\ wpc[w] = "fail"
  /\ SetJob(wloc[w].session, "failed")
  /\ Idle(w)
  /\ UNCHANGED <<eps, quiet, order, cand, dreamed, forced, env>>

\* A step of the run raises, the last one (mark_processed) included: mark the
\* episodes failed, then the job.  An error while marking them failed is swallowed.
Raise(w) ==
  /\ wpc[w] \in {"load", "reason", "write", "mark", "marking", "done", "unmark", "unmarking"}
  /\ errors < MaxErrors
  /\ errors' = errors + 1
  /\ Goto(w, IF wpc[w] \in {"unmark", "unmarking"} THEN "fail" ELSE "unmark")
  /\ UNCHANGED <<eps, quiet, jobs, order, cand, wloc, dreamed, forced, rescue, crashes, defers, requeues>>

\* The process dies, or SQLite raises where process_next does not catch it; docker restarts it
Crash(w) ==
  /\ wpc[w] # "down"
  /\ crashes < MaxCrashes
  /\ crashes' = crashes + 1
  /\ Goto(w, "down")
  /\ wloc' = [wloc EXCEPT ![w] = NoWork]
  /\ UNCHANGED <<eps, quiet, jobs, order, cand, dreamed, forced, rescue, errors, defers, requeues>>

(***************************************************************************)
(* requeue_all_failed, run by an operator's rescue script in a process of  *)
(* its own, one at a time: a SELECT, then UPDATEs in a transaction.        *)
(***************************************************************************)
Failed == {s \in Sessions : jobs[s].status = "failed"}

\* The failed rows are selected, at most RequeueLimit of them ...
RequeueSelect ==
  /\ rescue = {} /\ Failed # {}
  /\ requeues < MaxRequeues
  /\ requeues' = requeues + 1
  /\ rescue' \in {chosen \in SUBSET Failed :
                    IF Cardinality(Failed) <= RequeueLimit THEN chosen = Failed
                    ELSE Cardinality(chosen) = RequeueLimit}
  /\ UNCHANGED <<eps, quiet, jobs, order, cand, wpc, wloc, dreamed, forced, errors, crashes, defers>>

\* ... and reset by id only, whatever became of them meanwhile.  A script that
\* dies in between is one that never takes this step.
RequeueUpdate ==
  /\ rescue # {}
  /\ rescue' = {}
  /\ jobs' = [s \in Sessions |->
               IF s \in rescue THEN [NoJob EXCEPT !.status = "pending"] ELSE jobs[s]]
  /\ UNCHANGED <<eps, quiet, order, cand, wpc, wloc, dreamed, forced,
                 errors, crashes, defers, requeues>>

Init ==
  /\ eps = [e \in Episodes |-> "absent"]
  /\ quiet = [s \in Sessions |-> TRUE]
  /\ jobs = [s \in Sessions |-> NoJob]
  /\ order = <<>>
  /\ cand = {} /\ forced = {} /\ rescue = {}
  /\ wpc = [w \in Workers |-> "down"]
  /\ wloc = [w \in Workers |-> NoWork]
  /\ dreamed = [s \in Sessions |-> {}]
  /\ errors = 0 /\ crashes = 0 /\ defers = 0 /\ requeues = 0

WorkerStep(w) ==
  \/ RecoverSelect(w) \/ RecoverUpdate(w) \/ ClaimNext(w) \/ RetrySelect(w) \/ RetryUpdate(w)
  \/ QuotaReserved(w) \/ Load(w) \/ Reason(w) \/ WriteBack(w) \/ MarkScan(w) \/ MarkOne(w)
  \/ MarkProcessed(w) \/ MarkFailed(w)

Next ==
  \/ \E e \in Episodes : StoreEpisode(e)
  \/ \E s \in Sessions :
       DreamEnqueue(s) \/ QuietPeriodEnds(s) \/ BecomesAvailable(s) \/ SchedulerEnqueue(s)
  \/ SchedulerScan
  \/ \E w \in Workers : WorkerStep(w) \/ Defer(w) \/ Raise(w) \/ Crash(w)
  \/ RequeueSelect \/ RequeueUpdate

Spec == Init /\ [][Next]_vars

\* The worker loop and the scheduler loop run (docker restarts them), and time
\* passes.  Nothing is assumed of callers, errors, crashes or the operator.
Fairness ==
  /\ \A w \in Workers : WF_vars(WorkerStep(w))
  /\ WF_vars(SchedulerScan) /\ \A s \in Sessions : WF_vars(SchedulerEnqueue(s))
  /\ \A s \in Sessions : WF_vars(QuietPeriodEnds(s)) /\ WF_vars(BecomesAvailable(s))

FairSpec == Spec /\ Fairness

(***************************************************************************)
(* Properties.                                                             *)
(***************************************************************************)
\* Episodes, jobs and the worker's locals keep their types: in particular a job's
\* status is one claim_next, retry_failed and recover_processing know.
TypeOK ==
  /\ eps \in [Episodes -> {"absent", "pending", "processed", "failed"}]
  /\ quiet \in [Sessions -> BOOLEAN]
  /\ jobs \in [Sessions -> [status: JobStatus, attempts: Nat, ready: BOOLEAN]]
  /\ order \in Seq(Sessions)
  /\ cand \subseteq Sessions /\ forced \subseteq Sessions /\ rescue \subseteq Sessions
  /\ wpc \in [Workers -> WPCs]
  /\ wloc \in [Workers -> [session: Sessions \cup {NoSession}, snap: SUBSET Episodes,
                           todo: SUBSET (Episodes \cup Sessions), spent: SUBSET Sessions]]
  /\ dreamed \in [Sessions -> SUBSET Episodes]

\* The attempts a row counts never exceed dream_worker_max_attempts, however
\* failures, crashes and restarts interleave with the parties that give attempts
\* back: a deferral returns the one it used, a requeue all of them.
AttemptsBounded == \A s \in Sessions : jobs[s].attempts <= MaxAttempts

\* Rows, marks and worker stay consistent however the parties that rewrite a
\* job's row by id interleave (recovery, retry and the rescue script each between
\* its SELECT and its UPDATE), the bound on the counted attempts among them.
QueueConsistent == TypeOK /\ AttemptsBounded

\* A job is processed only when a run of it was written back and every episode
\* that run had read is marked processed: neither a partial marking nor the
\* failed marks of an earlier attempt are left behind.
ProcessedMeansDreamed ==
  \A s \in Sessions : jobs[s].status = "processed" =>
    /\ dreamed[s] # {}
    /\ \A e \in dreamed[s] : eps[e] = "processed"

\* Episodes are marked processed only after a run of their session was written
\* back.
MarkAfterWriteBack ==
  \A e \in Episodes : eps[e] = "processed" => dreamed[SessionOf[e]] # {}

\* What can take a processed job back: no late failure, deferral, retry, recovery
\* or enqueueing does, only the UPDATE of a rescue script that had selected its row
\* while it was failed.
ProcessedIsFinal ==
  [][\A s \in Sessions : jobs[s].status = "processed" /\ jobs'[s].status # "processed" =>
       s \in rescue /\ RequeueUpdate]_vars

\* Every job settles: it is processed, or failed with no attempt left.
JobSettles ==
  \A s \in Sessions :
    HasJob(s) ~> \/ jobs[s].status = "processed"
                 \/ jobs[s].status = "failed" /\ jobs[s].attempts = MaxAttempts

\* DREAMING_SPEC: a session with pending episodes gets a job without anybody
\* calling dream_enqueue.
ScheduledEventually ==
  \A s \in Sessions : (\E e \in EpisodesOf(s) : eps[e] = "pending") ~> HasJob(s)

\* DREAMING_SPEC: the pipeline as a whole makes progress, from a pending episode
\* to a queued job (scheduler.run_once) and from a job to its end (the worker).
WorkGetsDone == ScheduledEventually /\ JobSettles
==============================================================================
