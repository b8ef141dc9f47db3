-------------------------- MODULE PredictionLearning --------------------------
(***************************************************************************)
(* Prediction learning: predictions and outcomes as episodic memory        *)
(* (cognition/prediction.py), the guard that serialises a retried          *)
(* recording (coordination.py), the producer that wraps a command in a     *)
(* prediction (producer.py), and the readers: observation, pending list,   *)
(* calibration and the heartbeat (calibration.py, heartbeat.py).           *)
(*                                                                         *)
(* A prediction with a correlation id has a uuid5 of its attribution and   *)
(* correlation as its id, so every retry names the same point: those ids   *)
(* are Correlated.  A tracked command has none and its id is a fresh uuid4:*)
(* the track stands for it.  What tells two recordings of one id apart is  *)
(* their confidence and event time.                                        *)
(***************************************************************************)
EXTENDS Integers, FiniteSets, FiniteSetsExt

CONSTANTS
  Callers,       \* threads serving prediction_record and prediction_resolve
  ProcessOf,     \* [Callers -> processes]: a stripe's Lock object is per process
  Correlated,    \* ids of predictions with a correlation id
  StripeOf,      \* [Correlated -> stripes], prediction_id.int % 64
  Tracks,        \* commands run by run_command_with_prediction
  AgentOf,       \* [Callers \cup Correlated \cup Tracks -> agents]
  NoAgent,       \* a caller with no trusted identity, a prediction without agent
  Confidences,   \* confidences in units of 1/Scale
  Scale,
  NoRecord,
  ScanLimit, PendingLimit, StaleTime, MinSamples,
  BiasThreshold, \* in units of 1/Scale
  Judgements,    \* the assessments callers give
  MaxTime, MaxCalls, MaxErrors, MaxLate   \* bounds: clock, tool calls, failed calls, late writes

Ids == Correlated \cup Tracks

ASSUME PredictionAssumption ==
  /\ Correlated \cap Tracks = {}
  /\ NoRecord \notin [confidence : Confidences, time : 0..MaxTime]
  /\ StripeOf \in [Correlated -> Int] /\ DOMAIN ProcessOf = Callers
  /\ DOMAIN AgentOf = Callers \cup Ids
  /\ Scale \in Nat \ {0} /\ Confidences \subseteq 0..Scale
  /\ ScanLimit \in Nat \ {0} /\ PendingLimit \in Nat \ {0} /\ MinSamples \in Nat \ {0}
  /\ BiasThreshold \in 0..Scale /\ StaleTime \in Nat
  /\ Judgements \subseteq {"confirmed", "partially_confirmed", "contradicted", "indeterminate"}
  /\ MaxTime \in Nat /\ MaxCalls \in Nat /\ MaxErrors \in Nat /\ MaxLate \in Nat

VARIABLES
  now,          \* wall clock
  store,        \* the prediction episodes
  outcomes,     \* the outcome episodes
  late,         \* prediction writes that timed out and may still be applied
  pc, arg,      \* program counter and call of each caller
  track,        \* each tracked command: where it is, how it ended, what was stored
  scan,         \* a reader: the two scrolls it made and what was true at the first
  calls, errors, lates,
  acked,        \* history: the records each id's recordings returned
  landed        \* history: ids on which a late write landed

vars == <<now, store, outcomes, late, pc, arg, track, scan, calls, errors, lates, acked, landed>>

Times == 0..MaxTime
Records == [confidence : Confidences, time : Times]
Assessments == {"confirmed", "partially_confirmed", "contradicted", "indeterminate"}

NoArg == [id |-> NoRecord, record |-> NoRecord, assessment |-> "none"]
NoScan == [pc |-> "idle", preds |-> {}, outs |-> {}, known |-> {}, resolved |-> {}, at |-> 0]
NoTrack == [pc |-> "idle", result |-> "none", error |-> FALSE]

\* _derive_error: the error class and, in units of 1/(2 * Scale), the weighted error
Indeterminate == -1
ErrorClass(a) ==
  CASE a = "confirmed" -> "none" [] a = "partially_confirmed" -> "partial"
    [] a = "contradicted" -> "full" [] OTHER -> "indeterminate"

\* Wrong variant: a signed error
WeightedErrorSigned(a, confidence) ==
  CASE a = "confirmed" -> 0 [] a = "partially_confirmed" -> -confidence
    [] a = "contradicted" -> -2 * confidence [] OTHER -> Indeterminate

WeightedError(a, confidence) ==
  CASE a = "confirmed" -> 0 [] a = "partially_confirmed" -> confidence
    [] a = "contradicted" -> 2 * confidence [] OTHER -> Indeterminate

Outcome(id, a, confidence, t, by) ==
  [n |-> Cardinality(outcomes) + 1, by |-> by, pid |-> id, assessment |-> a, confidence |-> confidence,
   class |-> ErrorClass(a), error |-> WeightedError(a, confidence), time |-> t]
OutcomesOf(outs, id) == {o \in outs : o.pid = id}

Init ==
  /\ now = 0 /\ store = [id \in Ids |-> NoRecord] /\ outcomes = {} /\ late = {}
  /\ pc = [c \in Callers |-> "idle"] /\ arg = [c \in Callers |-> NoArg]
  /\ track = [t \in Tracks |-> NoTrack] /\ scan = NoScan
  /\ calls = 0 /\ errors = 0 /\ lates = 0
  /\ acked = [id \in Ids |-> {}] /\ landed = {}

\* A report is handed to the reader's caller before anyone's next step
Handover == scan' = IF scan.pc = "report" THEN NoScan ELSE scan
writersUnchanged == Handover /\ UNCHANGED <<outcomes, track, now, calls>>

----------------------------------------------------------------------------
\* prediction_write_guard: a striped Lock of the process, then a striped flock

HoldsThread(c) == pc[c] \in {"file", "lookup", "put"}
HoldsFile(c) == pc[c] \in {"lookup", "put"}
SameStripe(b, c) == StripeOf[arg[b].id] = StripeOf[arg[c].id]

ThreadFree(c) == \A b \in Callers \ {c} :
  ~(HoldsThread(b) /\ ProcessOf[b] = ProcessOf[c] /\ SameStripe(b, c))

\* Wrong variant: threads of one process only are kept apart
FileFreeAlways(c) == TRUE

FileFree(c) == \A b \in Callers \ {c} : ~(HoldsFile(b) /\ SameStripe(b, c))

Go(c, to) == pc' = [pc EXCEPT ![c] = to] /\ UNCHANGED arg
Leave(c) == pc' = [pc EXCEPT ![c] = "idle"] /\ arg' = [arg EXCEPT ![c] = NoArg]

\* _apply_trusted_prediction_agent and required_agent: a caller with a trusted identity
\* acts for its own agent only
AgentAllowed(c, id) == AgentOf[c] \in {NoAgent, AgentOf[id]}

\* prediction_record with a correlation id
RecordBegin(c, id, confidence) ==
  /\ pc[c] = "idle" /\ calls < MaxCalls /\ calls' = calls + 1
  /\ AgentAllowed(c, id)
  /\ pc' = [pc EXCEPT ![c] = "wait"]
  /\ arg' = [arg EXCEPT ![c] = [NoArg EXCEPT !.id = id,
                                      !.record = [confidence |-> confidence, time |-> now]]]
  /\ Handover /\ UNCHANGED <<outcomes, track, now>> /\ UNCHANGED <<store, late, errors, lates, acked, landed>>

GuardThread(c) ==
  /\ pc[c] = "wait" /\ ThreadFree(c) /\ Go(c, "file")
  /\ writersUnchanged /\ UNCHANGED <<store, late, errors, lates, acked, landed>>

GuardFile(c) ==
  /\ pc[c] = "file" /\ FileFree(c) /\ Go(c, "lookup")
  /\ writersUnchanged /\ UNCHANGED <<store, late, errors, lates, acked, landed>>

\* either wait ends after 30 s with TimeoutError
GuardTimeout(c) ==
  /\ \/ pc[c] = "wait" /\ ~ThreadFree(c)
     \/ pc[c] = "file" /\ ~FileFree(c)
  /\ Leave(c)
  /\ writersUnchanged /\ UNCHANGED <<store, late, errors, lates, acked, landed>>

\* The retry lookup returns the record already there
Lookup(c) ==
  LET found == store[arg[c].id] IN
  /\ pc[c] = "lookup"
  /\ \/ /\ found # NoRecord /\ Leave(c)
        /\ acked' = [acked EXCEPT ![arg[c].id] = @ \cup {found}]
     \/ found = NoRecord /\ Go(c, "put") /\ UNCHANGED acked
  /\ writersUnchanged /\ UNCHANGED <<store, late, errors, lates, landed>>

Put(c) ==
  LET id == arg[c].id IN
  /\ pc[c] = "put"
  /\ store' = [store EXCEPT ![id] = arg[c].record]
  /\ acked' = [acked EXCEPT ![id] = @ \cup {arg[c].record}]
  /\ Leave(c)
  /\ writersUnchanged /\ UNCHANGED <<late, errors, lates, landed>>

\* A storage call raises: nothing happened, the write was applied and its answer
\* lost, or it timed out and is applied later.  The guard is released.
RecordFails(c) ==
  /\ pc[c] \in {"lookup", "put"} /\ errors < MaxErrors /\ errors' = errors + 1
  /\ \/ UNCHANGED <<store, late, lates>>
     \/ /\ pc[c] = "put"
        /\ store' = [store EXCEPT ![arg[c].id] = arg[c].record]
        /\ UNCHANGED <<late, lates>>
     \/ /\ pc[c] = "put" /\ lates < MaxLate
        /\ late' = late \cup {[id |-> arg[c].id, record |-> arg[c].record]}
        /\ lates' = lates + 1 /\ UNCHANGED store
  /\ Leave(c)
  /\ writersUnchanged /\ UNCHANGED <<acked, landed>>

DeliverLate ==
  \E w \in late :
    /\ late' = late \ {w} /\ store' = [store EXCEPT ![w.id] = w.record]
    /\ landed' = landed \cup {w.id}
    /\ writersUnchanged /\ UNCHANGED <<pc, arg, errors, lates, acked>>

----------------------------------------------------------------------------
\* prediction_resolve

\* Wrong variant: the outcome's time is not compared with the prediction's
ResolveLoadAnyTime(c, id, a, t) ==
  /\ pc[c] = "idle" /\ t <= now /\ calls < MaxCalls /\ calls' = calls + 1
  /\ store[id] # NoRecord
  /\ AgentAllowed(c, id)
  /\ pc' = [pc EXCEPT ![c] = "outcome"]
  /\ arg' = [arg EXCEPT ![c] =
       [id |-> id, assessment |-> a, record |-> [confidence |-> store[id].confidence, time |-> t]]]
  /\ Handover /\ UNCHANGED <<outcomes, track, now>>
  /\ UNCHANGED <<store, late, errors, lates, acked, landed>>

\* _load_prediction, and the checks of record_outcome on what it loaded
ResolveLoad(c, id, a, t) ==
  /\ pc[c] = "idle" /\ t <= now /\ calls < MaxCalls /\ calls' = calls + 1
  /\ store[id] # NoRecord
  /\ AgentAllowed(c, id)
  /\ t >= store[id].time
  /\ pc' = [pc EXCEPT ![c] = "outcome"]
  /\ arg' = [arg EXCEPT ![c] =
       [id |-> id, assessment |-> a, record |-> [confidence |-> store[id].confidence, time |-> t]]]
  /\ Handover /\ UNCHANGED <<outcomes, track, now>> /\ UNCHANGED <<store, late, errors, lates, acked, landed>>

NewOutcome(c) == Outcome(arg[c].id, arg[c].assessment, arg[c].record.confidence,
                         arg[c].record.time, "caller")

ResolveStore(c) ==
  /\ pc[c] = "outcome"
  /\ outcomes' = outcomes \cup {NewOutcome(c)}
  /\ Leave(c)
  /\ Handover /\ UNCHANGED <<now, store, late, track, calls, errors, lates, acked, landed>>

\* The store fails, or was applied and its answer lost: an outcome has a fresh id,
\* so the caller's retry is a second outcome
ResolveFails(c) ==
  /\ pc[c] = "outcome" /\ errors < MaxErrors /\ errors' = errors + 1
  /\ \/ UNCHANGED outcomes
     \/ outcomes' = outcomes \cup {NewOutcome(c)}
  /\ Leave(c)
  /\ Handover /\ UNCHANGED <<now, store, late, track, calls, lates, acked, landed>>

----------------------------------------------------------------------------
\* The producer: track_prediction around a command

SetTrack(t, r) == track' = [track EXCEPT ![t] = r]
callersUnchanged == UNCHANGED <<late, pc, arg, lates, acked, landed>>
trackOnly == Handover /\ callersUnchanged /\ UNCHANGED calls

\* record_prediction without correlation id: no guard, one store
TrackBegin(t, confidence) ==
  /\ track[t].pc = "idle" /\ calls < MaxCalls /\ calls' = calls + 1
  /\ store' = [store EXCEPT ![t] = [confidence |-> confidence, time |-> now]]
  /\ SetTrack(t, [NoTrack EXCEPT !.pc = "running"])
  /\ Handover /\ callersUnchanged /\ UNCHANGED <<now, outcomes, errors>>

\* it raises: the command is not run, and a prediction stored all the same stays pending
TrackBeginFails(t, confidence) ==
  /\ track[t].pc = "idle" /\ calls < MaxCalls /\ calls' = calls + 1 /\ errors < MaxErrors /\ errors' = errors + 1
  /\ \/ UNCHANGED store
     \/ store' = [store EXCEPT ![t] = [confidence |-> confidence, time |-> now]]
  /\ SetTrack(t, [pc |-> "raised", result |-> "notrun", error |-> TRUE])
  /\ Handover /\ callersUnchanged /\ UNCHANGED <<now, outcomes>>

\* subprocess.run returns 0, returns another code, times out, or raises
CommandEnds(t, result) ==
  /\ track[t].pc = "running"
  /\ SetTrack(t, [track[t] EXCEPT !.pc = IF result = "error" THEN "except" ELSE "resolve",
                                  !.result = result])
  /\ trackOnly /\ UNCHANGED <<now, store, outcomes, errors>>

Verdict(t) == IF track[t].pc = "resolve" /\ track[t].result = "ok" THEN "confirmed" ELSE "contradicted"
TrackOutcome(t) == Outcome(t, Verdict(t), store[t].confidence, now, "track")

\* Wrong variant: a timeout leaves the handle unresolved
TrackResolveTwice(t) ==
  /\ track[t].pc = "resolve"
  /\ outcomes' = outcomes \cup {TrackOutcome(t)}
  /\ SetTrack(t, [track[t] EXCEPT !.pc = IF track[t].result = "timeout" THEN "except" ELSE "done"])
  /\ trackOnly /\ UNCHANGED <<now, store, errors>>

\* handle.resolve in the block; a timeout is raised again, with the handle resolved
TrackResolve(t) ==
  /\ track[t].pc = "resolve"
  /\ outcomes' = outcomes \cup {TrackOutcome(t)}
  /\ SetTrack(t, [track[t] EXCEPT !.pc = IF track[t].result = "timeout" THEN "raised" ELSE "done"])
  /\ trackOnly /\ UNCHANGED <<now, store, errors>>

\* handle.resolve raises inside the block: the except branch resolves again
TrackResolveFails(t) ==
  /\ track[t].pc = "resolve" /\ errors < MaxErrors /\ errors' = errors + 1
  /\ \/ UNCHANGED outcomes
     \/ outcomes' = outcomes \cup {TrackOutcome(t)}
  /\ SetTrack(t, [track[t] EXCEPT !.pc = "except", !.error = TRUE])
  /\ trackOnly /\ UNCHANGED <<now, store>>

\* except Exception: a handle not resolved is resolved as contradicted
TrackExcept(t) ==
  /\ track[t].pc = "except"
  /\ outcomes' = outcomes \cup {TrackOutcome(t)}
  /\ SetTrack(t, [track[t] EXCEPT !.pc = "raised"])
  /\ trackOnly /\ UNCHANGED <<now, store, errors>>

TrackExceptFails(t) ==
  /\ track[t].pc = "except" /\ errors < MaxErrors /\ errors' = errors + 1
  /\ \/ UNCHANGED outcomes
     \/ outcomes' = outcomes \cup {TrackOutcome(t)}
  /\ SetTrack(t, [track[t] EXCEPT !.pc = "raised", !.error = TRUE])
  /\ trackOnly /\ UNCHANGED <<now, store>>

\* The producer's process dies (KeyboardInterrupt included: it is no Exception)
TrackDies(t) ==
  /\ track[t].pc \in {"running", "resolve", "except"} /\ errors < MaxErrors /\ errors' = errors + 1
  /\ SetTrack(t, [track[t] EXCEPT !.pc = "dead", !.error = TRUE])
  /\ trackOnly /\ UNCHANGED <<now, store, outcomes>>

----------------------------------------------------------------------------
\* The readers scroll the predictions, then the outcomes.  A scroll returns at most
\* ScanLimit points, in an order that has nothing to do with their times.

Stored == {id \in Ids : store[id] # NoRecord}
Resolved(outs) == {o.pid : o \in outs}
Scroll(S) == {T \in SUBSET S : \/ T = S /\ Cardinality(S) <= ScanLimit
                               \/ Cardinality(T) = ScanLimit}

\* _scroll_cognition of predictions, then of outcomes
ScanPredictions ==
  /\ scan.pc # "outcomes"
  /\ \E T \in Scroll(Stored) :
       scan' = [pc |-> "outcomes", preds |-> {[id |-> i, record |-> store[i]] : i \in T},
                outs |-> {}, known |-> Stored, resolved |-> outcomes, at |-> now]
  /\ callersUnchanged /\ UNCHANGED <<calls, now, store, outcomes, track, errors>>

ScanOutcomes ==
  /\ scan.pc = "outcomes"
  /\ \E T \in Scroll(outcomes) : scan' = [scan EXCEPT !.pc = "report", !.outs = T]
  /\ callersUnchanged /\ UNCHANGED <<calls, now, store, outcomes, track, errors>>

Tick ==
  /\ now < MaxTime /\ now' = now + 1
  /\ trackOnly /\ UNCHANGED <<store, outcomes, track, errors>>

\* may_be_truncated, and may_be_incomplete of calibration_samples
Truncated(s) == Cardinality(s.preds) >= ScanLimit \/ Cardinality(s.outs) >= ScanLimit

\* Wrong variant: the first outcome counts
LatestFirst(s, id) == CHOOSE o \in OutcomesOf(s.outs, id) : \A q \in OutcomesOf(s.outs, id) : o.n <= q.n

\* the last outcome of each prediction seen: the later event time, the first scrolled of equals
Latest(s, id) ==
  LET S == OutcomesOf(s.outs, id) IN
  CHOOSE o \in S : \A q \in S : q.time < o.time \/ (q.time = o.time /\ o.n <= q.n)

\* Wrong variant: every outcome counts
AllOutcomes(s) == {o \in s.outs : o.pid \in {p.id : p \in s.preds}}

LatestOutcomes(s) == {Latest(s, i) : i \in {p.id : p \in s.preds} \cap Resolved(s.outs)}

\* observe
Observation(s) ==
  [total |-> Cardinality(s.preds),
   resolved |-> Cardinality(LatestOutcomes(s)),
   duplicates |-> Cardinality({o \in s.outs : o.pid \in {p.id : p \in s.preds}})
                    - Cardinality(LatestOutcomes(s)),
   contradicted |-> Cardinality({o \in LatestOutcomes(s) : o.class = "full"})]

\* pending: the oldest PendingLimit of the predictions seen without an outcome
PendingSeen(s) == {p \in s.preds : p.id \notin Resolved(s.outs)}

\* Wrong variant: the newest are kept
PendingNewest(s) ==
  LET P == PendingSeen(s)
      want == IF Cardinality(P) <= PendingLimit THEN Cardinality(P) ELSE PendingLimit
  IN CHOOSE T \in SUBSET P : /\ Cardinality(T) = want
                             /\ \A x \in T, y \in P \ T : x.record.time >= y.record.time

Pending(s) ==
  LET P == PendingSeen(s)
      want == IF Cardinality(P) <= PendingLimit THEN Cardinality(P) ELSE PendingLimit
  IN CHOOSE T \in SUBSET P : /\ Cardinality(T) = want
                             /\ \A x \in T, y \in P \ T : x.record.time <= y.record.time

\* Wrong variant: the cut at the limit is not reported
IncompleteScan(s) == Truncated(s)

Incomplete(s) == Truncated(s) \/ Cardinality(PendingSeen(s)) > PendingLimit

\* calibration_samples and MetacognitionCalibrationService.observe; the empirical score
\* is 1, 1/2, 0, so twice the bias of a sample is an integer in units of 1/Scale
Score2(a) == CASE a = "confirmed" -> 2 [] a = "partially_confirmed" -> 1 [] OTHER -> 0
Samples(s) == {o \in LatestOutcomes(s) : o.assessment # "indeterminate"}
SeenConfidence(s, id) == (CHOOSE p \in s.preds : p.id = id).record.confidence
Bias2(s, o) == 2 * SeenConfidence(s, o.pid) - Scale * Score2(o.assessment)
BiasSum2(s) == MapThenSumSet(LAMBDA o : Bias2(s, o), Samples(s))
Calibration(s) ==
  LET usable == Cardinality(Samples(s))
      bias2 == BiasSum2(s)
  IN IF usable < MinSamples THEN "insufficient_evidence"
     ELSE IF bias2 > 2 * BiasThreshold * usable THEN "overconfident"
     ELSE IF bias2 < -2 * BiasThreshold * usable THEN "underconfident"
     ELSE "roughly_calibrated"

\* CognitiveHeartbeat.run_once: how many of the listed predictions are stale
StaleCount(s) == Cardinality({p \in Pending(s) : p.record.time < s.at - StaleTime})

Next ==
  \/ \E c \in Callers : \/ \E id \in Correlated, f \in Confidences : RecordBegin(c, id, f)
                        \/ GuardThread(c) \/ GuardFile(c) \/ GuardTimeout(c)
                        \/ Lookup(c) \/ Put(c) \/ RecordFails(c)
                        \/ \E id \in Ids, a \in Judgements, t \in Times : ResolveLoad(c, id, a, t)
                        \/ ResolveStore(c) \/ ResolveFails(c)
  \/ DeliverLate
  \/ \E t \in Tracks : \/ \E f \in Confidences : TrackBegin(t, f) \/ TrackBeginFails(t, f)
                       \/ \E r \in {"ok", "failed", "timeout", "error"} : CommandEnds(t, r)
                       \/ TrackResolve(t) \/ TrackResolveFails(t)
                       \/ TrackExcept(t) \/ TrackExceptFails(t) \/ TrackDies(t)
  \/ ScanPredictions \/ ScanOutcomes \/ Tick

Spec == Init /\ [][Next]_vars

----------------------------------------------------------------------------
\* Types of the state: calls in flight, tracked commands and the reader's scrolls
PredictionTypeOK ==
  /\ now \in Times /\ \A id \in Ids : store[id] \in Records \cup {NoRecord}
  /\ \A o \in outcomes : o.pid \in Ids /\ o.assessment \in Assessments /\ o.time \in Times
                         /\ o.error \in {Indeterminate} \cup 0..(2 * Scale)
  /\ \A c \in Callers : pc[c] \in {"idle", "wait", "file", "lookup", "put", "outcome"}
  /\ \A t \in Tracks : track[t].pc \in {"idle", "running", "resolve", "except", "done", "raised", "dead"}
  /\ scan.pc \in {"idle", "outcomes", "report"}

\* record_prediction: whatever two callers of two processes record under one correlation
\* id, every answer is the one stored record, and it stays that record; only a write that
\* timed out and lands later can replace it
AckedIsStored == \A id \in Ids \ landed : acked[id] \subseteq {store[id]}

\* record_outcome: an outcome's confidence, weighted error and event time are about the
\* prediction that is stored, although it was loaded in an earlier call
OutcomeMatchesPrediction == \A o \in outcomes : o.pid \notin landed =>
  /\ store[o.pid] # NoRecord
  /\ o.confidence = store[o.pid].confidence
  /\ o.time >= store[o.pid].time
  /\ o.error # Indeterminate => o.error <= 2 * store[o.pid].confidence

\* pending: a list that does not say it may be incomplete has every prediction stored
\* before the call that is still open, and none resolved before the call
PendingSound == (scan.pc = "report" /\ ~Incomplete(scan)) =>
  LET listed == {p.id : p \in Pending(scan)} IN
  /\ scan.known \ Resolved(outcomes) \subseteq listed
  /\ listed \cap Resolved(scan.resolved) = {}

\* observe: an observation not marked truncated counts every prediction resolved before
\* the call as resolved, by an outcome no earlier than the ones there were
ObservationSound == (scan.pc = "report" /\ ~Truncated(scan)) =>
  /\ Observation(scan).resolved >= Cardinality(Resolved(scan.resolved))
  /\ Observation(scan).duplicates >= Cardinality(scan.resolved) - Cardinality(Resolved(scan.resolved))
  /\ \A q \in scan.resolved : \E o \in LatestOutcomes(scan) : o.pid = q.pid /\ o.time >= q.time

\* calibration: however often the same prediction is resolved again, no judgement is given
\* on fewer than minimum_samples distinct predictions with a determinate outcome
CalibrationNeedsDistinct == (scan.pc = "report" /\ Calibration(scan) # "insufficient_evidence") =>
  Cardinality({o.pid : o \in {q \in outcomes : q.assessment # "indeterminate"}}) >= MinSamples

\* heartbeat: the pending list is cut at its limit, yet the stale predictions are the ones
\* kept: as many are counted as there are open, up to the limit
HeartbeatSeesStale == (scan.pc = "report" /\ ~Truncated(scan)) =>
  LET open == (scan.known \ Resolved(outcomes)) \ landed
      stale == {id \in open : store[id].time < scan.at - StaleTime}
  IN StaleCount(scan) >= Cardinality(stale) \/ StaleCount(scan) = PendingLimit

\* producer: whatever fails, an outcome of the producer's that confirms is one of a command
\* that returned 0; and one that ended with no storage error has exactly one outcome, its own
TrackedVerdict == \A t \in Tracks :
  LET own == {o \in OutcomesOf(outcomes, t) : o.by = "track"} IN
  /\ \A o \in own : o.assessment = "confirmed" => track[t].result = "ok"
  /\ (track[t].pc \in {"done", "raised"} /\ ~track[t].error) =>
       \E o \in own : own = {o} /\ (o.assessment = "confirmed" <=> track[t].result = "ok")

\* What is learned is right: outcomes fit their predictions, and pending,
\* observe and calibration report no more and no less than was stored.
LearningSound == /\ PredictionTypeOK
                 /\ OutcomeMatchesPrediction
                 /\ PendingSound
                 /\ ObservationSound
                 /\ CalibrationNeedsDistinct
=============================================================================
