----------------------- MODULE PredictionLearning_proof -----------------------
(***************************************************************************)
(* Theorems about PredictionLearning for every number of callers,          *)
(* processes, stripes, correlation ids, commands, failed calls and late    *)
(* writes, and for every limit of the readers.                             *)
(***************************************************************************)
EXTENDS PredictionLearning, FiniteSetTheorems, FunctionTheorems, TLAPS

CallerStates == {"idle", "wait", "file", "lookup", "put", "outcome"}
TrackStates == {"idle", "running", "resolve", "except", "done", "raised", "dead"}
TrackResults == {"none", "notrun", "ok", "failed", "timeout", "error"}
Calls == [id: Ids \cup {NoRecord}, record: Records \cup {NoRecord},
          assessment: Assessments \cup {"none"}]
TrackRows == [pc: TrackStates, result: TrackResults, error: BOOLEAN]
OutcomeRows == [n: Nat, by: {"caller", "track"}, pid: Ids, assessment: Assessments,
                confidence: Confidences, class: {"none", "partial", "full", "indeterminate"},
                error: {Indeterminate} \cup 0..(2 * Scale), time: Times]
Seen == [id: Ids, record: Records]
Scans == [pc: {"idle", "outcomes", "report"}, preds: SUBSET Seen, outs: SUBSET OutcomeRows,
          known: SUBSET Ids, resolved: SUBSET OutcomeRows, at: Times]

StateType ==
  /\ now \in Times /\ store \in [Ids -> Records \cup {NoRecord}]
  /\ outcomes \subseteq OutcomeRows /\ IsFiniteSet(outcomes)
  /\ late \subseteq [id: Correlated, record: Records]
  /\ pc \in [Callers -> CallerStates] /\ arg \in [Callers -> Calls]
  /\ track \in [Tracks -> TrackRows] /\ scan \in Scans
  /\ acked \in [Ids -> SUBSET Records] /\ landed \subseteq Correlated
  /\ IsFiniteSet(Stored)

\* What is known of a prediction: its confidence and time, as long as no late write landed
About(id, record) ==
  /\ store[id] # NoRecord
  /\ id \notin landed => record.confidence = store[id].confidence /\ record.time >= store[id].time

\* What a caller at each step holds
CallOK(c) ==
  /\ pc[c] \in {"wait", "file", "lookup", "put"} =>
       arg[c].id \in Correlated /\ arg[c].record \in Records
  /\ pc[c] = "outcome" =>
       /\ arg[c].id \in Ids /\ arg[c].record \in Records /\ arg[c].assessment \in Assessments
       /\ About(arg[c].id, arg[c].record)

\* The guard: of two callers behind the file lock the ids are of different stripes
Guarded == \A b, c \in Callers : b # c /\ HoldsFile(b) /\ HoldsFile(c) => ~SameStripe(b, c)

\* What the lookup found missing is missing until the caller stores it
PutFree(c) == pc[c] = "put" /\ arg[c].id \notin landed => store[arg[c].id] = NoRecord

CallsOK == Guarded /\ \A c \in Callers : CallOK(c) /\ PutFree(c)

\* Only recordings with a correlation id are acknowledged
AckedOK == AckedIsStored /\ \A t \in Tracks : acked[t] = {}

OutcomesOK == \A o \in outcomes : store[o.pid] # NoRecord /\ (o.pid \notin landed =>
  /\ o.confidence = store[o.pid].confidence /\ o.time >= store[o.pid].time
  /\ o.error # Indeterminate => o.error <= 2 * store[o.pid].confidence)

\* The outcomes the producer stored for a command, at each step of the command
OfTrack(t) == {q \in OutcomesOf(outcomes, t) : q.by = "track"}
TrackOK(t) ==
  /\ track[t].pc = "idle" => store[t] = NoRecord /\ ~track[t].error
  /\ track[t].pc \in {"running", "resolve", "except"} => store[t] # NoRecord /\ store[t].time <= now
  /\ track[t].pc \in {"idle", "running"} => OfTrack(t) = {}
  /\ track[t].pc = "resolve" /\ ~track[t].error =>
       OfTrack(t) = {} /\ track[t].result \in {"ok", "failed", "timeout"}
  /\ track[t].pc = "except" /\ ~track[t].error => OfTrack(t) = {} /\ track[t].result = "error"
  /\ track[t].pc \in {"done", "raised"} /\ ~track[t].error =>
       \E o \in OfTrack(t) : OfTrack(t) = {o} /\ (o.assessment = "confirmed" <=> track[t].result = "ok")
  /\ \A o \in OfTrack(t) : o.assessment = "confirmed" => track[t].result = "ok"

\* What a reader has scrolled, as it stands now
SeenOK ==
  /\ scan.known \subseteq Stored /\ scan.resolved \subseteq outcomes
  /\ Resolved(scan.resolved) \subseteq scan.known
  /\ IsFiniteSet(scan.preds)
  /\ \A p \in scan.preds : p.id \in scan.known /\ (p.id \notin landed => p.record = store[p.id])
  /\ \A p, q \in scan.preds : p.id = q.id => p = q
  /\ Cardinality(scan.preds) < ScanLimit => \A i \in scan.known : \E p \in scan.preds : p.id = i
ScanOK ==
  /\ scan.pc # "idle" => SeenOK
  /\ scan.pc = "report" =>
       /\ scan.outs \subseteq outcomes
       /\ Cardinality(scan.outs) < ScanLimit => scan.resolved \subseteq scan.outs

WriterInv == StateType /\ CallsOK /\ AckedOK /\ OutcomesOK /\ \A t \in Tracks : TrackOK(t)
IInv == WriterInv /\ ScanOK

-----------------------------------------------------------------------------
(***************************************************************************)
(* Records and outcomes.                                                   *)
(***************************************************************************)

\* Confidences and times are numbers, and no record is NoRecord.
LEMMA RecordTypes ==
  /\ NoRecord \notin Records
  /\ \A f \in Confidences : f \in Int /\ 0 <= f /\ f <= Scale
  /\ \A t \in Times : t \in Int /\ 0 <= t
  /\ Scale \in Int /\ 0 < Scale /\ ScanLimit \in Int /\ 0 < ScanLimit
  /\ Correlated \subseteq Ids /\ Tracks \subseteq Ids /\ Correlated \cap Tracks = {}
<1>1. Scale \in Int /\ 0 < Scale /\ ScanLimit \in Int /\ 0 < ScanLimit
  BY PredictionAssumption
<1>2. \A f \in Confidences : f \in Int /\ 0 <= f /\ f <= Scale
  BY PredictionAssumption, <1>1
<1>3. \A t \in Times : t \in Int /\ 0 <= t
  BY PredictionAssumption DEF Times
<1>4. NoRecord \notin Records
  BY PredictionAssumption DEF Records, Times
<1> QED BY <1>1, <1>2, <1>3, <1>4, PredictionAssumption DEF Ids

\* _derive_error: the weighted error is at most twice the confidence.
LEMMA ErrorEffect ==
  ASSUME NEW a \in Assessments, NEW f \in Confidences
  PROVE  /\ WeightedError(a, f) \in {Indeterminate} \cup 0..(2 * Scale)
         /\ WeightedError(a, f) # Indeterminate => WeightedError(a, f) <= 2 * f
         /\ ErrorClass(a) \in {"none", "partial", "full", "indeterminate"}
<1>1. f \in Int /\ 0 <= f /\ f <= Scale /\ Scale \in Int BY RecordTypes
<1>2. /\ a = "confirmed" => WeightedError(a, f) = 0
      /\ a = "partially_confirmed" => WeightedError(a, f) = f
      /\ a = "contradicted" => WeightedError(a, f) = 2 * f
      /\ a = "indeterminate" => WeightedError(a, f) = Indeterminate
  BY DEF WeightedError
<1>3. ErrorClass(a) \in {"none", "partial", "full", "indeterminate"}
  BY DEF ErrorClass, Assessments
<1> QED BY <1>1, <1>2, <1>3 DEF Assessments

\* An outcome that is stored is well formed, and no set of outcomes becomes infinite.
LEMMA OutcomeEffect ==
  ASSUME StateType, NEW id \in Ids, NEW a \in Assessments, NEW f \in Confidences,
         NEW t \in Times, NEW by \in {"caller", "track"}, NEW o, o = Outcome(id, a, f, t, by)
  PROVE  /\ o \in OutcomeRows /\ IsFiniteSet(outcomes \cup {o})
         /\ o.pid = id /\ o.assessment = a /\ o.confidence = f /\ o.time = t /\ o.by = by
         /\ o.error # Indeterminate => o.error <= 2 * f
<1>1. Cardinality(outcomes) + 1 \in Nat BY FS_CardinalityType DEF StateType
<1>2. IsFiniteSet(outcomes \cup {o}) BY FS_AddElement DEF StateType
<1>3. /\ o.pid = id /\ o.assessment = a /\ o.confidence = f /\ o.time = t /\ o.by = by
      /\ o.error = WeightedError(a, f)
  BY DEF Outcome
<1>4. o \in OutcomeRows BY <1>1, ErrorEffect DEF Outcome, OutcomeRows
<1> QED BY <1>2, <1>3, <1>4, ErrorEffect

-----------------------------------------------------------------------------
(***************************************************************************)
(* What the steps do to the store and to the outcomes.                     *)
(***************************************************************************)

\* A prediction is written where none was, or where a late write landed: by a command,
\* or by a caller behind the guard, which leaves it
StoreWrite == \E id \in Ids, r \in Records :
  /\ store' = [store EXCEPT ![id] = r]
  /\ id \in landed' \/ store[id] = NoRecord
  /\ \/ id \in landed'
     \/ id \in Tracks /\ track'[id].pc # "idle"
     \/ \E c \in Callers : pc[c] = "put" /\ arg[c].id = id /\ pc'[c] = "idle"

\* Nobody replaces a stored prediction, but a write that lands late.
LEMMA StoreChange ==
  ASSUME WriterInv, [Next]_vars
  PROVE  landed \subseteq landed' /\ landed' \subseteq Correlated /\ (store' = store \/ StoreWrite)
<1> DEFINE Goal == landed \subseteq landed' /\ landed' \subseteq Correlated /\ (store' = store \/ StoreWrite)
<1>0. /\ arg \in [Callers -> Calls] /\ landed \subseteq Correlated
      /\ late \subseteq [id: Correlated, record: Records] /\ now \in Times
  BY DEF WriterInv, StateType
<1>1. ASSUME NEW c \in Callers, Put(c) PROVE Goal
  <2>1. arg[c].id \in Correlated /\ arg[c].record \in Records
    BY <1>1 DEF Put, WriterInv, CallsOK, CallOK
  <2>2. arg[c].id \notin landed => store[arg[c].id] = NoRecord
    BY <1>1 DEF Put, WriterInv, CallsOK, PutFree
  <2>3. store' = [store EXCEPT ![arg[c].id] = arg[c].record] /\ landed' = landed /\ pc[c] = "put"
    BY <1>1 DEF Put
  <2>4. pc'[c] = "idle" BY <1>1 DEF Put, Leave, WriterInv, StateType
  <2> QED BY <2>4, <1>0, <2>1, <2>2, <2>3, RecordTypes DEF StoreWrite
<1>2. ASSUME NEW c \in Callers, RecordFails(c) PROVE Goal
  <2>1. landed' = landed BY <1>2 DEF RecordFails
  <2>2. CASE store' = store BY <1>0, <2>1, <2>2
  <2>3. CASE store' # store
    <3>1. pc[c] = "put" /\ store' = [store EXCEPT ![arg[c].id] = arg[c].record]
      BY <1>2, <2>3 DEF RecordFails
    <3>2. arg[c].id \in Correlated /\ arg[c].record \in Records
      BY <3>1 DEF WriterInv, CallsOK, CallOK
    <3>3. arg[c].id \notin landed => store[arg[c].id] = NoRecord
      BY <3>1 DEF WriterInv, CallsOK, PutFree
    <3>4. pc'[c] = "idle" BY <1>2 DEF RecordFails, Leave, WriterInv, StateType
    <3> QED BY <1>0, <2>1, <3>1, <3>2, <3>3, <3>4, RecordTypes DEF StoreWrite
  <2> QED BY <2>2, <2>3
<1>3. ASSUME DeliverLate PROVE Goal
  <2>1. PICK w \in late : store' = [store EXCEPT ![w.id] = w.record] /\ landed' = landed \cup {w.id}
    BY <1>3 DEF DeliverLate
  <2>2. w.id \in Correlated /\ w.record \in Records BY <1>0
  <2> QED BY <1>0, <2>1, <2>2, RecordTypes DEF StoreWrite
<1>4. ASSUME NEW t \in Tracks, NEW f \in Confidences, TrackBegin(t, f) \/ TrackBeginFails(t, f) PROVE Goal
  <2> DEFINE r == [confidence |-> f, time |-> now]
  <2>1. landed' = landed /\ track[t].pc = "idle" /\ (store' = store \/ store' = [store EXCEPT ![t] = r])
    BY <1>4 DEF TrackBegin, TrackBeginFails, callersUnchanged
  <2>2. store[t] = NoRecord BY <2>1 DEF WriterInv, TrackOK
  <2>3. r \in Records BY <1>0 DEF Records
  <2>4. track'[t].pc # "idle"
    BY <1>4 DEF TrackBegin, TrackBeginFails, SetTrack, NoTrack, WriterInv, StateType
  <2> HIDE DEF r
  <2> QED BY <1>0, <2>1, <2>2, <2>3, <2>4, RecordTypes DEF StoreWrite
<1>5. ASSUME ~\E c \in Callers : Put(c) \/ RecordFails(c), ~DeliverLate,
             ~\E t \in Tracks, f \in Confidences : TrackBegin(t, f) \/ TrackBeginFails(t, f)
      PROVE  store' = store /\ landed' = landed
  BY ZenonT(60), <1>5 DEF Next, RecordBegin, GuardThread, GuardFile, GuardTimeout, Lookup, ResolveLoad, ResolveStore,
     ResolveFails, CommandEnds, TrackResolve, TrackResolveFails, TrackExcept, TrackExceptFails, TrackDies,
     ScanPredictions, ScanOutcomes, Tick, trackOnly, callersUnchanged, writersUnchanged, vars
<1> QED BY <1>0, <1>1, <1>2, <1>3, <1>4, <1>5

\* An outcome is about the stored prediction: confidence, time and error fit it.
Fits(o) == store[o.pid] # NoRecord /\ (o.pid \notin landed =>
  /\ o.confidence = store[o.pid].confidence /\ o.time >= store[o.pid].time
  /\ o.error # Indeterminate => o.error <= 2 * store[o.pid].confidence)

OutcomeWrite(o) == /\ outcomes' = outcomes \cup {o} /\ IsFiniteSet(outcomes')
                   /\ o \in OutcomeRows /\ Fits(o)

\* A caller's outcome fits: what was loaded in an earlier call is still stored.
LEMMA NewOutcomeFits ==
  ASSUME WriterInv, NEW c \in Callers, pc[c] = "outcome", outcomes' = outcomes \cup {NewOutcome(c)}
  PROVE  OutcomeWrite(NewOutcome(c)) /\ NewOutcome(c).by = "caller"
<1> DEFINE f == arg[c].record.confidence
           t == arg[c].record.time
           o == Outcome(arg[c].id, arg[c].assessment, f, t, "caller")
<1>1. /\ arg[c].id \in Ids /\ arg[c].record \in Records /\ arg[c].assessment \in Assessments
      /\ About(arg[c].id, arg[c].record)
  BY DEF WriterInv, CallsOK, CallOK
<1>2. f \in Confidences /\ t \in Times BY <1>1 DEF Records
<1>4. NewOutcome(c) = o BY DEF NewOutcome
<1>s. StateType BY DEF WriterInv
<1> HIDE DEF f, t
<1>3. /\ o \in OutcomeRows /\ IsFiniteSet(outcomes \cup {o})
      /\ o.pid = arg[c].id /\ o.confidence = f /\ o.time = t /\ o.by = "caller"
      /\ o.error # Indeterminate => o.error <= 2 * f
  BY <1>s, <1>1, <1>2, OutcomeEffect
<1>6. f = arg[c].record.confidence /\ t = arg[c].record.time BY DEF f, t
<1> HIDE DEF o
<1>5. Fits(o) BY <1>1, <1>3, <1>6 DEF Fits, About
<1> QED BY <1>3, <1>4, <1>5 DEF OutcomeWrite

\* The producer's outcome fits the prediction its command began with.
LEMMA TrackOutcomeFits ==
  ASSUME WriterInv, NEW t \in Tracks, track[t].pc \in {"resolve", "except"},
         outcomes' = outcomes \cup {TrackOutcome(t)}
  PROVE  /\ OutcomeWrite(TrackOutcome(t)) /\ TrackOutcome(t).by = "track" /\ TrackOutcome(t).pid = t
         /\ TrackOutcome(t).assessment = Verdict(t)
<1> DEFINE f == store[t].confidence
           o == Outcome(t, Verdict(t), f, now, "track")
<1>1. t \in Ids /\ store[t] \in Records /\ store[t].time <= now /\ now \in Times
  <2>1. store \in [Ids -> Records \cup {NoRecord}] /\ now \in Times BY DEF WriterInv, StateType
  <2> QED BY <2>1, RecordTypes DEF WriterInv, TrackOK
<1>2. f \in Confidences /\ store[t].time \in Times BY <1>1 DEF Records
<1>3. Verdict(t) \in Assessments BY DEF Verdict, Assessments
<1>5. TrackOutcome(t) = o BY DEF TrackOutcome
<1>s. StateType BY DEF WriterInv
<1> HIDE DEF f
<1>4. /\ o \in OutcomeRows /\ IsFiniteSet(outcomes \cup {o})
      /\ o.pid = t /\ o.confidence = f /\ o.time = now /\ o.by = "track" /\ o.assessment = Verdict(t)
      /\ o.error # Indeterminate => o.error <= 2 * f
  BY <1>s, <1>1, <1>2, <1>3, OutcomeEffect
<1>8. f = store[t].confidence BY DEF f
<1> HIDE DEF o
<1>6. now >= store[t].time BY <1>1, <1>2, RecordTypes
<1>7. Fits(o) BY <1>1, <1>4, <1>6, <1>8, RecordTypes DEF Fits
<1> QED BY <1>4, <1>5, <1>7 DEF OutcomeWrite

\* Outcomes are only added, one in a step, by a caller or for a command that runs.
LEMMA OutcomesChange ==
  ASSUME WriterInv, [Next]_vars
  PROVE  \/ outcomes' = outcomes
         \/ \E o : OutcomeWrite(o) /\ store' = store /\ landed' = landed
<1> DEFINE Goal == \/ outcomes' = outcomes
                   \/ \E o : OutcomeWrite(o) /\ store' = store /\ landed' = landed
<1>1. ASSUME NEW c \in Callers, ResolveStore(c) \/ ResolveFails(c) PROVE Goal
  <2>1. /\ pc[c] = "outcome" /\ store' = store /\ landed' = landed
        /\ outcomes' = outcomes \/ outcomes' = outcomes \cup {NewOutcome(c)}
    BY <1>1 DEF ResolveStore, ResolveFails
  <2> QED BY <2>1, NewOutcomeFits
<1>2. ASSUME NEW t \in Tracks,
             TrackResolve(t) \/ TrackResolveFails(t) \/ TrackExcept(t) \/ TrackExceptFails(t) PROVE Goal
  <2>1. /\ track[t].pc \in {"resolve", "except"} /\ store' = store /\ landed' = landed
        /\ outcomes' = outcomes \/ outcomes' = outcomes \cup {TrackOutcome(t)}
    BY <1>2 DEF TrackResolve, TrackResolveFails, TrackExcept, TrackExceptFails, trackOnly, callersUnchanged
  <2> QED BY <2>1, TrackOutcomeFits
<1>3. ASSUME ~\E c \in Callers : ResolveStore(c) \/ ResolveFails(c),
             ~\E t \in Tracks : TrackResolve(t) \/ TrackResolveFails(t) \/ TrackExcept(t) \/ TrackExceptFails(t)
      PROVE  outcomes' = outcomes
  BY ZenonT(60), <1>3 DEF Next, RecordBegin, GuardThread, GuardFile, GuardTimeout, Lookup, Put, RecordFails, ResolveLoad,
     DeliverLate, TrackBegin, TrackBeginFails, CommandEnds, TrackDies,
     ScanPredictions, ScanOutcomes, Tick, trackOnly, callersUnchanged, writersUnchanged, vars
<1> QED BY <1>1, <1>2, <1>3

-----------------------------------------------------------------------------
(***************************************************************************)
(* Stored predictions stay, and what is about them stays true.             *)
(***************************************************************************)

\* A stored prediction stays stored, and stays the same until a late write lands.
LEMMA StoredStays ==
  ASSUME WriterInv, [Next]_vars
  PROVE  /\ store' \in [Ids -> Records \cup {NoRecord}] /\ IsFiniteSet(Stored')
         /\ Stored \subseteq Stored'
         /\ \A id \in Ids : store[id] # NoRecord =>
              store'[id] # NoRecord /\ (id \notin landed' => store'[id] = store[id])
<1>1. store \in [Ids -> Records \cup {NoRecord}] /\ IsFiniteSet(Stored) BY DEF WriterInv, StateType
<1>2. CASE store' = store BY <1>1, <1>2 DEF Stored
<1>3. CASE StoreWrite
  <2>1. PICK id \in Ids, r \in Records : /\ store' = [store EXCEPT ![id] = r]
                                         /\ id \in landed' \/ store[id] = NoRecord
    BY <1>3 DEF StoreWrite
  <2>2. /\ store' \in [Ids -> Records \cup {NoRecord}]
        /\ \A i \in Ids : store'[i] = IF i = id THEN r ELSE store[i]
    BY <1>1, <2>1
  <2>3. Stored' = Stored \cup {id} BY <2>2, RecordTypes DEF Stored
  <2>4. IsFiniteSet(Stored') BY <1>1, <2>3, FS_AddElement
  <2> QED BY <2>1, <2>2, <2>3, <2>4, RecordTypes
<1> QED BY <1>2, <1>3, StoreChange

\* What a caller knows of a prediction stays true.
LEMMA AboutStays ==
  ASSUME WriterInv, [Next]_vars, NEW id \in Ids, NEW record, About(id, record)
  PROVE  About(id, record)'
BY StoreChange, StoredStays DEF About

\* Every outcome keeps fitting the stored prediction.
LEMMA OutcomesStep ==
  ASSUME WriterInv, [Next]_vars
  PROVE  /\ OutcomesOK' /\ outcomes \subseteq outcomes'
         /\ outcomes' \subseteq OutcomeRows /\ IsFiniteSet(outcomes')
<1>1. outcomes \subseteq OutcomeRows /\ IsFiniteSet(outcomes) /\ OutcomesOK BY DEF WriterInv, StateType
<1>2. CASE outcomes' = outcomes
  <2>1. ASSUME NEW o \in outcomes PROVE Fits(o)'
    <3>1. o.pid \in Ids BY <1>1 DEF OutcomeRows
    <3>2. Fits(o) BY <1>1 DEF OutcomesOK, Fits
    <3> QED BY <3>1, <3>2, StoreChange, StoredStays DEF Fits
  <2> QED BY <1>1, <1>2, <2>1 DEF OutcomesOK, Fits
<1>3. CASE \E o : OutcomeWrite(o) /\ store' = store /\ landed' = landed
  <2>1. PICK o : OutcomeWrite(o) /\ store' = store /\ landed' = landed BY <1>3
  <2>2. \A q \in outcomes \cup {o} : Fits(q) BY <1>1, <2>1 DEF OutcomesOK, Fits, OutcomeWrite
  <2>3. \A q \in outcomes' : Fits(q)' BY <2>1, <2>2 DEF Fits, OutcomeWrite
  <2> QED BY <1>1, <2>1, <2>3 DEF OutcomesOK, Fits, OutcomeWrite
<1> QED BY <1>2, <1>3, OutcomesChange

-----------------------------------------------------------------------------
(***************************************************************************)
(* The callers.                                                            *)
(***************************************************************************)

\* What one step makes of a caller: it stays, gives up, begins a recording, goes on
\* through the guard and the lookup, or begins to resolve what it loaded.
CallerMove(c) ==
  \/ pc'[c] = pc[c] /\ arg'[c] = arg[c]
  \/ pc'[c] = "idle"
  \/ pc'[c] = "wait" /\ arg'[c].id \in Correlated /\ arg'[c].record \in Records
  \/ pc[c] = "wait" /\ pc'[c] = "file" /\ arg'[c] = arg[c]
  \/ pc[c] = "file" /\ GuardFile(c) /\ pc'[c] = "lookup" /\ arg'[c] = arg[c]
  \/ pc[c] = "lookup" /\ pc'[c] = "put" /\ arg'[c] = arg[c] /\ store' = store /\ store[arg[c].id] = NoRecord
  \/ /\ pc'[c] = "outcome" /\ store' = store /\ landed' = landed
     /\ arg'[c].id \in Ids /\ arg'[c].record \in Records /\ arg'[c].assessment \in Assessments
     /\ About(arg'[c].id, arg'[c].record)

\* A step of one caller: the others stay where they are.
StepOf(c) == /\ pc' \in [Callers -> CallerStates] /\ arg' \in [Callers -> Calls]
             /\ CallerMove(c) /\ \A b \in Callers \ {c} : pc'[b] = pc[b] /\ arg'[b] = arg[b]

\* A caller at rest holds a call that is well formed.
LEMMA NoArgType == NoArg \in Calls
BY DEF NoArg, Calls

\* Leaving, and going on to another step
LEMMA LeaveStep ==
  ASSUME StateType, NEW c \in Callers, Leave(c) PROVE StepOf(c) /\ pc'[c] = "idle"
<1>1. pc' = [pc EXCEPT ![c] = "idle"] /\ arg' = [arg EXCEPT ![c] = NoArg] BY DEF Leave
<1> QED BY <1>1, NoArgType DEF StateType, StepOf, CallerMove, CallerStates

\* Going on, a caller keeps its call, and nobody else moves.
LEMMA GoStep ==
  ASSUME StateType, NEW c \in Callers, NEW to \in CallerStates, Go(c, to)
  PROVE  /\ pc' \in [Callers -> CallerStates] /\ arg' \in [Callers -> Calls]
         /\ pc'[c] = to /\ arg' = arg /\ \A b \in Callers \ {c} : pc'[b] = pc[b]
BY DEF Go, StateType

\* Every step moves at most one caller.
LEMMA CallersMove ==
  ASSUME StateType, [Next]_vars
  PROVE  (UNCHANGED <<pc, arg>>) \/ \E c \in Callers : StepOf(c)
<1> DEFINE Goal == (UNCHANGED <<pc, arg>>) \/ \E c \in Callers : StepOf(c)
<1>t. /\ pc \in [Callers -> CallerStates] /\ arg \in [Callers -> Calls] /\ now \in Times
      /\ store \in [Ids -> Records \cup {NoRecord}]
  BY DEF StateType
<1>1. ASSUME NEW c \in Callers, GuardTimeout(c) \/ Put(c) \/ RecordFails(c) \/ ResolveStore(c) \/ ResolveFails(c)
      PROVE  Goal
  BY <1>1, LeaveStep DEF GuardTimeout, Put, RecordFails, ResolveStore, ResolveFails
<1>2. ASSUME NEW c \in Callers, NEW id \in Correlated, NEW f \in Confidences, RecordBegin(c, id, f) PROVE Goal
  <2> DEFINE r == [confidence |-> f, time |-> now]
             new == [NoArg EXCEPT !.id = id, !.record = r]
  <2>1. r \in Records BY <1>t DEF Records
  <2>2. new \in Calls /\ new.id = id /\ new.record = r
    <3> HIDE DEF r
    <3> QED BY <2>1, RecordTypes DEF NoArg, Calls
  <2>3. pc' = [pc EXCEPT ![c] = "wait"] /\ arg' = [arg EXCEPT ![c] = new] BY <1>2 DEF RecordBegin
  <2> HIDE DEF new, r
  <2>4. StepOf(c) BY <1>t, <2>1, <2>2, <2>3 DEF StepOf, CallerMove, CallerStates
  <2> QED BY <2>4
<1>3. ASSUME NEW c \in Callers, GuardThread(c) PROVE Goal
  <2>1. pc[c] = "wait" /\ Go(c, "file") BY <1>3 DEF GuardThread
  <2>2. StepOf(c) BY <2>1, GoStep DEF StepOf, CallerMove, CallerStates
  <2> QED BY <2>2
<1>4. ASSUME NEW c \in Callers, GuardFile(c) PROVE Goal
  <2>1. pc[c] = "file" /\ Go(c, "lookup") BY <1>4 DEF GuardFile
  <2>2. StepOf(c) BY <1>4, <2>1, GoStep DEF StepOf, CallerMove, CallerStates
  <2> QED BY <2>2
<1>5. ASSUME NEW c \in Callers, Lookup(c) PROVE Goal
  <2>1. CASE Leave(c) BY <2>1, LeaveStep
  <2>2. CASE store[arg[c].id] = NoRecord /\ Go(c, "put")
    <3>1. pc[c] = "lookup" /\ store' = store BY <1>5 DEF Lookup
    <3>2. StepOf(c) BY <2>2, <3>1, GoStep DEF StepOf, CallerMove, CallerStates
    <3> QED BY <3>2
  <2> QED BY <1>5, <2>1, <2>2 DEF Lookup
<1>6. ASSUME NEW c \in Callers, NEW id \in Ids, NEW a \in Judgements, NEW t \in Times, ResolveLoad(c, id, a, t)
      PROVE  Goal
  <2> DEFINE r == [confidence |-> store[id].confidence, time |-> t]
             new == [id |-> id, assessment |-> a, record |-> r]
  <2>1. store[id] \in Records BY <1>t, <1>6 DEF ResolveLoad
  <2>2. r \in Records BY <2>1 DEF Records
  <2>3. a \in Assessments BY PredictionAssumption DEF Assessments
  <2>4. About(id, r) BY <1>6 DEF ResolveLoad, About
  <2>5. new \in Calls /\ new.id = id /\ new.record = r /\ new.assessment = a BY <2>2, <2>3 DEF Calls
  <2>6. /\ pc' = [pc EXCEPT ![c] = "outcome"] /\ arg' = [arg EXCEPT ![c] = new]
        /\ store' = store /\ landed' = landed
    BY <1>6 DEF ResolveLoad
  <2> HIDE DEF new, r
  <2>7. StepOf(c) BY <1>t, <2>2, <2>3, <2>4, <2>5, <2>6 DEF StepOf, CallerMove, CallerStates
  <2> QED BY <2>7
<1>7. ASSUME ~\E c \in Callers : \/ GuardTimeout(c) \/ Put(c) \/ RecordFails(c) \/ ResolveStore(c) \/ ResolveFails(c)
                                 \/ \E id \in Correlated, f \in Confidences : RecordBegin(c, id, f)
                                 \/ GuardThread(c) \/ GuardFile(c) \/ Lookup(c)
                                 \/ \E id \in Ids, a \in Judgements, t \in Times : ResolveLoad(c, id, a, t)
      PROVE  UNCHANGED <<pc, arg>>
  BY <1>7 DEF Next, DeliverLate, TrackBegin, TrackBeginFails, CommandEnds, TrackResolve, TrackResolveFails,
     TrackExcept, TrackExceptFails, TrackDies, ScanPredictions, ScanOutcomes, Tick, trackOnly,
     callersUnchanged, writersUnchanged, vars
<1> QED BY <1>1, <1>2, <1>3, <1>4, <1>5, <1>6, <1>7

\* Two callers never pass the file lock of one stripe together.
LEMMA GuardStep ==
  ASSUME WriterInv, [Next]_vars
  PROVE  Guarded' /\ pc' \in [Callers -> CallerStates] /\ arg' \in [Callers -> Calls]
<1>t. StateType /\ Guarded BY DEF WriterInv, CallsOK
<1>1. CASE UNCHANGED <<pc, arg>>
  BY <1>t, <1>1 DEF Guarded, HoldsFile, SameStripe, StateType
<1>2. ASSUME NEW c \in Callers, StepOf(c) PROVE Guarded'
  <2> SUFFICES ASSUME NEW b \in Callers, b # c, HoldsFile(b)', HoldsFile(c)', SameStripe(b, c)'
               PROVE  FALSE
    <3>1. ASSUME NEW a \in Callers, NEW b \in Callers, a # b, a # c, b # c, HoldsFile(a)', HoldsFile(b)'
          PROVE  ~SameStripe(a, b)'
      <4>1. pc'[a] = pc[a] /\ arg'[a] = arg[a] /\ pc'[b] = pc[b] /\ arg'[b] = arg[b]
        BY <1>2, <3>1 DEF StepOf
      <4> QED BY <1>t, <3>1, <4>1 DEF Guarded, HoldsFile, SameStripe
    <3>2. \A b \in Callers : SameStripe(b, c)' <=> SameStripe(c, b)' BY DEF SameStripe
    <3> QED BY <3>1, <3>2 DEF Guarded
  <2>1. pc'[b] = pc[b] /\ arg'[b] = arg[b] /\ HoldsFile(b) BY <1>2 DEF StepOf, HoldsFile
  <2>2. arg'[c] = arg[c] /\ (HoldsFile(c) \/ GuardFile(c))
    BY <1>2 DEF StepOf, CallerMove, HoldsFile
  <2>3. SameStripe(b, c) BY <2>1, <2>2 DEF SameStripe
  <2>4. CASE HoldsFile(c) BY <1>t, <2>1, <2>3, <2>4 DEF Guarded
  <2>5. CASE GuardFile(c) BY <2>1, <2>3, <2>5 DEF GuardFile, FileFree
  <2> QED BY <2>2, <2>4, <2>5
<1>3. \A c \in Callers : StepOf(c) => pc' \in [Callers -> CallerStates] /\ arg' \in [Callers -> Calls]
  BY DEF StepOf
<1> QED BY <1>t, <1>1, <1>2, <1>3, CallersMove DEF StateType

\* What a caller holds stays good through its own step ...
LEMMA CallStays ==
  ASSUME WriterInv, [Next]_vars, NEW c \in Callers, CallerMove(c)
  PROVE  CallOK(c)'
<1>0. CallOK(c) BY DEF WriterInv, CallsOK
<1>1. CASE arg'[c] = arg[c] /\ (pc'[c] = pc[c] \/ (pc[c] \in {"wait", "file", "lookup"} /\ pc'[c] # "outcome"))
  <2>1. ASSUME pc'[c] \in {"wait", "file", "lookup", "put"}
        PROVE  arg'[c].id \in Correlated /\ arg'[c].record \in Records
    BY <1>0, <1>1, <2>1 DEF CallOK
  <2>2. ASSUME pc'[c] = "outcome"
        PROVE  /\ arg'[c].id \in Ids /\ arg'[c].record \in Records /\ arg'[c].assessment \in Assessments
               /\ About(arg[c].id, arg[c].record)'
    <3>1. pc[c] = "outcome" BY <1>1, <2>2
    <3>2. /\ arg[c].id \in Ids /\ arg[c].record \in Records /\ arg[c].assessment \in Assessments
          /\ About(arg[c].id, arg[c].record)
      BY <1>0, <3>1 DEF CallOK
    <3>3. PICK id \in Ids, record \in Records : id = arg[c].id /\ record = arg[c].record BY <3>2
    <3>4. About(id, record)' BY <3>2, <3>3, AboutStays
    <3> QED BY <1>1, <3>2, <3>3, <3>4 DEF About
  <2> QED BY <2>1, <2>2 DEF CallOK
<1>2. CASE pc'[c] = "idle" BY <1>2 DEF CallOK
<1>3. CASE pc'[c] = "wait" /\ arg'[c].id \in Correlated /\ arg'[c].record \in Records
  BY <1>3 DEF CallOK
<1>4. CASE /\ pc'[c] = "outcome" /\ store' = store /\ landed' = landed
           /\ arg'[c].id \in Ids /\ arg'[c].record \in Records /\ arg'[c].assessment \in Assessments
           /\ About(arg'[c].id, arg'[c].record)
  BY <1>4 DEF CallOK, About
<1> QED BY <1>1, <1>2, <1>3, <1>4 DEF CallerMove

\* ... and what it found missing is missing until it stores it.
LEMMA PutStays ==
  ASSUME WriterInv, [Next]_vars, NEW c \in Callers, CallerMove(c)
  PROVE  PutFree(c)'
<1> SUFFICES ASSUME pc'[c] = "put", arg'[c].id \notin landed' PROVE store'[arg'[c].id] = NoRecord
  BY DEF PutFree
<1>1. arg'[c] = arg[c] /\ (pc[c] = "put" \/ (store' = store /\ store[arg[c].id] = NoRecord))
  BY DEF CallerMove
<1>2. CASE pc[c] = "put"
  <2>1. arg[c].id \in Correlated /\ store[arg[c].id] = NoRecord
    BY <1>1, <1>2, StoreChange DEF WriterInv, CallsOK, CallOK, PutFree
  <2>2. CASE StoreWrite
    <3>1. PICK id \in Ids, r \in Records :
            /\ store' = [store EXCEPT ![id] = r]
            /\ id \in landed' \/ id \in Tracks
               \/ \E b \in Callers : pc[b] = "put" /\ arg[b].id = id /\ pc'[b] = "idle"
      BY <2>2 DEF StoreWrite
    <3>2. arg[c].id # id
      <4>1. ASSUME NEW b \in Callers, pc[b] = "put", arg[b].id = arg[c].id, pc'[b] = "idle" PROVE FALSE
        <5>1. HoldsFile(b) /\ HoldsFile(c) /\ SameStripe(b, c) /\ b # c
          BY <1>2, <4>1 DEF HoldsFile, SameStripe
        <5> QED BY <5>1 DEF WriterInv, CallsOK, Guarded
      <4> QED BY <1>1, <2>1, <3>1, <4>1, RecordTypes
    <3>3. store \in [Ids -> Records \cup {NoRecord}] BY DEF WriterInv, StateType
    <3> QED BY <1>1, <2>1, <3>1, <3>2, <3>3, RecordTypes
  <2> QED BY <1>1, <2>1, <2>2, StoreChange
<1> QED BY <1>1, <1>2

\* Every step keeps the guard and what the callers hold.
LEMMA CallsStep ==
  ASSUME WriterInv, [Next]_vars
  PROVE  CallsOK'
<1>1. \A c \in Callers : CallerMove(c)
  <2>1. \A b, c \in Callers : StepOf(c) => CallerMove(b) BY DEF StepOf, CallerMove
  <2>2. (UNCHANGED <<pc, arg>>) => \A c \in Callers : CallerMove(c) BY DEF CallerMove
  <2> QED BY <2>1, <2>2, CallersMove DEF WriterInv
<1> QED BY <1>1, CallStays, PutStays, GuardStep DEF CallsOK

-----------------------------------------------------------------------------
(***************************************************************************)
(* The answers to recordings.                                              *)
(***************************************************************************)

\* A recording is answered with the record that is stored.
LEMMA AckedChange ==
  ASSUME WriterInv, [Next]_vars
  PROVE  \/ acked' = acked
         \/ \E id \in Correlated, r \in Records :
              acked' = [acked EXCEPT ![id] = @ \cup {r}] /\ store'[id] = r
<1> DEFINE Goal == \/ acked' = acked
                   \/ \E id \in Correlated, r \in Records :
                        acked' = [acked EXCEPT ![id] = @ \cup {r}] /\ store'[id] = r
<1>t. store \in [Ids -> Records \cup {NoRecord}] BY DEF WriterInv, StateType
<1>1. ASSUME NEW c \in Callers, Lookup(c) PROVE Goal
  <2>1. arg[c].id \in Correlated /\ arg[c].id \in Ids
    BY <1>1, RecordTypes DEF Lookup, WriterInv, CallsOK, CallOK
  <2>2. CASE store[arg[c].id] = NoRecord BY <1>1, <2>2 DEF Lookup
  <2>3. CASE store[arg[c].id] # NoRecord
    <3>1. /\ acked' = [acked EXCEPT ![arg[c].id] = @ \cup {store[arg[c].id]}] /\ store' = store
      BY <1>1, <2>3 DEF Lookup
    <3>2. store[arg[c].id] \in Records BY <1>t, <2>1, <2>3
    <3> QED BY <2>1, <3>1, <3>2
  <2> QED BY <2>2, <2>3
<1>2. ASSUME NEW c \in Callers, Put(c) PROVE Goal
  <2>1. arg[c].id \in Correlated /\ arg[c].id \in Ids /\ arg[c].record \in Records
    BY <1>2, RecordTypes DEF Put, WriterInv, CallsOK, CallOK
  <2>2. /\ store' = [store EXCEPT ![arg[c].id] = arg[c].record]
        /\ acked' = [acked EXCEPT ![arg[c].id] = @ \cup {arg[c].record}]
    BY <1>2 DEF Put
  <2>3. store'[arg[c].id] = arg[c].record BY <1>t, <2>1, <2>2
  <2> QED BY <2>1, <2>2, <2>3
<1>3. ASSUME ~\E c \in Callers : Lookup(c) \/ Put(c) PROVE acked' = acked
  BY ZenonT(60), <1>3 DEF Next, RecordBegin, GuardThread, GuardFile, GuardTimeout, RecordFails, ResolveLoad, ResolveStore,
     ResolveFails, DeliverLate, TrackBegin, TrackBeginFails, CommandEnds, TrackResolve, TrackResolveFails,
     TrackExcept, TrackExceptFails, TrackDies, ScanPredictions, ScanOutcomes, Tick, trackOnly,
     callersUnchanged, writersUnchanged, vars
<1> QED BY <1>1, <1>2, <1>3

\* What was answered before stays the stored record.
LEMMA AckedStep ==
  ASSUME WriterInv, [Next]_vars
  PROVE  AckedOK' /\ acked' \in [Ids -> SUBSET Records]
<1>t. acked \in [Ids -> SUBSET Records] /\ landed \subseteq landed' BY StoreChange DEF WriterInv, StateType
<1>1. \A id \in Ids \ landed' : acked[id] \subseteq {store'[id]}
  <2> SUFFICES ASSUME NEW id \in Ids, id \notin landed', NEW r \in acked[id] PROVE r = store'[id]
    OBVIOUS
  <2>1. r = store[id] BY <1>t DEF WriterInv, AckedOK, AckedIsStored
  <2>2. r # NoRecord BY <1>t, RecordTypes
  <2> QED BY <2>1, <2>2, StoredStays
<1>2. CASE acked' = acked BY <1>t, <1>1, <1>2 DEF WriterInv, AckedOK, AckedIsStored
<1>3. ASSUME NEW id \in Correlated, NEW r \in Records,
             acked' = [acked EXCEPT ![id] = @ \cup {r}], store'[id] = r
      PROVE  AckedOK' /\ acked' \in [Ids -> SUBSET Records]
  <2>1. id \in Ids /\ id \notin Tracks BY RecordTypes
  <2>2. acked' \in [Ids -> SUBSET Records] BY <1>t, <1>3, <2>1
  <2>3. \A i \in Ids : acked'[i] = IF i = id THEN acked[i] \cup {r} ELSE acked[i] BY <1>t, <1>3
  <2>4. \A i \in Ids \ landed' : acked'[i] \subseteq {store'[i]} BY <1>1, <1>3, <2>3
  <2>5. \A t \in Tracks : acked'[t] = {} BY <2>1, <2>3, RecordTypes DEF WriterInv, AckedOK
  <2> QED BY <2>2, <2>4, <2>5 DEF AckedOK, AckedIsStored
<1> QED BY <1>2, <1>3, AckedChange

-----------------------------------------------------------------------------
(***************************************************************************)
(* The tracked commands.                                                   *)
(***************************************************************************)

\* The clock does not run backwards, nor past its bound.
LEMMA ClockStep ==
  ASSUME WriterInv, [Next]_vars
  PROVE  now \in Times /\ now' \in Times /\ now <= now'
<1>1. now \in Times BY DEF WriterInv, StateType
<1>2. now' = now \/ (Tick /\ now' = now + 1)
  BY ZenonT(60) DEF Next, RecordBegin, GuardThread, GuardFile, GuardTimeout, Lookup, Put, RecordFails, ResolveLoad,
     ResolveStore, ResolveFails, DeliverLate, TrackBegin, TrackBeginFails, CommandEnds, TrackResolve,
     TrackResolveFails, TrackExcept, TrackExceptFails, TrackDies, ScanPredictions, ScanOutcomes, Tick, trackOnly,
     callersUnchanged, writersUnchanged, vars
<1>3. now' \in Times /\ now <= now' BY <1>1, <1>2, PredictionAssumption DEF Times, Tick
<1> QED BY <1>1, <1>3

\* What is stored for a command that began stays; for one that did not there is nothing.
LEMMA TrackStore ==
  ASSUME WriterInv, [Next]_vars, NEW t \in Tracks
  PROVE  /\ store[t] # NoRecord => store'[t] = store[t] /\ store'[t] # NoRecord
         /\ track'[t].pc = "idle" /\ store[t] = NoRecord => store'[t] = NoRecord
         /\ now \in Times /\ now' \in Times /\ now <= now'
<1>1. t \in Ids /\ t \notin landed' BY RecordTypes, StoreChange
<1>2. store[t] # NoRecord => store'[t] = store[t] /\ store'[t] # NoRecord BY <1>1, StoredStays
<1>3. ASSUME track'[t].pc = "idle", store[t] = NoRecord PROVE store'[t] = NoRecord
  <2>1. CASE StoreWrite
    <3>1. PICK id \in Ids, r \in Records :
            /\ store' = [store EXCEPT ![id] = r]
            /\ id \in landed' \/ (id \in Tracks /\ track'[id].pc # "idle")
               \/ \E c \in Callers : pc[c] = "put" /\ arg[c].id = id
      BY <2>1 DEF StoreWrite
    <3>2. \A c \in Callers : pc[c] = "put" => arg[c].id \in Correlated BY DEF WriterInv, CallsOK, CallOK
    <3>3. id # t BY <1>1, <1>3, <3>1, <3>2, RecordTypes
    <3> QED BY <1>3, <3>1, <3>3
  <2> QED BY <1>3, <2>1, StoreChange
<1>4. now \in Times /\ now' \in Times /\ now <= now' BY ClockStep
<1> QED BY <1>2, <1>3, <1>4

\* A command that does not move, and of which nobody stores an outcome.
LEMMA TrackStays ==
  ASSUME WriterInv, [Next]_vars, NEW t \in Tracks, track'[t] = track[t], OfTrack(t)' = OfTrack(t)
  PROVE  TrackOK(t)'
<1>1. TrackOK(t) BY DEF WriterInv
<1>2. outcomes \subseteq outcomes' BY OutcomesStep
<1>3. store[t] # NoRecord /\ store[t].time <= now =>
        store'[t] # NoRecord /\ store'[t].time <= now'
  <2> SUFFICES ASSUME store[t] # NoRecord, store[t].time <= now PROVE store'[t].time <= now'
    BY TrackStore
  <2>1. store'[t] = store[t] /\ now \in Times /\ now' \in Times /\ now <= now' BY TrackStore
  <2>2. store[t] \in Records BY RecordTypes DEF WriterInv, StateType
  <2>3. store[t].time \in Times BY <2>2 DEF Records
  <2> QED BY <2>1, <2>3, RecordTypes
<1>4. store[t] = NoRecord /\ track[t].pc = "idle" => store'[t] = NoRecord BY TrackStore
<1> QED BY <1>1, <1>2, <1>3, <1>4 DEF TrackOK

\* Callers' outcomes are not the producer's, and a command's are its own.
LEMMA OfTrackKept ==
  ASSUME NEW t, NEW o, outcomes' = outcomes \cup {o}, o.by # "track" \/ o.pid # t
  PROVE  OfTrack(t)' = OfTrack(t)
BY DEF OfTrack, OutcomesOf

\* The producer adds one outcome of a command.
LEMMA OfTrackAdded ==
  ASSUME NEW t, NEW o, outcomes' = outcomes \cup {o}, o.by = "track", o.pid = t
  PROVE  OfTrack(t)' = OfTrack(t) \cup {o}
BY DEF OfTrack, OutcomesOf

\* The producer's own steps of one command
TrackStep(t) == \/ \E f \in Confidences : TrackBegin(t, f) \/ TrackBeginFails(t, f)
                \/ \E r \in {"ok", "failed", "timeout", "error"} : CommandEnds(t, r)
                \/ TrackResolve(t) \/ TrackResolveFails(t)
                \/ TrackExcept(t) \/ TrackExceptFails(t) \/ TrackDies(t)

\* A command's row changes in its own steps only.
LEMMA TrackRow ==
  ASSUME WriterInv, [Next]_vars
  PROVE  track' = track \/ \E t \in Tracks, r \in TrackRows : TrackStep(t) /\ track' = [track EXCEPT ![t] = r]
<1> DEFINE Goal == track' = track \/ \E t \in Tracks, r \in TrackRows :
                                       TrackStep(t) /\ track' = [track EXCEPT ![t] = r]
<1>t. track \in [Tracks -> TrackRows] BY DEF WriterInv, StateType
<1>1. ASSUME NEW t \in Tracks, NEW f \in Confidences, TrackBegin(t, f) \/ TrackBeginFails(t, f) PROVE Goal
  <2> DEFINE r == [NoTrack EXCEPT !.pc = "running"]
             q == [pc |-> "raised", result |-> "notrun", error |-> TRUE]
  <2>1. track' = [track EXCEPT ![t] = r] \/ track' = [track EXCEPT ![t] = q]
    BY <1>1 DEF TrackBegin, TrackBeginFails, SetTrack
  <2>2. r \in TrackRows /\ q \in TrackRows BY DEF NoTrack, TrackRows, TrackStates, TrackResults
  <2> HIDE DEF r, q
  <2> QED BY <1>1, <2>1, <2>2 DEF TrackStep
<1>2. ASSUME NEW t \in Tracks, NEW result \in {"ok", "failed", "timeout", "error"}, CommandEnds(t, result) PROVE Goal
  <2> DEFINE to == IF result = "error" THEN "except" ELSE "resolve"
             r == [track[t] EXCEPT !.pc = to, !.result = result]
  <2>1. track' = [track EXCEPT ![t] = r] BY <1>2 DEF CommandEnds, SetTrack
  <2>2. to \in TrackStates BY DEF TrackStates
  <2>3. r \in TrackRows
    <3> HIDE DEF to
    <3> QED BY <1>t, <2>2 DEF TrackRows, TrackResults
  <2> HIDE DEF r
  <2> QED BY <1>2, <2>1, <2>3 DEF TrackStep
<1>3. ASSUME NEW t \in Tracks, TrackResolve(t) \/ TrackExcept(t) PROVE Goal
  <2>1. PICK to \in TrackStates : track' = [track EXCEPT ![t] = [track[t] EXCEPT !.pc = to]]
    BY <1>3 DEF TrackResolve, TrackExcept, SetTrack, TrackStates
  <2>2. [track[t] EXCEPT !.pc = to] \in TrackRows BY <1>t DEF TrackRows
  <2> QED BY <1>3, <2>1, <2>2 DEF TrackStep
<1>4. ASSUME NEW t \in Tracks, TrackResolveFails(t) \/ TrackExceptFails(t) \/ TrackDies(t) PROVE Goal
  <2>1. PICK to \in TrackStates : track' = [track EXCEPT ![t] = [track[t] EXCEPT !.pc = to, !.error = TRUE]]
    BY <1>4 DEF TrackResolveFails, TrackExceptFails, TrackDies, SetTrack, TrackStates
  <2>2. [track[t] EXCEPT !.pc = to, !.error = TRUE] \in TrackRows BY <1>t, Zenon DEF TrackRows
  <2> QED BY <1>4, <2>1, <2>2 DEF TrackStep
<1>5. ASSUME ~\E t \in Tracks : TrackStep(t) PROVE track' = track
  BY ZenonT(60), <1>5 DEF Next, TrackStep, RecordBegin, GuardThread, GuardFile, GuardTimeout, Lookup, Put, RecordFails,
     ResolveLoad, ResolveStore, ResolveFails, DeliverLate, ScanPredictions, ScanOutcomes, Tick, trackOnly,
     callersUnchanged, writersUnchanged, vars
<1> QED BY <1>1, <1>2, <1>3, <1>4, <1>5 DEF TrackStep

\* The row of a command after a step of its own.
LEMMA TrackRowAfter ==
  ASSUME WriterInv, NEW t \in Tracks, NEW r, track' = [track EXCEPT ![t] = r]
  PROVE  track'[t] = r
BY DEF WriterInv, StateType

\* Its own steps keep what is known of a command: it has at most one outcome of the
\* producer's, which says whether it returned 0.
LEMMA TrackOwnStep ==
  ASSUME WriterInv, [Next]_vars, NEW t \in Tracks, TrackStep(t)
  PROVE  TrackOK(t)'
<1>t. /\ TrackOK(t) /\ track[t] \in TrackRows /\ t \in Ids /\ now \in Times
      /\ store \in [Ids -> Records \cup {NoRecord}]
  BY RecordTypes DEF WriterInv, StateType
<1>s. ASSUME store[t] # NoRecord /\ store[t].time <= now, now' = now
      PROVE  store'[t] # NoRecord /\ store'[t].time <= now'
  BY <1>s, TrackStore
<1>1. ASSUME NEW f \in Confidences, TrackBegin(t, f) PROVE TrackOK(t)'
  <2> DEFINE r == [confidence |-> f, time |-> now]
             row == [NoTrack EXCEPT !.pc = "running"]
  <2>1. /\ store' = [store EXCEPT ![t] = r] /\ track' = [track EXCEPT ![t] = row]
        /\ outcomes' = outcomes /\ now' = now /\ track[t].pc = "idle"
    BY <1>1 DEF TrackBegin, SetTrack
  <2>2. row.pc = "running" BY DEF NoTrack
  <2>3. r \in Records /\ r.time = now BY <1>t DEF Records
  <2>4. OfTrack(t)' = {} BY <1>t, <2>1 DEF TrackOK, OfTrack, OutcomesOf
  <2> HIDE DEF r, row
  <2>5. track'[t].pc = "running" BY <2>1, <2>2, TrackRowAfter
  <2>6. store'[t] = r /\ r # NoRecord BY <1>t, <2>1, <2>3, RecordTypes
  <2>7. store'[t].time <= now' BY <1>t, <2>1, <2>3, <2>6, RecordTypes
  <2> QED BY <2>4, <2>5, <2>6, <2>7 DEF TrackOK
<1>2. ASSUME NEW f \in Confidences, TrackBeginFails(t, f) PROVE TrackOK(t)'
  <2>1. track'[t] = [pc |-> "raised", result |-> "notrun", error |-> TRUE]
    BY <1>2, TrackRowAfter DEF TrackBeginFails, SetTrack
  <2>2. OfTrack(t)' = {} BY <1>2, <1>t DEF TrackBeginFails, TrackOK, OfTrack, OutcomesOf
  <2> QED BY <2>1, <2>2 DEF TrackOK
<1>3. ASSUME NEW result \in {"ok", "failed", "timeout", "error"}, CommandEnds(t, result) PROVE TrackOK(t)'
  <2> DEFINE to == IF result = "error" THEN "except" ELSE "resolve"
             row == [track[t] EXCEPT !.pc = to, !.result = result]
  <2>1. /\ track' = [track EXCEPT ![t] = row] /\ track[t].pc = "running"
        /\ outcomes' = outcomes /\ now' = now
    BY <1>3 DEF CommandEnds, SetTrack, trackOnly
  <2>2. row.pc = to /\ row.result = result BY <1>t DEF TrackRows
  <2>3. OfTrack(t)' = {} BY <1>t, <2>1 DEF TrackOK, OfTrack, OutcomesOf
  <2> HIDE DEF row
  <2>4. track'[t].pc = to /\ track'[t].result = result BY <2>1, <2>2, TrackRowAfter
  <2>5. store'[t] # NoRecord /\ store'[t].time <= now' BY <1>s, <1>t, <2>1 DEF TrackOK
  <2>6. \/ to = "except" /\ result = "error"
        \/ to = "resolve" /\ result \in {"ok", "failed", "timeout"}
    <3>1. CASE result = "error" BY <3>1
    <3>2. CASE result # "error" BY <1>3, <3>2
    <3> QED BY <3>1, <3>2
  <2> HIDE DEF to
  <2> QED BY <2>3, <2>4, <2>5, <2>6 DEF TrackOK
<1>4. ASSUME TrackResolve(t) PROVE TrackOK(t)'
  <2> DEFINE to == IF track[t].result = "timeout" THEN "raised" ELSE "done"
             row == [track[t] EXCEPT !.pc = to]
             o == TrackOutcome(t)
  <2>1. /\ track' = [track EXCEPT ![t] = row] /\ track[t].pc = "resolve" /\ outcomes' = outcomes \cup {o}
    BY <1>4 DEF TrackResolve, SetTrack
  <2>2. row.pc = to /\ row.result = track[t].result /\ row.error = track[t].error BY <1>t DEF TrackRows
  <2> HIDE DEF row
  <2>3. track'[t].pc = to /\ track'[t].result = track[t].result /\ track'[t].error = track[t].error
    BY <2>1, <2>2, TrackRowAfter
  <2>4. /\ o.by = "track" /\ o.pid = t /\ (o.assessment = "confirmed" <=> track[t].result = "ok")
    BY <2>1, TrackOutcomeFits DEF Verdict
  <2> HIDE DEF o
  <2>5. OfTrack(t)' = OfTrack(t) \cup {o} BY <2>1, <2>4, OfTrackAdded
  <2>6. ~track[t].error => OfTrack(t)' = {o} BY <1>t, <2>1, <2>5 DEF TrackOK
  <2>7. \A q \in OfTrack(t)' : q.assessment = "confirmed" => track[t].result = "ok"
    BY <1>t, <2>4, <2>5 DEF TrackOK
  <2>8. to \in {"raised", "done"} OBVIOUS
  <2> HIDE DEF to
  <2> QED BY <2>3, <2>4, <2>6, <2>7, <2>8 DEF TrackOK
<1>5. ASSUME TrackExcept(t) PROVE TrackOK(t)'
  <2> DEFINE row == [track[t] EXCEPT !.pc = "raised"]
             o == TrackOutcome(t)
  <2>1. /\ track' = [track EXCEPT ![t] = row] /\ track[t].pc = "except" /\ outcomes' = outcomes \cup {o}
    BY <1>5 DEF TrackExcept, SetTrack
  <2>2. row.pc = "raised" /\ row.result = track[t].result /\ row.error = track[t].error
    BY <1>t DEF TrackRows
  <2> HIDE DEF row
  <2>3. /\ track'[t].pc = "raised" /\ track'[t].result = track[t].result
        /\ track'[t].error = track[t].error
    BY <2>1, <2>2, TrackRowAfter
  <2>4. o.by = "track" /\ o.pid = t /\ o.assessment = "contradicted"
    BY <2>1, TrackOutcomeFits DEF Verdict
  <2> HIDE DEF o
  <2>5. OfTrack(t)' = OfTrack(t) \cup {o} BY <2>1, <2>4, OfTrackAdded
  <2>6. ~track[t].error => OfTrack(t)' = {o} /\ track[t].result = "error" BY <1>t, <2>1, <2>5 DEF TrackOK
  <2>7. \A q \in OfTrack(t)' : q.assessment = "confirmed" => track[t].result = "ok"
    BY <1>t, <2>4, <2>5 DEF TrackOK
  <2> QED BY <2>3, <2>4, <2>6, <2>7 DEF TrackOK
<1>6. ASSUME TrackResolveFails(t) \/ TrackExceptFails(t) \/ TrackDies(t) PROVE TrackOK(t)'
  <2>1. PICK to \in {"except", "raised", "dead"} :
          /\ track' = [track EXCEPT ![t] = [track[t] EXCEPT !.pc = to, !.error = TRUE]]
          /\ to = "except" => track[t].pc = "resolve"
          /\ now' = now
          /\ \/ outcomes' = outcomes
             \/ track[t].pc \in {"resolve", "except"} /\ outcomes' = outcomes \cup {TrackOutcome(t)}
    BY <1>6 DEF TrackResolveFails, TrackExceptFails, TrackDies, SetTrack, trackOnly
  <2> DEFINE row == [track[t] EXCEPT !.pc = to, !.error = TRUE]
  <2>2. row.pc = to /\ row.error = TRUE /\ row.result = track[t].result BY <1>t DEF TrackRows
  <2> HIDE DEF row
  <2>3. track'[t].pc = to /\ track'[t].error = TRUE /\ track'[t].result = track[t].result
    BY <2>1, <2>2, TrackRowAfter DEF row
  <2>4. to = "except" => store'[t] # NoRecord /\ store'[t].time <= now' BY <1>s, <1>t, <2>1 DEF TrackOK
  <2>5. CASE outcomes' = outcomes
    <3>1. OfTrack(t)' = OfTrack(t) BY <2>5 DEF OfTrack, OutcomesOf
    <3> QED BY <1>t, <2>3, <2>4, <3>1 DEF TrackOK
  <2>6. CASE track[t].pc \in {"resolve", "except"} /\ outcomes' = outcomes \cup {TrackOutcome(t)}
    <3> DEFINE o == TrackOutcome(t)
    <3>1. o.by = "track" /\ o.pid = t /\ (o.assessment = "confirmed" => track[t].result = "ok")
      BY <2>6, TrackOutcomeFits DEF Verdict
    <3> HIDE DEF o
    <3>2. outcomes' = outcomes \cup {o} BY <2>6 DEF o
    <3>3. OfTrack(t)' = OfTrack(t) \cup {o} BY <3>1, <3>2, OfTrackAdded
    <3>4. \A q \in OfTrack(t)' : q.assessment = "confirmed" => track[t].result = "ok"
      BY <1>t, <3>1, <3>3 DEF TrackOK
    <3> QED BY <2>3, <2>4, <3>4 DEF TrackOK
  <2> QED BY <2>1, <2>5, <2>6
<1> QED BY <1>1, <1>2, <1>3, <1>4, <1>5, <1>6 DEF TrackStep

\* Steps of callers, the reader, the clock and other commands leave a command alone.
LEMMA TrackOthersStep ==
  ASSUME WriterInv, [Next]_vars, NEW t \in Tracks, ~TrackStep(t)
  PROVE  track'[t] = track[t] /\ OfTrack(t)' = OfTrack(t)
<1>1. track'[t] = track[t] BY TrackRow DEF WriterInv, StateType
<1>2. ASSUME outcomes' = outcomes PROVE OfTrack(t)' = OfTrack(t) BY <1>2 DEF OfTrack, OutcomesOf
<1>3. ASSUME NEW c \in Callers, ResolveStore(c) \/ ResolveFails(c) PROVE OfTrack(t)' = OfTrack(t)
  <2>1. pc[c] = "outcome" /\ (outcomes' = outcomes \/ outcomes' = outcomes \cup {NewOutcome(c)})
    BY <1>3 DEF ResolveStore, ResolveFails
  <2> QED BY <1>2, <2>1, NewOutcomeFits, OfTrackKept
<1>4. ASSUME NEW u \in Tracks, u # t, TrackStep(u) PROVE OfTrack(t)' = OfTrack(t)
  <2>1. \/ outcomes' = outcomes
        \/ track[u].pc \in {"resolve", "except"} /\ outcomes' = outcomes \cup {TrackOutcome(u)}
    BY <1>4 DEF TrackStep, TrackBegin, TrackBeginFails, CommandEnds, TrackResolve, TrackResolveFails,
       TrackExcept, TrackExceptFails, TrackDies, trackOnly
  <2> QED BY <1>2, <1>4, <2>1, TrackOutcomeFits, OfTrackKept
<1>5. ASSUME ~\E c \in Callers : ResolveStore(c) \/ ResolveFails(c), ~\E u \in Tracks : TrackStep(u)
      PROVE  outcomes' = outcomes
  BY ZenonT(60), <1>5 DEF Next, TrackStep, RecordBegin, GuardThread, GuardFile, GuardTimeout, Lookup, Put, RecordFails,
     ResolveLoad, DeliverLate, ScanPredictions, ScanOutcomes, Tick, trackOnly,
     callersUnchanged, writersUnchanged, vars
<1> QED BY <1>1, <1>2, <1>3, <1>4, <1>5

\* Every step keeps what is known of a command.
LEMMA TracksStep ==
  ASSUME WriterInv, [Next]_vars, NEW t \in Tracks
  PROVE  TrackOK(t)'
BY TrackOwnStep, TrackOthersStep, TrackStays

-----------------------------------------------------------------------------
(***************************************************************************)
(* The invariant of the writers.                                           *)
(***************************************************************************)

\* A write that timed out is one of a caller behind the guard.
LEMMA LateStep ==
  ASSUME WriterInv, [Next]_vars
  PROVE  late' \subseteq [id: Correlated, record: Records]
<1>t. late \subseteq [id: Correlated, record: Records] BY DEF WriterInv, StateType
<1>1. ASSUME NEW c \in Callers, RecordFails(c) PROVE late' \subseteq [id: Correlated, record: Records]
  <2>1. late' = late \/ (pc[c] = "put" /\ late' = late \cup {[id |-> arg[c].id, record |-> arg[c].record]})
    BY <1>1 DEF RecordFails
  <2>2. pc[c] = "put" => arg[c].id \in Correlated /\ arg[c].record \in Records
    BY DEF WriterInv, CallsOK, CallOK
  <2> QED BY <1>t, <2>1, <2>2
<1>2. ASSUME DeliverLate PROVE late' \subseteq late BY <1>2 DEF DeliverLate
<1>3. ASSUME ~DeliverLate, ~\E c \in Callers : RecordFails(c) PROVE late' = late
  BY ZenonT(60), <1>3 DEF Next, RecordBegin, GuardThread, GuardFile, GuardTimeout, Lookup, Put, ResolveLoad,
     ResolveStore, ResolveFails, TrackBegin, TrackBeginFails, CommandEnds, TrackResolve, TrackResolveFails,
     TrackExcept, TrackExceptFails, TrackDies, ScanPredictions, ScanOutcomes, Tick, trackOnly,
     callersUnchanged, writersUnchanged, vars
<1> QED BY <1>t, <1>1, <1>2, <1>3

\* The rows of the commands keep their type.
LEMMA TrackType == WriterInv /\ [Next]_vars => track' \in [Tracks -> TrackRows]
BY TrackRow DEF WriterInv, StateType

\* The empty store, and callers and commands that have not begun.
LEMMA WriterInit == Init => WriterInv
<1> SUFFICES ASSUME Init PROVE WriterInv OBVIOUS
<1>1. 0 \in Times BY PredictionAssumption DEF Times
<1>2. Stored = {} BY DEF Init, Stored
<1>3. NoTrack \in TrackRows BY DEF NoTrack, TrackRows, TrackStates, TrackResults
<1>4. NoScan \in Scans BY <1>1 DEF NoScan, Scans
<1>5. StateType
  BY <1>1, <1>2, <1>3, <1>4, NoArgType, FS_EmptySet DEF Init, StateType, CallerStates
<1>6. CallsOK BY DEF Init, CallsOK, Guarded, HoldsFile, CallOK, PutFree
<1>7. AckedOK BY RecordTypes DEF Init, AckedOK, AckedIsStored
<1>8. OutcomesOK BY DEF Init, OutcomesOK
<1>9. ASSUME NEW t \in Tracks PROVE TrackOK(t)
  <2>1. track[t].pc = "idle" /\ ~track[t].error BY DEF Init, NoTrack
  <2>2. store[t] = NoRecord /\ OfTrack(t) = {} BY RecordTypes DEF Init, OfTrack, OutcomesOf
  <2> QED BY <2>1, <2>2 DEF TrackOK
<1> QED BY <1>5, <1>6, <1>7, <1>8, <1>9 DEF WriterInv

-----------------------------------------------------------------------------
(***************************************************************************)
(* The reader.                                                             *)
(***************************************************************************)

\* An image of a finite set is no larger; an injective one is as large.
LEMMA ImageSize ==
  ASSUME NEW S, IsFiniteSet(S), NEW T, NEW f \in [S -> T], \A y \in T : \E x \in S : f[x] = y
  PROVE  /\ IsFiniteSet(T) /\ Cardinality(T) <= Cardinality(S)
         /\ Cardinality(S) \in Nat /\ Cardinality(T) \in Nat
         /\ (\A x, y \in S : f[x] = f[y] => x = y) => Cardinality(T) = Cardinality(S)
<1>1. f \in Surjection(S, T) BY Fun_IsSurj
<1>2. IsFiniteSet(T) /\ Cardinality(T) <= Cardinality(S) BY <1>1, FS_Surjection
<1>3. ASSUME \A x, y \in S : f[x] = f[y] => x = y PROVE Cardinality(T) = Cardinality(S)
  <2>1. f \in Injection(S, T) BY <1>3, Fun_IsInj
  <2> QED BY <1>1, <2>1, FS_Surjection
<1> QED BY <1>2, <1>3, FS_CardinalityType

\* A set is at least as large as another one that is mapped into it injectively.
LEMMA IntoSize ==
  ASSUME NEW S, NEW T, IsFiniteSet(T), NEW f \in [S -> T], \A x, y \in S : f[x] = f[y] => x = y
  PROVE  IsFiniteSet(S) /\ Cardinality(S) <= Cardinality(T) /\ Cardinality(S) \in Nat /\ Cardinality(T) \in Nat
<1>1. f \in Injection(S, T) BY Fun_IsInj
<1> QED BY <1>1, FS_Injection, FS_CardinalityType

\* What was scrolled stays as good as it was while the writers go on.
LEMMA SeenStays ==
  ASSUME WriterInv, [Next]_vars, SeenOK, scan' = scan \/ scan' = [scan EXCEPT !.pc = "report", !.outs = scan'.outs]
  PROVE  SeenOK'
<1>1. scan \in Scans BY DEF WriterInv, StateType
<1>2. scan'.known = scan.known /\ scan'.resolved = scan.resolved /\ scan'.preds = scan.preds
  BY <1>1 DEF Scans
<1>3. Stored \subseteq Stored' /\ outcomes \subseteq outcomes' BY StoredStays, OutcomesStep
<1>4. ASSUME NEW p \in scan.preds PROVE p.id \notin landed' => p.record = store'[p.id]
  <2>1. p.id \in Ids /\ store[p.id] # NoRecord BY <1>1 DEF SeenOK, Stored, Scans
  <2> QED BY <2>1, StoreChange, StoredStays DEF SeenOK
<1> QED BY <1>2, <1>3, <1>4 DEF SeenOK, Resolved

\* The scroll of the predictions
LEMMA ScanBegins ==
  ASSUME WriterInv, ScanPredictions
  PROVE  SeenOK' /\ scan'.pc = "outcomes" /\ scan' \in Scans
<1> DEFINE Row(i) == [id |-> i, record |-> store[i]]
           new(T) == [pc |-> "outcomes", preds |-> {[id |-> i, record |-> store[i]] : i \in T},
                      outs |-> {}, known |-> Stored, resolved |-> outcomes, at |-> now]
<1>t. /\ store \in [Ids -> Records \cup {NoRecord}] /\ outcomes \subseteq OutcomeRows /\ now \in Times
      /\ IsFiniteSet(Stored) /\ OutcomesOK
  BY DEF WriterInv, StateType
<1>1. PICK T \in Scroll(Stored) : scan' = new(T) BY DEF ScanPredictions
<1>2. /\ scan'.pc = "outcomes" /\ scan'.outs = {} /\ scan'.known = Stored
      /\ scan'.resolved = outcomes /\ scan'.at = now /\ scan'.preds = {Row(i) : i \in T}
  BY <1>1
<1>3. T \subseteq Stored /\ (T = Stored \/ Cardinality(T) = ScanLimit) BY DEF Scroll
<1>4. Stored \subseteq Ids /\ \A i \in Stored : store[i] \in Records BY <1>t DEF Stored
<1>5. /\ IsFiniteSet(scan'.preds) /\ Cardinality(scan'.preds) = Cardinality(T)
  <2> DEFINE f == [i \in T |-> Row(i)]
             S == {Row(i) : i \in T}
  <2>1. IsFiniteSet(T) BY <1>t, <1>3, FS_Subset
  <2>2. f \in [T -> S] /\ \A y \in S : \E x \in T : f[x] = y OBVIOUS
  <2>3. \A x, y \in T : f[x] = f[y] => x = y OBVIOUS
  <2>4. S = scan'.preds BY <1>2
  <2> HIDE DEF f, S
  <2> QED BY <2>1, <2>2, <2>3, <2>4, ImageSize
<1>6. ASSUME NEW o \in outcomes PROVE o.pid \in Stored BY <1>t DEF OutcomesOK, Stored, OutcomeRows
<1>7. UNCHANGED <<store, outcomes, landed>> BY DEF ScanPredictions, callersUnchanged
<1>8. Cardinality(scan'.preds) < ScanLimit => T = Stored BY <1>3, <1>5, RecordTypes
<1>9. Stored' = Stored BY <1>7 DEF Stored
<1>10. scan' \in Scans
  <2>1. \A i \in T : Row(i) \in Seen BY <1>3, <1>4 DEF Seen
  <2>2. {Row(i) : i \in T} \subseteq Seen BY <2>1
  <2> QED BY <1>t, <1>1, <1>4, <2>2 DEF Scans
<1>11. SeenOK'
  <2>1. Resolved(outcomes) \subseteq Stored BY <1>6 DEF Resolved
  <2>2. \A p \in scan'.preds : p.id \in T /\ p.record = store[p.id] BY <1>2
  <2>3. \A p, q \in scan'.preds : p.id = q.id => p = q BY <1>2
  <2>4. ASSUME NEW i \in T PROVE \E p \in scan'.preds : p.id = i
    <3>1. Row(i) \in scan'.preds /\ Row(i).id = i BY <1>2
    <3> QED BY <3>1
  <2> QED BY <1>2, <1>3, <1>5, <1>7, <1>8, <1>9, <2>1, <2>2, <2>3, <2>4 DEF SeenOK, Resolved
<1> QED BY <1>2, <1>10, <1>11

\* The scroll of the outcomes, some time after the one of the predictions
LEMMA ScanEnds ==
  ASSUME WriterInv, ScanOK, ScanOutcomes, [Next]_vars
  PROVE  ScanOK' /\ scan' \in Scans
<1>t. scan \in Scans /\ outcomes \subseteq OutcomeRows BY DEF WriterInv, StateType
<1>1. PICK T \in Scroll(outcomes) : scan' = [scan EXCEPT !.pc = "report", !.outs = T] BY DEF ScanOutcomes
<1>2. T \subseteq outcomes /\ (T = outcomes \/ Cardinality(T) = ScanLimit) BY DEF Scroll
<1>3. /\ scan'.pc = "report" /\ scan'.outs = T /\ scan'.resolved = scan.resolved /\ scan' \in Scans
  BY <1>t, <1>1, <1>2 DEF Scans
<1>4. scan.pc = "outcomes" /\ outcomes' = outcomes BY DEF ScanOutcomes
<1>5. SeenOK BY <1>4 DEF ScanOK
<1>6. SeenOK' BY <1>1, <1>3, <1>5, SeenStays
<1>7. scan.resolved \subseteq outcomes BY <1>5 DEF SeenOK
<1>8. Cardinality(T) < ScanLimit => T = outcomes BY <1>2, RecordTypes
<1> QED BY <1>2, <1>3, <1>4, <1>6, <1>7, <1>8 DEF ScanOK

\* Only its own scrolls change what a reader holds; a report is handed over.
LEMMA ScanChange ==
  ASSUME [Next]_vars
  PROVE  ScanPredictions \/ ScanOutcomes \/ scan' = scan \/ scan' = NoScan
<1>1. Handover => scan' = scan \/ scan' = NoScan BY DEF Handover
<1> HIDE DEF Handover
<1> QED
  BY ZenonT(60), <1>1 DEF Next, RecordBegin, GuardThread, GuardFile, GuardTimeout, Lookup, Put, RecordFails, ResolveLoad,
     ResolveStore, ResolveFails, DeliverLate, TrackBegin, TrackBeginFails, CommandEnds, TrackResolve,
     TrackResolveFails, TrackExcept, TrackExceptFails, TrackDies, Tick, trackOnly, writersUnchanged, vars

\* A reader at rest holds nothing.
LEMMA NoScanOK == NoScan \in Scans /\ NoScan.pc = "idle"
<1>1. 0 \in Times BY PredictionAssumption DEF Times
<1> QED BY <1>1 DEF NoScan, Scans

\* What a reader holds stays good, whatever is written between and after its scrolls.
LEMMA ScanStep ==
  ASSUME WriterInv, ScanOK, [Next]_vars
  PROVE  ScanOK' /\ scan' \in Scans
<1>t. scan \in Scans BY DEF WriterInv, StateType
<1>1. CASE ScanPredictions BY <1>1, ScanBegins DEF ScanOK
<1>2. CASE ScanOutcomes BY <1>2, ScanEnds
<1>3. CASE scan' = NoScan BY <1>3, NoScanOK DEF ScanOK
<1>4. CASE scan' = scan
  <2>1. outcomes \subseteq outcomes' BY OutcomesStep
  <2>2. SeenOK => SeenOK' BY <1>4, SeenStays
  <2> QED BY <1>t, <1>4, <2>1, <2>2 DEF ScanOK
<1> QED BY <1>1, <1>2, <1>3, <1>4, ScanChange

-----------------------------------------------------------------------------
(***************************************************************************)
(* The inductive invariant.                                                *)
(***************************************************************************)
LEMMA Inductive == Spec => []IInv
<1>1. Init => IInv
  <2> SUFFICES ASSUME Init PROVE IInv OBVIOUS
  <2>1. scan.pc = "idle" BY DEF Init, NoScan
  <2> QED BY <2>1, WriterInit DEF IInv, ScanOK
<1>2. IInv /\ [Next]_vars => IInv'
  <2> SUFFICES ASSUME IInv, [Next]_vars PROVE IInv' OBVIOUS
  <2>w. WriterInv /\ ScanOK BY DEF IInv
  <2>1. StateType'
    BY <2>w, ClockStep, StoredStays, StoreChange, OutcomesStep, LateStep, GuardStep, TrackType, ScanStep,
       AckedStep DEF StateType
  <2> QED BY <2>w, <2>1, CallsStep, AckedStep, OutcomesStep, TracksStep, ScanStep DEF IInv, WriterInv
<1> QED BY <1>1, <1>2, PTL DEF Spec

-----------------------------------------------------------------------------
(***************************************************************************)
(* The theorems about what is written.                                     *)
(***************************************************************************)

\* record_prediction, with any number of callers, processes and stripes, and with
\* calls that fail or whose answer is lost: every answer for a correlation id is the
\* one stored record, unless a write that timed out landed later.
THEOREM RetriesAnswerTheSame == Spec => []AckedIsStored
<1>1. IInv => AckedIsStored BY DEF IInv, WriterInv, AckedOK
<1> QED BY <1>1, Inductive, PTL

\* The producer: whatever fails, only a command that returned 0 is ever confirmed; one that
\* ended with no storage error has exactly one outcome of the producer's, the right one.
THEOREM CommandsAreJudged == Spec => []TrackedVerdict
<1>1. IInv => TrackedVerdict BY DEF IInv, WriterInv, TrackOK, OfTrack, TrackedVerdict
<1> QED BY <1>1, Inductive, PTL

-----------------------------------------------------------------------------
(***************************************************************************)
(* Which outcome counts, and which predictions are listed.                 *)
(***************************************************************************)

\* A finite set that is not empty has a minimal element of a strict order.
LEMMA FiniteMinimal ==
  ASSUME NEW S, IsFiniteSet(S), S # {}, NEW R,
         \A x \in S : <<x, x>> \notin R,
         \A x, y, z \in S : <<x, y>> \in R /\ <<y, z>> \in R => <<x, z>> \in R
  PROVE  \E x \in S : \A y \in S : <<y, x>> \notin R
<1> DEFINE Below(x) == {y \in S : <<y, x>> \in R}
           T == {Below(x) : x \in S}
<1>1. T \subseteq FiniteSubsetsOf(S) BY FS_Subset DEF FiniteSubsetsOf
<1>2. T # {}
  <2>1. PICK x \in S : TRUE OBVIOUS
  <2>2. Below(x) \in T OBVIOUS
  <2> QED BY <2>2
<1>3. PICK t \in T : \A u \in T : ~(<<u, t>> \in StrictSubsetOrdering(S))
  <2> HIDE DEF T
  <2> QED BY <1>1, <1>2, WFMin, FS_StrictSubsetOrderingWellFounded
<1>4. PICK x \in S : t = Below(x) OBVIOUS
<1>5. ASSUME NEW y \in S, <<y, x>> \in R PROVE FALSE
  <2>1. Below(y) \subseteq Below(x) /\ Below(y) # Below(x) BY <1>5
  <2>2. <<Below(y), Below(x)>> \in StrictSubsetOrdering(S) BY <2>1 DEF StrictSubsetOrdering
  <2> QED BY <1>3, <1>4, <2>2
<1> QED BY <1>5

\* The outcome that counts is one of the prediction's, and no later one was scrolled.
LEMMA LatestEffect ==
  ASSUME scan \in Scans, IsFiniteSet(scan.outs), NEW i \in Resolved(scan.outs)
  PROVE  /\ Latest(scan, i) \in scan.outs /\ Latest(scan, i).pid = i
         /\ \A q \in scan.outs : q.pid = i => q.time <= Latest(scan, i).time
<1> DEFINE S == OutcomesOf(scan.outs, i)
           Good(o) == \A q \in S : q.time < o.time \/ (q.time = o.time /\ o.n <= q.n)
           R == {p \in S \X S : p[2].time < p[1].time \/ (p[1].time = p[2].time /\ p[1].n < p[2].n)}
<1>1. S \subseteq scan.outs /\ \A o \in scan.outs : o \in S <=> o.pid = i BY DEF OutcomesOf
<1>2. S # {} /\ IsFiniteSet(S) BY <1>1, FS_Subset DEF Resolved
<1>3. \A o \in S : o.time \in Int /\ o.n \in Int
  <2>1. \A o \in S : o \in OutcomeRows BY <1>1 DEF Scans
  <2> QED BY <2>1, RecordTypes DEF OutcomeRows
<1> HIDE DEF S
<1>4. \E o \in S : Good(o)
  <2>1. \A x, y \in S : <<x, y>> \in R <=> y.time < x.time \/ (x.time = y.time /\ x.n < y.n) OBVIOUS
  <2> HIDE DEF R
  <2>2. \A x \in S : <<x, x>> \notin R BY <1>3, <2>1
  <2>3. \A x, y, z \in S : <<x, y>> \in R /\ <<y, z>> \in R => <<x, z>> \in R BY <1>3, <2>1
  <2>4. PICK o \in S : \A y \in S : <<y, o>> \notin R BY <1>2, <2>2, <2>3, FiniteMinimal
  <2>5. ASSUME NEW q \in S PROVE q.time < o.time \/ (q.time = o.time /\ o.n <= q.n)
    <3>1. ~(o.time < q.time \/ (q.time = o.time /\ q.n < o.n)) BY <2>1, <2>4
    <3>2. o.time \in Int /\ o.n \in Int /\ q.time \in Int /\ q.n \in Int BY <1>3
    <3> QED BY <3>1, <3>2
  <2> QED BY <2>5
<1>5. Latest(scan, i) \in S /\ Good(Latest(scan, i))
  <2>1. Latest(scan, i) = CHOOSE o \in S : Good(o) BY DEF Latest, S
  <2> HIDE DEF Good
  <2> QED BY <1>4, <2>1
<1> QED BY <1>1, <1>3, <1>5

\* The outcomes that count, one for each prediction seen that has an outcome.
SeenIds == {p.id : p \in scan.preds}
CountedIds == SeenIds \cap Resolved(scan.outs)

\* They are as many as those predictions, and each is one of them.
LEMMA CountedEffect ==
  ASSUME scan \in Scans, IsFiniteSet(scan.outs), IsFiniteSet(scan.preds)
  PROVE  /\ IsFiniteSet(LatestOutcomes(scan)) /\ IsFiniteSet(CountedIds)
         /\ Cardinality(LatestOutcomes(scan)) = Cardinality(CountedIds)
         /\ LatestOutcomes(scan) \subseteq scan.outs
         /\ \A o, q \in LatestOutcomes(scan) : o.pid = q.pid => o = q
         /\ \A i \in CountedIds : Latest(scan, i) \in LatestOutcomes(scan)
<1> DEFINE f == [i \in CountedIds |-> Latest(scan, i)]
           S == LatestOutcomes(scan)
<1>1. S = {Latest(scan, i) : i \in CountedIds} BY DEF LatestOutcomes, CountedIds, SeenIds
<1>2. \A i \in CountedIds : Latest(scan, i) \in scan.outs /\ Latest(scan, i).pid = i
  BY LatestEffect DEF CountedIds
<1>3. IsFiniteSet(CountedIds)
  <2> DEFINE g == [p \in scan.preds |-> p.id]
  <2>1. g \in [scan.preds -> SeenIds] /\ \A y \in SeenIds : \E x \in scan.preds : g[x] = y BY DEF SeenIds
  <2> HIDE DEF g
  <2>2. IsFiniteSet(SeenIds) BY <2>1, ImageSize
  <2> QED BY <2>2, FS_Subset DEF CountedIds
<1>4. f \in [CountedIds -> S] /\ \A y \in S : \E x \in CountedIds : f[x] = y BY <1>1
<1>5. \A x, y \in CountedIds : f[x] = f[y] => x = y BY <1>2
<1>6. IsFiniteSet(S) /\ Cardinality(S) = Cardinality(CountedIds)
  <2> HIDE DEF f, S
  <2> QED BY <1>3, <1>4, <1>5, ImageSize
<1>7. \A o, q \in S : o.pid = q.pid => o = q BY <1>1, <1>2
<1>8. S \subseteq scan.outs /\ \A i \in CountedIds : Latest(scan, i) \in S BY <1>1, <1>2
<1> QED BY <1>3, <1>6, <1>7, <1>8

\* The predictions a set of outcomes is about are no more than the outcomes.
LEMMA PidsFinite ==
  ASSUME NEW S, IsFiniteSet(S)
  PROVE  IsFiniteSet(Resolved(S)) /\ Cardinality(Resolved(S)) <= Cardinality(S)
         /\ Cardinality(Resolved(S)) \in Nat /\ Cardinality(S) \in Nat
<1> DEFINE f == [o \in S |-> o.pid]
           T == Resolved(S)
<1>1. f \in [S -> T] /\ \A y \in T : \E x \in S : f[x] = y BY DEF Resolved
<1> HIDE DEF f, T
<1>2. IsFiniteSet(T) /\ Cardinality(T) <= Cardinality(S) /\ Cardinality(T) \in Nat /\ Cardinality(S) \in Nat
  BY <1>1, ImageSize
<1> QED BY <1>2 DEF T

\* observe: what an observation that is not truncated counts.
LEMMA ObservationIsSound == IInv => ObservationSound
<1> SUFFICES ASSUME IInv, scan.pc = "report", ~Truncated(scan)
             PROVE  /\ Observation(scan).resolved >= Cardinality(Resolved(scan.resolved))
                    /\ Observation(scan).duplicates >= Cardinality(scan.resolved) - Cardinality(Resolved(scan.resolved))
                    /\ \A q \in scan.resolved : \E o \in LatestOutcomes(scan) : o.pid = q.pid /\ o.time >= q.time
  BY DEF ObservationSound
<1> DEFINE known == scan.resolved
           all == {o \in scan.outs : o.pid \in SeenIds}
<1>t. /\ scan \in Scans /\ IsFiniteSet(outcomes) /\ SeenOK /\ scan.outs \subseteq outcomes
      /\ Cardinality(scan.outs) < ScanLimit => scan.resolved \subseteq scan.outs
  BY DEF IInv, WriterInv, StateType, ScanOK
<1>1. IsFiniteSet(scan.outs) /\ IsFiniteSet(scan.preds) BY <1>t, FS_Subset DEF SeenOK
<1>2. Cardinality(scan.preds) \in Nat /\ Cardinality(scan.outs) \in Nat BY <1>1, FS_CardinalityType
<1>3. Cardinality(scan.preds) < ScanLimit /\ Cardinality(scan.outs) < ScanLimit
  BY <1>2, RecordTypes DEF Truncated
<1>4. scan.resolved \subseteq scan.outs /\ scan.known \subseteq SeenIds
  BY <1>t, <1>3 DEF SeenOK, SeenIds
<1>5. Resolved(known) \subseteq CountedIds
  <2>1. Resolved(known) \subseteq scan.known BY <1>t DEF SeenOK
  <2> QED BY <1>4, <2>1 DEF Resolved, CountedIds
<1>6. known \subseteq all /\ all \subseteq scan.outs
  <2>1. \A o \in known : o.pid \in Resolved(known) BY DEF Resolved
  <2> QED BY <1>4, <1>5, <2>1 DEF CountedIds
<1>7. IsFiniteSet(all) /\ IsFiniteSet(known) /\ IsFiniteSet(CountedIds)
  <2>1. IsFiniteSet(all) BY <1>1, <1>6, FS_Subset
  <2>2. IsFiniteSet(known) BY <2>1, <1>6, FS_Subset
  <2> QED BY <1>t, <1>1, <2>1, <2>2, CountedEffect
<1>8. Resolved(all) = CountedIds BY DEF Resolved, CountedIds
<1>9. Cardinality(LatestOutcomes(scan)) = Cardinality(CountedIds) BY <1>t, <1>1, CountedEffect
<1>10. /\ Observation(scan).resolved = Cardinality(CountedIds)
       /\ Observation(scan).duplicates = Cardinality(all) - Cardinality(CountedIds)
  BY <1>9 DEF Observation, SeenIds
<1>11. Cardinality(Resolved(known)) <= Cardinality(CountedIds)
  BY <1>5, <1>7, FS_Subset
\* every prediction counted beyond those of known has an outcome beyond known
<1>12. Cardinality(all) - Cardinality(CountedIds) >= Cardinality(known) - Cardinality(Resolved(known))
  <2> DEFINE M == CountedIds \ Resolved(known)
             D == all \ known
             f == [i \in M |-> CHOOSE o \in D : o.pid = i]
  <2>1. ASSUME NEW i \in M PROVE \E o \in D : o.pid = i
    <3>1. PICK o \in all : o.pid = i BY <1>8 DEF Resolved
    <3>2. o \notin known BY <3>1 DEF Resolved
    <3> QED BY <3>1, <3>2
  <2>2. \A i \in M : f[i] \in D /\ f[i].pid = i BY <2>1
  <2>3. f \in [M -> D] /\ \A x, y \in M : f[x] = f[y] => x = y BY <2>2
  <2>4. IsFiniteSet(D) BY <1>7, FS_Difference
  <2>5. Cardinality(M) <= Cardinality(D)
    <3> HIDE DEF M, D, f
    <3> QED BY <2>3, <2>4, IntoSize
  <2>6. CountedIds \cap Resolved(known) = Resolved(known) /\ all \cap known = known BY <1>5, <1>6
  <2>7. Cardinality(M) = Cardinality(CountedIds) - Cardinality(Resolved(known))
    <3> HIDE DEF all, known, D, f
    <3>1. Cardinality(M) = Cardinality(CountedIds) - Cardinality(CountedIds \cap Resolved(known))
      BY <1>7, FS_Difference DEF M
    <3> QED BY <2>6, <3>1
  <2>8. Cardinality(D) = Cardinality(all) - Cardinality(known)
    <3> HIDE DEF all, known
    <3> QED BY ZenonT(60), <1>7, <2>6, FS_Difference
  <2>9. /\ Cardinality(all) \in Int /\ Cardinality(known) \in Int
        /\ Cardinality(CountedIds) \in Int /\ Cardinality(Resolved(known)) \in Int
    BY <1>7, PidsFinite, FS_CardinalityType
  <2> HIDE DEF M, D, f, all, known
  <2> QED BY <2>5, <2>7, <2>8, <2>9
<1>13. ASSUME NEW q \in scan.resolved
       PROVE \E o \in LatestOutcomes(scan) : o.pid = q.pid /\ o.time >= q.time
  <2>1. q.pid \in CountedIds /\ q \in scan.outs BY <1>4, <1>5 DEF Resolved
  <2>2. q.pid \in Resolved(scan.outs) BY <2>1 DEF CountedIds
  <2> DEFINE o == Latest(scan, q.pid)
  <2>3. o \in LatestOutcomes(scan) BY <1>t, <1>1, <2>1, CountedEffect
  <2>4. o.pid = q.pid /\ q.time <= o.time /\ o \in scan.outs BY <1>t, <1>1, <2>1, <2>2, LatestEffect
  <2>5. q.time \in Int /\ o.time \in Int
    <3>1. o \in OutcomeRows /\ q \in OutcomeRows BY <1>t, <2>1, <2>4 DEF Scans
    <3> QED BY <3>1, RecordTypes DEF OutcomeRows
  <2> QED BY <2>3, <2>4, <2>5
<1>14. Cardinality(CountedIds) \in Int /\ Cardinality(Resolved(known)) \in Int
  BY <1>7, PidsFinite, FS_CardinalityType
<1>15. Observation(scan).resolved >= Cardinality(Resolved(known)) BY <1>10, <1>11, <1>14
<1> QED BY <1>10, <1>12, <1>13, <1>15

\* calibration: a judgement needs MinSamples predictions with a determinate outcome.
LEMMA CalibrationIsSound == IInv => CalibrationNeedsDistinct
<1> DEFINE determinate == {q \in outcomes : q.assessment # "indeterminate"}
           D == {o.pid : o \in determinate}
<1> SUFFICES ASSUME IInv, scan.pc = "report", Calibration(scan) # "insufficient_evidence"
             PROVE  Cardinality(D) >= MinSamples
  BY DEF CalibrationNeedsDistinct
<1>t. /\ scan \in Scans /\ IsFiniteSet(outcomes) /\ SeenOK /\ scan.outs \subseteq outcomes
  BY DEF IInv, WriterInv, StateType, ScanOK
<1>1. IsFiniteSet(scan.outs) /\ IsFiniteSet(scan.preds) BY <1>t, FS_Subset DEF SeenOK
<1>2. ~(Cardinality(Samples(scan)) < MinSamples) BY DEF Calibration
<1>3. Samples(scan) \subseteq LatestOutcomes(scan) BY DEF Samples
<1>4. LatestOutcomes(scan) \subseteq outcomes /\ \A o, q \in LatestOutcomes(scan) : o.pid = q.pid => o = q
  BY <1>t, <1>1, CountedEffect
<1>5. IsFiniteSet(D)
  <2>1. IsFiniteSet(determinate) BY <1>t, FS_Subset
  <2>2. D = Resolved(determinate) BY DEF Resolved
  <2> HIDE DEF determinate
  <2> QED BY <2>1, <2>2, PidsFinite
<1> DEFINE f == [o \in Samples(scan) |-> o.pid]
<1>6. f \in [Samples(scan) -> D]
  <2>1. \A o \in Samples(scan) : o \in determinate BY <1>3, <1>4 DEF Samples
  <2> QED BY <2>1
<1>7. \A x, y \in Samples(scan) : f[x] = f[y] => x = y BY <1>3, <1>4
<1>8. /\ Cardinality(Samples(scan)) <= Cardinality(D)
      /\ Cardinality(Samples(scan)) \in Nat /\ Cardinality(D) \in Nat
  <2> HIDE DEF D, f
  <2> QED BY <1>5, <1>6, <1>7, IntoSize
<1> HIDE DEF D
<1> QED BY <1>2, <1>8, PredictionAssumption

-----------------------------------------------------------------------------
(***************************************************************************)
(* The pending list and the heartbeat.                                     *)
(***************************************************************************)

\* Of a finite set of predictions the n oldest can be taken, for every n.
LEMMA OldestExist ==
  ASSUME NEW P, IsFiniteSet(P), \A p \in P : p.record.time \in Int,
         NEW n \in Nat, n <= Cardinality(P)
  PROVE  \E T \in SUBSET P : /\ Cardinality(T) = n
                             /\ \A x \in T, y \in P \ T : x.record.time <= y.record.time
<1> DEFINE Oldest(T) == \A x \in T, y \in P \ T : x.record.time <= y.record.time
           Old == {T \in SUBSET P : Cardinality(T) <= n /\ Oldest(T)}
           Rest == {P \ T : T \in Old}
<1>1. {} \in Old BY FS_EmptySet
<1>2. Rest \subseteq FiniteSubsetsOf(P) /\ Rest # {}
  <2>1. P \ {} \in Rest BY <1>1
  <2>2. Rest \subseteq SUBSET P OBVIOUS
  <2> HIDE DEF Rest
  <2> QED BY <2>1, <2>2, FS_FiniteSubsetsOfFinite
<1>3. PICK r \in Rest : \A u \in Rest : ~(<<u, r>> \in StrictSubsetOrdering(P))
  <2> HIDE DEF Rest
  <2> QED BY <1>2, WFMin, FS_StrictSubsetOrderingWellFounded
<1>4. PICK T \in Old : r = P \ T OBVIOUS
<1>5. T \subseteq P /\ Cardinality(T) <= n /\ Oldest(T) OBVIOUS
<1>6. IsFiniteSet(T) /\ Cardinality(T) \in Nat BY <1>5, FS_Subset, FS_CardinalityType
<1> HIDE DEF Rest
<1>7. ASSUME Cardinality(T) # n PROVE FALSE
  <2>1. Cardinality(T) < n BY <1>5, <1>6, <1>7
  <2>2. P \ T # {}
    <3>1. Cardinality(P) \in Nat BY FS_CardinalityType
    <3>2. T # P BY <2>1, <3>1, <1>6
    <3> QED BY <1>5, <3>2
  <2>3. IsFiniteSet(P \ T) BY FS_Difference
  <2> DEFINE U == P \ T
             R == {p \in U \X U : p[1].record.time < p[2].record.time}
  <2>4. \E x \in U : \A y \in U : <<y, x>> \notin R
    <3>1. \A x, y \in U : <<x, y>> \in R <=> x.record.time < y.record.time OBVIOUS
    <3>2. \A x \in U : x.record.time \in Int OBVIOUS
    <3> HIDE DEF U, R
    <3>3. \A x \in U : <<x, x>> \notin R BY <3>1, <3>2
    <3>4. \A x, y, z \in U : <<x, y>> \in R /\ <<y, z>> \in R => <<x, z>> \in R BY <3>1, <3>2
    <3>5. IsFiniteSet(U) /\ U # {} BY <2>2, <2>3 DEF U
    <3> QED BY <3>3, <3>4, <3>5, FiniteMinimal
  <2>5. PICK x \in U : \A y \in U : ~(y.record.time < x.record.time) BY <2>4
  <2>6. \A y \in U : x.record.time <= y.record.time BY <2>5
  <2> DEFINE V == T \cup {x}
  <2>7. x \in P /\ x \notin T OBVIOUS
  <2>8. Cardinality(V) = Cardinality(T) + 1 BY <1>6, <2>7, FS_AddElement
  <2>9. Oldest(V)
    <3> SUFFICES ASSUME NEW a \in V, NEW b \in P \ V PROVE a.record.time <= b.record.time OBVIOUS
    <3>1. b \in U OBVIOUS
    <3>2. CASE a = x BY <2>6, <3>1, <3>2
    <3>3. CASE a \in T BY <1>5, <3>1, <3>3
    <3> QED BY <3>2, <3>3
  <2>10. V \in Old BY <1>5, <1>6, <2>1, <2>7, <2>8, <2>9
  <2>11. P \ V \in Rest BY <2>10 DEF Rest
  <2>12. P \ V \subseteq P \ T /\ P \ V # P \ T BY <2>7
  <2>13. <<P \ V, r>> \in StrictSubsetOrdering(P) BY <1>4, <2>12 DEF StrictSubsetOrdering
  <2> QED BY <1>3, <2>11, <2>13
<1> QED BY <1>5, <1>7

\* The list is of the predictions seen without an outcome: all, or the oldest.
LEMMA PendingEffect ==
  ASSUME scan \in Scans, IsFiniteSet(scan.preds)
  PROVE  LET P == PendingSeen(scan) T == Pending(scan) IN
         /\ IsFiniteSet(P) /\ Cardinality(P) \in Nat /\ T \subseteq P /\ IsFiniteSet(T)
         /\ Cardinality(P) <= PendingLimit => T = P
         /\ Cardinality(P) > PendingLimit => Cardinality(T) = PendingLimit
         /\ \A x \in T, y \in P \ T : x.record.time <= y.record.time
<1> DEFINE P == PendingSeen(scan)
           want == IF Cardinality(P) <= PendingLimit THEN Cardinality(P) ELSE PendingLimit
           Good(T) == /\ Cardinality(T) = want
                      /\ \A x \in T, y \in P \ T : x.record.time <= y.record.time
<1>1. P \subseteq scan.preds BY DEF PendingSeen
<1>2. IsFiniteSet(P) /\ Cardinality(P) \in Nat BY <1>1, FS_Subset, FS_CardinalityType
<1>3. \A p \in P : p.record.time \in Int
  <2>1. \A p \in P : p \in Seen BY <1>1 DEF Scans
  <2> QED BY <2>1, RecordTypes DEF Seen, Records
<1>4. Pending(scan) = CHOOSE T \in SUBSET P : Good(T) BY DEF Pending
<1>5. want \in Nat /\ want <= Cardinality(P) BY <1>2, PredictionAssumption
<1> HIDE DEF P, want
<1>6. \E T \in SUBSET P : Good(T) BY <1>2, <1>3, <1>5, OldestExist
<1>7. Pending(scan) \in SUBSET P /\ Good(Pending(scan))
  <2> HIDE DEF Good
  <2> QED BY <1>4, <1>6
<1>8. IsFiniteSet(Pending(scan)) BY <1>2, <1>7, FS_Subset
<1>9. ASSUME Cardinality(P) <= PendingLimit PROVE Pending(scan) = P
  <2>1. Cardinality(Pending(scan)) = Cardinality(P) BY <1>7, <1>9 DEF want
  <2> QED BY <1>2, <1>7, <2>1, FS_Subset
<1>10. ASSUME Cardinality(P) > PendingLimit PROVE Cardinality(Pending(scan)) = PendingLimit
  BY <1>2, <1>7, <1>10, PredictionAssumption DEF want
<1> QED BY <1>2, <1>7, <1>8, <1>9, <1>10 DEF P

\* What is open, known to the reader and not landed since is seen as it is stored.
LEMMA OpenIsSeen ==
  ASSUME IInv, scan.pc = "report", ~Truncated(scan)
  PROVE  /\ scan \in Scans /\ IsFiniteSet(scan.preds)
         /\ \A i \in scan.known \ Resolved(outcomes) : \E p \in PendingSeen(scan) :
              p.id = i /\ (i \notin landed => p.record = store[i])
         /\ \A p \in PendingSeen(scan) : p.id \notin Resolved(scan.resolved)
<1>t. /\ scan \in Scans /\ IsFiniteSet(outcomes) /\ SeenOK /\ scan.outs \subseteq outcomes
      /\ Cardinality(scan.outs) < ScanLimit => scan.resolved \subseteq scan.outs
  BY DEF IInv, WriterInv, StateType, ScanOK
<1>1. IsFiniteSet(scan.outs) /\ IsFiniteSet(scan.preds) BY <1>t, FS_Subset DEF SeenOK
<1>2. Cardinality(scan.preds) \in Nat /\ Cardinality(scan.outs) \in Nat BY <1>1, FS_CardinalityType
<1>3. Cardinality(scan.preds) < ScanLimit /\ Cardinality(scan.outs) < ScanLimit
  BY <1>2, RecordTypes DEF Truncated
<1>4. ASSUME NEW i \in scan.known \ Resolved(outcomes)
      PROVE \E p \in PendingSeen(scan) : p.id = i /\ (i \notin landed => p.record = store[i])
  <2>1. PICK p \in scan.preds : p.id = i BY <1>t, <1>3 DEF SeenOK
  <2>2. p \in PendingSeen(scan) BY <1>t, <2>1 DEF PendingSeen, Resolved
  <2>3. i \notin landed => p.record = store[i] BY <1>t, <2>1 DEF SeenOK
  <2> QED BY <2>1, <2>2, <2>3
<1>5. \A p \in PendingSeen(scan) : p.id \notin Resolved(scan.resolved)
  BY <1>t, <1>3 DEF PendingSeen, Resolved
<1> QED BY <1>t, <1>1, <1>4, <1>5

\* pending: a list that does not say it may be incomplete is complete.
LEMMA PendingIsSound == IInv => PendingSound
<1> SUFFICES ASSUME IInv, scan.pc = "report", ~Incomplete(scan)
             PROVE  /\ scan.known \ Resolved(outcomes) \subseteq {p.id : p \in Pending(scan)}
                    /\ {p.id : p \in Pending(scan)} \cap Resolved(scan.resolved) = {}
  BY DEF PendingSound
<1>1. ~Truncated(scan) /\ ~(Cardinality(PendingSeen(scan)) > PendingLimit) BY DEF Incomplete
<1>2. Pending(scan) = PendingSeen(scan)
  BY <1>1, OpenIsSeen, PendingEffect, PredictionAssumption
<1> QED BY <1>1, <1>2, OpenIsSeen

\* heartbeat: the stale predictions are the ones the cut of the list keeps.
LEMMA HeartbeatIsSound == IInv => HeartbeatSeesStale
<1> DEFINE open == (scan.known \ Resolved(outcomes)) \ landed
           stale == {id \in open : store[id].time < scan.at - StaleTime}
           T == Pending(scan)
           P == PendingSeen(scan)
           old == {p \in T : p.record.time < scan.at - StaleTime}
<1> SUFFICES ASSUME IInv, scan.pc = "report", ~Truncated(scan)
             PROVE  StaleCount(scan) >= Cardinality(stale) \/ StaleCount(scan) = PendingLimit
  BY DEF HeartbeatSeesStale
<1>0. StaleCount(scan) = Cardinality(old) BY DEF StaleCount
<1>1. /\ scan \in Scans /\ IsFiniteSet(P) /\ T \subseteq P /\ IsFiniteSet(T) /\ Cardinality(P) \in Nat
      /\ Cardinality(P) <= PendingLimit => T = P
      /\ Cardinality(P) > PendingLimit => Cardinality(T) = PendingLimit
      /\ \A x \in T, y \in P \ T : x.record.time <= y.record.time
  BY OpenIsSeen, PendingEffect
<1>2. scan.at - StaleTime \in Int
  BY <1>1, RecordTypes, PredictionAssumption DEF Scans
<1>3. \A p \in P : p.record.time \in Int
  <2>1. \A p \in P : p \in Seen BY <1>1 DEF Scans, PendingSeen
  <2> QED BY <2>1, RecordTypes DEF Seen, Records
<1>4. \A i \in stale : \E p \in P : p.id = i /\ p.record.time < scan.at - StaleTime
  BY OpenIsSeen
<1>5. IsFiniteSet(old) BY <1>1, FS_Subset
<1>6. CASE old = T /\ Cardinality(P) > PendingLimit BY <1>0, <1>1, <1>6
<1>7. CASE T = P \/ old # T
  <2>1. ASSUME NEW p \in P, p.record.time < scan.at - StaleTime PROVE p \in old
    <3>1. CASE T = P BY <2>1, <3>1
    <3>2. CASE old # T
      <4>1. PICK x \in T : ~(x.record.time < scan.at - StaleTime) BY <3>2
      <4>2. p \notin T => x.record.time <= p.record.time BY <1>1
      <4>3. x.record.time \in Int /\ p.record.time \in Int BY <1>1, <1>3
      <4> QED BY <1>2, <2>1, <4>1, <4>2, <4>3
    <3> QED BY <1>7, <3>1, <3>2
  <2> DEFINE f == [i \in stale |-> CHOOSE p \in old : p.id = i]
  <2>2. \A i \in stale : f[i] \in old /\ f[i].id = i
    <3> HIDE DEF stale, old
    <3>1. \A i \in stale : \E p \in old : p.id = i BY <1>4, <2>1
    <3> QED BY <3>1
  <2>3. f \in [stale -> old] /\ \A x, y \in stale : f[x] = f[y] => x = y
    <3> HIDE DEF stale, old
    <3> QED BY <2>2
  <2>4. Cardinality(stale) <= Cardinality(old) /\ Cardinality(stale) \in Nat /\ Cardinality(old) \in Nat
    <3> HIDE DEF f, stale, old
    <3> QED BY <1>5, <2>3, IntoSize
  <2> HIDE DEF stale, old
  <2> QED BY <1>0, <2>4
<1>8. Cardinality(P) <= PendingLimit \/ Cardinality(P) > PendingLimit BY <1>1, PredictionAssumption
<1> QED BY <1>1, <1>6, <1>7, <1>8

-----------------------------------------------------------------------------
(***************************************************************************)
(* The theorems about what is read.                                        *)
(***************************************************************************)

\* Outcomes fit the predictions they are about; what pending and observe report
\* without the mark that something may be missing is complete, and calibration
\* judges on no fewer distinct predictions than MinSamples: for every limit and
\* whatever is recorded, resolved and lost between the two scrolls of a reader.
THEOREM LearningIsSound == Spec => []LearningSound
<1>1. IInv => PredictionTypeOK
  <2> SUFFICES ASSUME IInv PROVE PredictionTypeOK OBVIOUS
  <2>t. StateType BY DEF IInv, WriterInv
  <2>1. \A o \in outcomes : o.pid \in Ids /\ o.assessment \in Assessments /\ o.time \in Times
                            /\ o.error \in {Indeterminate} \cup 0..(2 * Scale)
    BY <2>t DEF StateType, OutcomeRows
  <2>2. \A t \in Tracks : track[t].pc \in TrackStates BY <2>t DEF StateType, TrackRows
  <2>3. scan.pc \in {"idle", "outcomes", "report"} BY <2>t DEF StateType, Scans
  <2> QED BY <2>t, <2>1, <2>2, <2>3 DEF StateType, PredictionTypeOK, CallerStates, TrackStates
<1>2. IInv => OutcomeMatchesPrediction
  BY DEF IInv, WriterInv, OutcomesOK, OutcomeMatchesPrediction
<1>3. IInv => LearningSound
  BY <1>1, <1>2, PendingIsSound, ObservationIsSound, CalibrationIsSound DEF LearningSound
<1> QED BY <1>3, Inductive, PTL

\* The heartbeat counts every stale prediction that is open, or as many as it lists.
THEOREM HeartbeatIsHonest == Spec => []HeartbeatSeesStale
<1> QED BY HeartbeatIsSound, Inductive, PTL
=============================================================================
