--------------------------- MODULE MemoryLifecycle ---------------------------
(* What one recall event thinks of one record: the salience score of its     *)
(* signals (salience/) and the lifecycle decision (lifecycle/).  Operators    *)
(* only.  Scores are percentages; the retention score is in 1/10000.  One     *)
(* unit of time is 90 days, so stale_days = 180 is two units and only age 0   *)
(* is within recent_days = 30.                                                *)
EXTENDS Integers, FiniteSetsExt

StaleAge             == 2
SuppressBelow        == 3500
ReactivateFrom       == 6500
FrequentAccess       == 8
NoTime               == -1

(* The reviewed policy, doubled so that the weights are integers.             *)
Weight == [prediction_error |-> 4, unresolvedness |-> 3, contradiction |-> 4,
           novelty |-> 1, recurrence |-> 2, consequence |-> 4,
           user_emphasis |-> 3, recency |-> 1]

(* Weighted mean over the signals that are known; none known is neutral.      *)
SalienceScore(signals) ==
  LET known == DOMAIN signals
      Weighted(k) == signals[k] * Weight[k]
      WeightOf(k) == Weight[k]
  IN IF known = {} THEN 0
     ELSE MapThenSumSet(Weighted, known) \div MapThenSumSet(WeightOf, known)

(* The recency signal steps down with the time since the last update.         *)
RecencySignal(age) == CASE age = 0 -> 100 [] age = 1 -> 35 [] age = 2 -> 15 [] OTHER -> 0

(* log1p(count) / log1p(frequent_access_count), as a percentage.              *)
AccessShare(count) ==
  IF count >= FrequentAccess THEN 100
  ELSE <<0, 32, 50, 63, 73, 82, 89, 95>>[count + 1]

Freshness(age) == IF age >= StaleAge THEN 0 ELSE 100 - (100 * age) \div StaleAge

Between(low, high, n) == IF n < low THEN low ELSE IF n > high THEN high ELSE n

RetentionScore(sg) ==
  Between(0, 10000,
      1000 + 18 * Freshness(sg.age)
    + (IF sg.since = NoTime THEN 0 ELSE 12 * Freshness(sg.since))
    + 15 * AccessShare(sg.count) + 22 * sg.salience
    + (IF sg.linked THEN 1000 ELSE 0) + (IF sg.unresolved THEN 1500 ELSE 0)
    - (IF sg.refuted THEN 2000 ELSE 0))

(* The codes _score appends on the way; LifecycleDecision refuses an empty    *)
(* tuple of codes.                                                            *)
ScoreReasons(sg) ==
     {c \in {"recent"} : sg.age = 0}
  \cup {c \in {"never_accessed"} : sg.since = NoTime}
  \cup {c \in {"frequently_accessed"} : sg.count >= FrequentAccess}
  \cup {c \in {"high_salience"} : sg.salience >= 70}
  \cup {c \in {"concept_linked"} : sg.linked}
  \cup {c \in {"unresolved"} : sg.unresolved}
  \cup {c \in {"stale"} : sg.age >= StaleAge}
  \cup {c \in {"superseded_or_contradicted"} : sg.refuted}
Reactivates(sg) ==
  \/ sg.explicit
  \/ sg.unresolved
  \/ 100 * sg.salience >= ReactivateFrom
  \/ RetentionScore(sg) >= ReactivateFrom
ProtectedUnresolved(sg) == sg.unresolved

Protected(sg) == sg.explicit \/ sg.unresolved

Decisions == {"keep_active", "suppress", "remain_suppressed", "reactivate"}

(* The decision, or "error" where building it raises for want of a reason.    *)
Evaluate(sg) ==
  IF sg.keep THEN IF sg.lstate = "suppressed" THEN "reactivate" ELSE "keep_active"
  ELSE IF sg.lstate = "suppressed"
  THEN IF Reactivates(sg) THEN "reactivate"
       ELSE IF ScoreReasons(sg) = {} THEN "error" ELSE "remain_suppressed"
  ELSE IF Protected(sg) THEN "keep_active"
  ELSE IF RetentionScore(sg) < SuppressBelow THEN "suppress"
  ELSE IF ScoreReasons(sg) = {} THEN "error" ELSE "keep_active"

(* The row the store holds after the decision is applied: metadata only.      *)
Applied(p, decision, now) ==
  LET active == decision \in {"reactivate", "keep_active"}
  IN [p EXCEPT !.lstate = IF active THEN "active" ELSE "suppressed",
               !.ordinary = active, !.updated = now]

(* ... and after an access that read the count n.                             *)
Accessed(p, n, now) == [p EXCEPT !.count = n + 1, !.last = now, !.updated = now]
=============================================================================
