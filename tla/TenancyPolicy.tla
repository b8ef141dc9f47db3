---------------------------- MODULE TenancyPolicy ----------------------------
(***************************************************************************)
(* The decisions of the tenancy package, as operators: what an authority   *)
(* allows (policy.py, enforcement.py, runtime.py), how reads are filtered  *)
(* and writes attributed (filters.py, attribution.py), what a durable      *)
(* authority snapshot lets a caller see (durable.py), and which budgets a  *)
(* call is charged to (limiter.py, mcp/server.py).                         *)
(*                                                                         *)
(* A scope gives every identity dimension the set of values allowed, the   *)
(* empty set where it is not constrained.  An authority is a deployment    *)
(* mode, a scope and the operation classes granted.                        *)
(***************************************************************************)
EXTENDS Integers, FiniteSets

CONSTANTS Values, None    \* identifiers, and a field that is not set
ASSUME NoneAssumption == None \notin Values

Dimensions == {"tenant", "user", "agent", "project", "session"}
Operations == {"read", "write", "admin_review", "background_reasoning"}
DeploymentModes == {"single_owner", "agent_ready", "multi_user"}

EmptyScope == [d \in Dimensions |-> {}]
Selectors == [Dimensions -> Values \cup {None}]
NoSelector == [d \in Dimensions |-> None]

\* _DEPLOYMENT_PROFILES
Required(mode) == CASE mode = "single_owner" -> {} [] mode = "agent_ready" -> {"agent"}
                    [] mode = "multi_user" -> {"tenant", "user"}

\* authority_for_authenticated_scope
IsAuthority(a) == \A d \in Required(a.mode) : Cardinality(a.scope[d]) = 1
Owner == [mode |-> "single_owner", scope |-> EmptyScope, ops |-> Operations]

\* ScopeAuthorizationPolicy.decide: the request narrows the grant, or is refused
Effective(a, requested) ==
  [d \in Dimensions |-> IF requested[d] # {} THEN requested[d] ELSE a.scope[d]]
\* Wrong variant: a selector for a dimension of the grant replaces it
DecideAny(a, requested, op, required) ==
  /\ op \in a.ops
  /\ \A d \in required : Effective(a, requested)[d] # {}

Decide(a, requested, op, required) ==
  /\ op \in a.ops
  /\ \A d \in Dimensions : requested[d] \subseteq a.scope[d]
  /\ \A d \in required : Effective(a, requested)[d] # {}

\* enforce_operation: a selector narrows a constrained dimension, and is context elsewhere
Requested(a, sel) ==
  [d \in Dimensions |-> IF sel[d] # None /\ a.scope[d] # {} THEN {sel[d]} ELSE {}]
Enforced(a, sel, op) == Decide(a, Requested(a, sel), op, Required(a.mode))

\* build_storage_filter and the selectors added as conditions of their own
Visible(a, sel, attr) ==
  /\ \A d \in Dimensions : LET scope == Effective(a, Requested(a, sel))[d]
                           IN scope # {} => attr[d] \in scope
  /\ \A d \in Dimensions : sel[d] # None => attr[d] = sel[d]

\* build_write_attribution and scoped_values: one value for every dimension of the
\* effective scope, the caller's value for the others
Attributable(a, sel) ==
  /\ Enforced(a, sel, "write")
  /\ \A d \in Dimensions : Cardinality(Effective(a, Requested(a, sel))[d]) <= 1
Attribution(a, sel) ==
  [d \in Dimensions |-> LET scope == Effective(a, Requested(a, sel))[d]
                        IN IF scope # {} THEN CHOOSE v \in scope : TRUE ELSE sel[d]]

\* The snapshot a Dream job is enqueued with: the caller's concrete scope, every operation
Snapshot(a) == [mode |-> a.mode, scope |-> a.scope, ops |-> Operations]

\* snapshot_visible, on a job's snapshot; a job from before snapshots has none
SnapshotVisible(a, has, snap) ==
  \/ a.scope = EmptyScope
  \/ has /\ \A d \in Dimensions : a.scope[d] # {} =>
              snap.scope[d] # {} /\ snap.scope[d] \subseteq a.scope[d]

\* Wrong variant: without the test that the job is scoped at all, a null column passes
SqlVisibleNull(a, has, snap) ==
  \A d \in {e \in Dimensions : a.scope[e] # {}} : ~\E v \in snap.scope[d] : v \notin a.scope[d]

\* snapshot_sql_filter: one clause for each dimension of the scope; on a null column
\* json_array_length is null and the clause is not satisfied
SqlVisible(a, has, snap) ==
  LET clause(d) == /\ has /\ Cardinality(snap.scope[d]) > 0
                   /\ ~\E v \in snap.scope[d] : v \notin a.scope[d]
  IN \A d \in {e \in Dimensions : a.scope[e] # {}} : clause(d)

----------------------------------------------------------------------------
\* _authorize_tool

ReadTools == {"knowledge_relations", "knowledge_search", "memory_search", "knowledge_get",
  "memory_get", "knowledge_timeline", "tech_find", "ai_memory_read", "conversation_recall",
  "prediction_observe", "prediction_pending", "calibration_observe", "dream_status"}
WriteTools == {"knowledge_relation_propose", "knowledge_store", "memory_store", "tech_store",
  "conversation_save", "prediction_record", "prediction_resolve", "dream_enqueue",
  "dream_reason_submit"}
ReviewTools == {"dream_reviews", "dream_review_resolve", "knowledge_relation_review"}
AllTools == ReadTools \cup WriteTools \cup ReviewTools \cup {"dream_reason_claim"}

OperationOf(tool) ==
  CASE tool \in ReadTools -> "read" [] tool \in WriteTools -> "write"
    [] tool \in ReviewTools -> "admin_review" [] OTHER -> "background_reasoning"

\* ... and the second check of call_tool: an approval writes canonical knowledge
\* (wrong variant: without it)
AuthorizedReview(a, tool, approves) == Decide(a, EmptyScope, OperationOf(tool), {})
Authorized(a, tool, approves) ==
  /\ Decide(a, EmptyScope, OperationOf(tool), {})
  /\ (tool = "dream_review_resolve" /\ approves) => "write" \in a.ops

\* _reserve_tool_quota: what a call of a tool is charged, limit being its recall size
Resources == {"requests", "writes", "recall_limit", "dream_enqueue", "background_reasoning"}
ChargedAsWrite == (WriteTools \ {"dream_enqueue", "dream_reason_submit"})
  \cup {"dream_review_resolve", "knowledge_relation_review"}
ChargedAsRecall == {"knowledge_search", "memory_search", "tech_find", "ai_memory_read",
  "conversation_recall", "knowledge_timeline", "knowledge_relations"}
Charges(tool, limit) ==
  [r \in Resources |->
     CASE r = "requests" -> 1
       [] r = "writes" -> IF tool \in ChargedAsWrite THEN 1 ELSE 0
       [] r = "recall_limit" -> IF tool \in ChargedAsRecall THEN limit ELSE 0
       [] r = "dream_enqueue" -> IF tool = "dream_enqueue" THEN 1 ELSE 0
       [] OTHER -> IF tool = "dream_reason_claim" THEN 1 ELSE 0]
WorkerCharges == [r \in Resources |-> IF r = "background_reasoning" THEN 1 ELSE 0]

\* SQLiteQuotaLimiter.reserve: a budget per tenant and per user of a tenant, without
\* either one per agent, and one for an owner without identity
QuotaKeys(scope) ==
  LET tenants == {<<"tenant", t>> : t \in scope["tenant"]}
      users == IF scope["tenant"] = {} THEN {<<"user", u>> : u \in scope["user"]}
               ELSE {<<"tenant", t, "user", u>> : t \in scope["tenant"], u \in scope["user"]}
      agents == {<<"agent", g>> : g \in scope["agent"]}
  IN IF tenants \cup users # {} THEN tenants \cup users
     ELSE IF agents # {} THEN agents ELSE {<<"agent", "__single_owner__">>}
=============================================================================
