----------------------------- MODULE RequestPath -----------------------------
(***************************************************************************)
(* A tool call from authentication to its effect (api/http.py,             *)
(* mcp/server.py), the shared quota table (tenancy/limiter.py), and a      *)
(* Dream job that carries its caller's authority to a worker               *)
(* (tenancy/durable.py, dreaming/queue.py, dreaming/worker.py).            *)
(*                                                                         *)
(* The tool calls of one server process run one after the other on its     *)
(* event loop; several server processes and a worker share the quota       *)
(* table, the job queue and the vector store.  A reservation takes its     *)
(* time stamp before it waits for the table's write lock.  Effects on the  *)
(* store are reduced to the rows written and read, with their attribution. *)
(***************************************************************************)
EXTENDS TenancyPolicy, FiniteSetsExt

CONSTANTS
  Modes,          \* the deployment modes considered
  Servers,        \* server processes
  Principals,     \* the registry: [name -> authority without mode]
  Credentials,    \* [credentials -> names], digests of the configured credentials
  NoPrincipal,
  Tools,          \* the tools called
  Contexts,       \* the selectors callers pass
  Limit,          \* [Resources -> Nat], the quota policy
  Window,         \* [Resources -> Nat], its windows; 0 for the per-request recall limit
  Patience,       \* how long SQLite waits for the write lock
  MaxTime, MaxCalls  \* bounds

ASSUME RequestAssumption ==
  /\ Limit \in [Resources -> Nat] /\ Window \in [Resources -> Nat]
  /\ Modes \subseteq DeploymentModes /\ Tools \subseteq AllTools /\ Contexts \subseteq Selectors /\ Patience \in Nat
  /\ \A r \in Resources : Window[r] = 0 <=> r = "recall_limit"
  /\ MaxTime \in Nat

\* PrincipalRegistry.load: every credential names an entry; an entry has a finite scope
ASSUME RegistryAssumption ==
  /\ Credentials \in [DOMAIN Credentials -> DOMAIN Principals]
  /\ \A n \in DOMAIN Principals :
       /\ Principals[n].scope \in [Dimensions -> SUBSET Values]
       /\ \A d \in Dimensions : IsFiniteSet(Principals[n].scope[d])
       /\ Principals[n].ops \subseteq Operations
  /\ "worker" \notin Servers

VARIABLES
  mode,      \* the deployment mode, a setting
  now,
  usage,     \* quota_usage: <<key, resource, window>> -> used, 0 without a row
  rows,      \* the stored rows
  jobs,      \* the Dream jobs
  approval,  \* a candidate under review, and whether its approval was written
  pc, call,  \* each server's call, and the worker's job
  answer,    \* the rows last handed out, and to whom
  calls,
  charged    \* history: what was admitted in each window, by calls made within it

vars == <<mode, now, usage, rows, jobs, approval, pc, call, answer, calls, charged>>

Worker == "worker"
Processes == Servers \cup {Worker}
Legacy == [has |-> FALSE, snapshot |-> Owner, status |-> "pending"]
NoCall == [by |-> Owner, tool |-> "none", sel |-> NoSelector, charges |-> WorkerCharges,
           stamp |-> 0, outdated |-> FALSE]
NoAnswer == [to |-> Owner, rows |-> {}]

AuthorityOf(name) == [mode |-> mode, scope |-> Principals[name].scope, ops |-> Principals[name].ops]
WindowOf(r, t) == IF Window[r] = 0 THEN 0 ELSE t \div Window[r]
WindowEnd(r, w) == (w + 1) * Window[r]
Windows == 0..Max({WindowOf(r, MaxTime) : r \in Resources})
BudgetKeys == (UNION {QuotaKeys(Principals[n].scope) : n \in DOMAIN Principals})
                \cup {<<"agent", "__single_owner__">>}
Slots == BudgetKeys \X {r \in Resources : Window[r] > 0} \X Windows

\* A registry is loaded when every principal fits the deployment mode.  There is a row
\* and a job from before the deployment knew principals.
Init ==
  /\ mode \in Modes
  /\ \A n \in DOMAIN Principals : IsAuthority(AuthorityOf(n))
  /\ now = 0 /\ usage = [s \in Slots |-> 0] /\ charged = usage
  /\ rows = {[n |-> 0, scope |-> EmptyScope, attr |-> NoSelector, stamp |-> -1]}
  /\ jobs = {Legacy} /\ approval = "pending"
  /\ pc = [p \in Processes |-> "idle"] /\ call = [p \in Processes |-> NoCall]
  /\ answer = NoAnswer /\ calls = 0

Moved(from, to) == {[j EXCEPT !.status = IF @ = from THEN to ELSE @] : j \in jobs}
Set(p, to) == pc' = [pc EXCEPT ![p] = to]
Return(p) == Set(p, "idle") /\ call' = [call EXCEPT ![p] = NoCall]

\* PrincipalRegistry.authenticate: the one principal with this credential
Authenticate(credential) ==
  IF credential \in DOMAIN Credentials THEN Credentials[credential] ELSE NoPrincipal

\* the tools whose arguments have identity selectors
ExactTools == {"knowledge_get", "memory_get"}
StoreTools == ChargedAsWrite \ {"dream_review_resolve", "knowledge_relation_review"}
Selective == ChargedAsRecall \cup StoreTools

\* RequireAuthMiddleware, call_tool up to the reservation
CallBegin(p, credential, tool, sel, limit, approves) ==
  LET name == Authenticate(credential) IN
  /\ pc[p] = "idle" /\ calls < MaxCalls /\ calls' = calls + 1
  /\ sel # NoSelector => tool \in Selective
  /\ name # NoPrincipal /\ Authorized(AuthorityOf(name), tool, approves)
  /\ call' = [call EXCEPT ![p] = [by |-> AuthorityOf(name), tool |-> tool, sel |-> sel,
                                  charges |-> Charges(tool, limit), stamp |-> now,
                                  outdated |-> FALSE]]
  /\ Set(p, "reserve")
  /\ answer' = NoAnswer /\ UNCHANGED <<mode, approval, now, usage, rows, jobs, charged>>

\* reserve: one transaction.  Expired rows go; either every budget has room for its
\* charge and all are charged, or nothing is.
Keys(p) == QuotaKeys(call[p].by.scope)
Used(k, r, w) == IF Window[r] = 0 THEN 0 ELSE usage[<<k, r, w>>]
\* Wrong variant: the budget is compared before the charge is added
HasRoomBefore(p) == \A k \in Keys(p), r \in Resources : call[p].charges[r] > 0 =>
  Used(k, r, WindowOf(r, call[p].stamp)) <= Limit[r]
HasRoom(p) == \A k \in Keys(p), r \in Resources : call[p].charges[r] > 0 =>
  Used(k, r, WindowOf(r, call[p].stamp)) + call[p].charges[r] <= Limit[r]
Live(s, stamp) == WindowEnd(s[2], s[3]) > stamp
ChargesOf(p) ==
  LET keys == Keys(p) c == call[p]
  IN [s \in Slots |-> IF s[1] \in keys /\ s[3] = WindowOf(s[2], c.stamp) THEN c.charges[s[2]] ELSE 0]
Purged(s, stamp) == IF Live(s, stamp) THEN usage[s] ELSE 0

\* Wrong variant: each budget is charged as it is checked
RefusedPartly(p) ==
  LET due == ChargesOf(p)
  IN [s \in Slots |-> IF usage[s] + due[s] <= Limit[s[2]] THEN usage[s] + due[s] ELSE usage[s]]

\* what a refused reservation leaves: the whole transaction is rolled back
Refused(p) == usage

Reserve(p) ==
  LET due == ChargesOf(p) IN
  /\ pc[p] = "reserve" /\ now <= call[p].stamp + Patience
  /\ \/ /\ HasRoom(p)
        /\ usage' = [s \in Slots |-> Purged(s, call[p].stamp) + due[s]]
        /\ charged' = [s \in Slots |-> charged[s] + (IF Live(s, now) THEN due[s] ELSE 0)]
        /\ call' = [call EXCEPT ![p].outdated = WindowOf("writes", call[p].stamp) # WindowOf("writes", now)]
        /\ Set(p, "dispatch") /\ UNCHANGED jobs
     \/ /\ ~HasRoom(p)
        /\ usage' = Refused(p) /\ Return(p) /\ UNCHANGED charged
        /\ jobs' = IF p = Worker THEN Moved("processing", "deferred") ELSE jobs
  /\ answer' = NoAnswer /\ UNCHANGED <<mode, approval, now, rows, calls>>

\* the busy timeout of SQLite: the call fails
ReserveTimeout(p) ==
  /\ pc[p] = "reserve" /\ now > call[p].stamp + Patience
  /\ Return(p)
  /\ jobs' = IF p = Worker THEN Moved("processing", "failed") ELSE jobs
  /\ answer' = NoAnswer /\ UNCHANGED <<mode, approval, now, usage, rows, calls, charged>>

\* A row written under authority a; stamp is the admission it was charged to
Row(a, attr, stamp) == [n |-> Cardinality(rows), scope |-> a.scope, attr |-> attr, stamp |-> stamp]
Admission(c) == IF c.outdated THEN -1 ELSE c.stamp

\* _dispatch_tool: reads, writes and enqueueing; the other tools are in the modules of
\* their components
DispatchTo(p, tools) == p \in Servers /\ pc[p] = "dispatch" /\ call[p].tool \in tools /\ Return(p)

ReadCall(p) ==
  LET c == call[p] a == call[p].by IN
  /\ DispatchTo(p, ChargedAsRecall \cup ExactTools) /\ Enforced(a, c.sel, "read")
  /\ answer' = [to |-> a, rows |-> {r \in rows : Visible(a, c.sel, r.attr)}]
  /\ UNCHANGED <<mode, now, usage, rows, jobs, approval, calls, charged>>

StoreCall(p) ==
  LET c == call[p] a == call[p].by IN
  /\ DispatchTo(p, StoreTools) /\ Attributable(a, c.sel)
  /\ rows' = rows \cup {Row(a, Attribution(a, c.sel), Admission(c))}
  /\ answer' = NoAnswer /\ UNCHANGED <<mode, now, usage, jobs, approval, calls, charged>>

\* one job for each identity and session, with a snapshot of the caller's authority
EnqueueCall(p) ==
  LET a == call[p].by IN
  /\ DispatchTo(p, {"dream_enqueue"}) /\ Attributable(a, NoSelector)
  /\ jobs' = IF \E j \in jobs : j.snapshot.scope = a.scope THEN jobs
             ELSE jobs \cup {[has |-> TRUE, snapshot |-> Snapshot(a), status |-> "pending"]}
  /\ answer' = NoAnswer /\ UNCHANGED <<mode, now, usage, rows, approval, calls, charged>>

\* DreamOperations.review of an approval: the resolution is committed, then the row is
\* written, which needs the write grant
Approve(p) ==
  LET c == call[p] IN
  /\ DispatchTo(p, {"dream_review_resolve"})
  /\ \/ /\ Attributable(c.by, NoSelector) /\ approval # "written" /\ approval' = "written"
        /\ rows' = rows \cup {Row(c.by, Attribution(c.by, NoSelector), Admission(c))}
     \/ /\ Attributable(c.by, NoSelector) /\ approval = "written" /\ UNCHANGED <<approval, rows>>
     \/ /\ ~Attributable(c.by, NoSelector) /\ UNCHANGED rows
        /\ approval' = IF approval = "pending" THEN "unwritten" ELSE approval
  /\ answer' = NoAnswer /\ UNCHANGED <<mode, now, usage, jobs, calls, charged>>

\* dispatch raises, or the process dies: what was reserved stays reserved, and an
\* approval may be committed and its row missing until the review is repeated
DispatchFails(p) ==
  /\ p \in Servers /\ pc[p] = "dispatch" /\ Return(p)
  /\ approval' \in {approval} \cup IF call[p].tool = "dream_review_resolve" /\ approval = "pending"
                                   THEN {"interrupted"} ELSE {}
  /\ answer' = NoAnswer /\ UNCHANGED <<mode, now, usage, rows, jobs, calls, charged>>

\* claim_next and process_job: a worker of a broader mode takes jobs of its mode only
Claimable(j) == /\ j.status = "pending"
                /\ mode # "single_owner" => j.has /\ j.snapshot.mode = mode

WorkerClaim(j) ==
  /\ pc[Worker] = "idle" /\ j \in jobs /\ Claimable(j)
  /\ jobs' = (jobs \ {j}) \cup {[j EXCEPT !.status = "processing"]}
  /\ call' = [call EXCEPT ![Worker] = [NoCall EXCEPT !.by = IF j.has THEN j.snapshot ELSE Owner,
                                                     !.stamp = now]]
  /\ Set(Worker, "reserve")
  /\ answer' = NoAnswer /\ UNCHANGED <<mode, approval, now, usage, rows, calls, charged>>

\* The job reads its evidence and writes under the restored authority
WorkerRun ==
  LET a == call[Worker].by IN
  /\ pc[Worker] = "dispatch" /\ Return(Worker)
  /\ Enforced(a, NoSelector, "background_reasoning") /\ Attributable(a, NoSelector)
  /\ answer' = [to |-> a, rows |-> {r \in rows : Visible(a, NoSelector, r.attr)}]
  /\ rows' = rows \cup {Row(a, Attribution(a, NoSelector), -1)}
  /\ jobs' = Moved("processing", "processed")
  /\ UNCHANGED <<mode, approval, now, usage, calls, charged>>

\* a deferred job is due again in the next window
Tick ==
  /\ now < MaxTime /\ now' = now + 1
  /\ jobs' = IF WindowOf("background_reasoning", now + 1) # WindowOf("background_reasoning", now)
             THEN Moved("deferred", "pending") ELSE jobs
  /\ answer' = NoAnswer /\ UNCHANGED <<mode, approval, usage, rows, pc, call, calls, charged>>

Next ==
  \/ \E p \in Servers :
       \/ \E c \in DOMAIN Credentials, tool \in Tools, sel \in Contexts :
            CallBegin(p, c, tool, sel, 1, TRUE)
       \/ ReadCall(p) \/ StoreCall(p) \/ EnqueueCall(p) \/ Approve(p) \/ DispatchFails(p)
  \/ \E p \in Processes : Reserve(p) \/ ReserveTimeout(p)
  \/ \E j \in jobs : WorkerClaim(j)
  \/ WorkerRun \/ Tick

Spec == Init /\ [][Next]_vars

----------------------------------------------------------------------------
\* Types of the state: budgets within the clock's windows, calls between their two steps
RequestTypeOK ==
  /\ mode \in DeploymentModes /\ now \in 0..MaxTime
  /\ usage \in [Slots -> Nat] /\ \A s \in Slots : usage[s] <= Limit[s[2]]
  /\ \A r \in rows : r.attr \in Selectors
  /\ \A p \in Processes : pc[p] \in {"idle", "reserve", "dispatch"}
  /\ \A j \in jobs : j.status \in {"pending", "processing", "processed", "deferred", "failed"}

\* reserve: in every window still open each budget's row is what the admitted calls and
\* jobs of all processes add up to; a refused one left nothing behind in any budget
LedgerExact == \A s \in Slots : Live(s, now) => usage[s] = charged[s]

\* docs/TENANCY_OPERATIONS.md: the rows written by the calls admitted in one window stay
\* within the budget of their tenant and of their user, over all server processes
WritesWithinBudget == \A k \in {s[1] : s \in Slots}, w \in Windows :
  Cardinality({r \in rows : r.stamp >= 0 /\ k \in QuotaKeys(r.scope) /\ WindowOf("writes", r.stamp) = w})
    <= Limit["writes"]

\* Required scope: what a caller or a job is handed was written within the same required
\* dimensions; rows and jobs from before the deployment had principals stay out of it
Isolation == \A r \in answer.rows : \A d \in Required(mode) : r.scope[d] = answer.to.scope[d]

\* durable.py: filtering jobs in SQL and checking one in Python see the same jobs
SnapshotChecksAgree == \A j \in jobs, a \in {AuthorityOf(n) : n \in DOMAIN Principals} \cup {Owner} :
  SnapshotVisible(a, j.has, j.snapshot) <=> SqlVisible(a, j.has, j.snapshot)

\* call_tool: no approval is committed by a caller who cannot write it, except one granted
\* both whose scope names several values for a dimension: its grants are checked before
\* the resolution, the attribution of the row only when it is written
Ambiguous(n) == /\ {"write", "admin_review"} \subseteq Principals[n].ops
                /\ \E d \in Dimensions : Cardinality(Principals[n].scope[d]) > 1
ApprovalWritten == approval = "unwritten" => \E n \in DOMAIN Principals : Ambiguous(n)

\* The limiter of all processes together is one exact ledger per budget and window,
\* and the budgets bound what is written (tenancy/limiter.py).
QuotaExact == RequestTypeOK /\ LedgerExact /\ WritesWithinBudget

\* Every place that decides on the same authority decides the same.
AuthorityConsistent == SnapshotChecksAgree /\ ApprovalWritten
=============================================================================
