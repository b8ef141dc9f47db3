-------------------------- MODULE RequestPath_proof --------------------------
(***************************************************************************)
(* Theorems about RequestPath for every registry of principals, quota      *)
(* policy, number of server processes, calls and ticks.                    *)
(***************************************************************************)
EXTENDS RequestPath, FiniteSetTheorems, TLAPS

Scopes == [Dimensions -> SUBSET Values]
Authorities == [mode: DeploymentModes, scope: Scopes, ops: SUBSET Operations]
Rows == [n: Nat, scope: Scopes, attr: Selectors, stamp: Int]
Calls == [by: Authorities, tool: AllTools \cup {"none"}, sel: Selectors,
          charges: [Resources -> Nat], stamp: Nat, outdated: BOOLEAN]
Jobs == [has: BOOLEAN, snapshot: Authorities,
         status: {"pending", "processing", "processed", "deferred", "failed"}]
FiniteScope(scope) == \A d \in Dimensions : IsFiniteSet(scope[d])

\* An authority of this deployment: every required dimension is pinned to one value
Pinned(a) == /\ a.mode = mode
             /\ \A d \in Required(mode) : \E v \in Values : a.scope[d] = {v}

(***************************************************************************)
(* The decisions.                                                          *)
(***************************************************************************)
\* The dimensions a mode requires are identity dimensions, and an owner has none
LEMMA RequiredDims == \A m \in DeploymentModes : Required(m) \subseteq Dimensions /\ Required("single_owner") = {}
<1>1. Required("single_owner") = {}
  BY DEF Required
<1>2. ASSUME NEW m \in DeploymentModes PROVE Required(m) \subseteq Dimensions
  BY <1>2 DEF Required, DeploymentModes, Dimensions
<1>3. QED
  BY <1>1, <1>2

\* An empty scope is a scope
LEMMA EmptyIsScope == EmptyScope \in Scopes /\ NoSelector \in Selectors /\ Owner \in Authorities
                      /\ FiniteScope(EmptyScope)
<1>1. EmptyScope \in Scopes /\ NoSelector \in Selectors
  BY DEF EmptyScope, Scopes, NoSelector, Selectors
<1>2. FiniteScope(EmptyScope)
  BY FS_EmptySet DEF EmptyScope, FiniteScope
<1>3. Owner \in Authorities
  BY <1>1 DEF Owner, Authorities, DeploymentModes
<1>4. QED
  BY <1>1, <1>2, <1>3

\* What the caller selects and what results of it are scopes
LEMMA EffectiveType ==
  ASSUME NEW a \in Authorities, NEW sel \in Selectors, NEW op, Enforced(a, sel, op)
  PROVE  /\ Requested(a, sel) \in Scopes
         /\ Effective(a, Requested(a, sel)) \in Scopes
         /\ \A d \in Dimensions : Effective(a, Requested(a, sel))[d] \subseteq a.scope[d]
         /\ op \in a.ops
<1>1. ASSUME NEW d \in Dimensions PROVE Requested(a, sel)[d] \subseteq a.scope[d]
  BY <1>1 DEF Enforced, Decide
<1>2. a.scope \in Scopes
  BY DEF Authorities
<1>3. Requested(a, sel) = [d \in Dimensions |-> Requested(a, sel)[d]]
  BY DEF Requested
<1>4. Requested(a, sel) \in Scopes
  BY <1>1, <1>2, <1>3 DEF Scopes
<1>5. \A d \in Dimensions : Effective(a, Requested(a, sel))[d] \subseteq a.scope[d]
  BY <1>1, <1>2 DEF Effective
<1>6. Effective(a, Requested(a, sel)) \in Scopes
  BY <1>2, <1>5 DEF Effective, Scopes
<1>7. op \in a.ops
  BY DEF Enforced, Decide
<1>8. QED
  BY <1>4, <1>5, <1>6, <1>7

\* A dimension required of the caller and pinned stays pinned, whatever is selected
LEMMA EnforcedPins ==
  ASSUME NEW a \in Authorities, NEW sel \in Selectors, NEW op, Enforced(a, sel, op),
         NEW d \in Required(a.mode), NEW v, a.scope[d] = {v}
  PROVE  Effective(a, Requested(a, sel))[d] = {v}
<1>1. d \in Dimensions
  BY RequiredDims DEF Authorities
<1>2. Effective(a, Requested(a, sel))[d] \subseteq {v}
  BY <1>1, EffectiveType
<1>3. Effective(a, Requested(a, sel))[d] # {}
  BY <1>1 DEF Enforced, Decide
<1>4. QED
  BY <1>2, <1>3

\* A caller sees rows attributed to the pinned value
LEMMA VisiblePins ==
  ASSUME NEW a \in Authorities, NEW sel \in Selectors, NEW op, Enforced(a, sel, op), NEW attr,
         Visible(a, sel, attr), NEW d \in Required(a.mode), NEW v, a.scope[d] = {v}
  PROVE  attr[d] = v
<1>1. d \in Dimensions
  BY RequiredDims DEF Authorities
<1>2. Effective(a, Requested(a, sel))[d] = {v}
  BY EnforcedPins
<1>3. QED
  BY <1>1, <1>2 DEF Visible

\* ... and writes rows attributed to it
LEMMA AttributionPins ==
  ASSUME NEW a \in Authorities, NEW sel \in Selectors, Attributable(a, sel)
  PROVE  /\ Attribution(a, sel) \in Selectors
         /\ \A d \in Required(a.mode), v \in Values : a.scope[d] = {v} => Attribution(a, sel)[d] = v
<1>1. Enforced(a, sel, "write")
  BY DEF Attributable
<1>2. Effective(a, Requested(a, sel)) \in Scopes
  BY <1>1, EffectiveType
<1>3. ASSUME NEW d \in Dimensions PROVE Attribution(a, sel)[d] \in Values \cup {None}
  BY <1>2, <1>3 DEF Attribution, Scopes, Selectors
<1>4. Attribution(a, sel) \in Selectors
  BY <1>3 DEF Attribution, Selectors
<1>5. ASSUME NEW d \in Required(a.mode), NEW v \in Values, a.scope[d] = {v}
      PROVE Attribution(a, sel)[d] = v
  <2>1. d \in Dimensions
    BY RequiredDims DEF Authorities
  <2>2. Effective(a, Requested(a, sel))[d] = {v}
    BY <1>1, <1>5, EnforcedPins
  <2>3. QED
    BY <2>1, <2>2 DEF Attribution
<1>6. QED
  BY <1>4, <1>5

\* durable.py: the filter in Python and the one in SQL agree on finite scopes
LEMMA SnapshotFiltersAgree ==
  ASSUME NEW a \in Authorities, NEW has \in BOOLEAN, NEW snap \in Authorities,
         FiniteScope(snap.scope)
  PROVE  SnapshotVisible(a, has, snap) <=> SqlVisible(a, has, snap)
<1>1. \A d \in Dimensions : Cardinality(snap.scope[d]) > 0 <=> snap.scope[d] # {}
  <2>1. ASSUME NEW d \in Dimensions PROVE Cardinality(snap.scope[d]) > 0 <=> snap.scope[d] # {}
    <3>1. IsFiniteSet(snap.scope[d])
      BY DEF FiniteScope
    <3>2. Cardinality(snap.scope[d]) \in Nat
      BY <3>1, FS_CardinalityType
    <3>3. Cardinality(snap.scope[d]) = 0 <=> snap.scope[d] = {}
      BY <3>1, FS_EmptySet
    <3>4. QED
      BY <3>2, <3>3
  <2>2. QED
    BY <2>1
<1>2. a.scope = EmptyScope <=> \A d \in Dimensions : a.scope[d] = {}
  BY DEF Authorities, Scopes, EmptyScope
<1>3. \A d \in Dimensions : snap.scope[d] \subseteq a.scope[d] <=> ~\E v \in snap.scope[d] : v \notin a.scope[d]
  OBVIOUS
<1>4. QED
  BY <1>1, <1>2, <1>3 DEF SnapshotVisible, SqlVisible

\* An authority of this deployment whose scope names at most one value of a dimension
\* can attribute what it writes, when it has the grant
LEMMA ConcreteWrites ==
  ASSUME NEW a \in Authorities, "write" \in a.ops,
         \A d \in Required(a.mode) : \E v \in Values : a.scope[d] = {v},
         \A d \in Dimensions : Cardinality(a.scope[d]) <= 1
  PROVE  Attributable(a, NoSelector)
<1>1. Requested(a, NoSelector) = EmptyScope
  BY DEF Requested, NoSelector, EmptyScope
<1>2. \A d \in Dimensions : Effective(a, EmptyScope)[d] = a.scope[d]
  BY DEF Effective, EmptyScope
<1>3. \A d \in Required(a.mode) : d \in Dimensions
  BY RequiredDims DEF Authorities
<1>4. \A d \in Required(a.mode) : Effective(a, EmptyScope)[d] # {}
  BY <1>2, <1>3
<1>5. \A d \in Dimensions : EmptyScope[d] \subseteq a.scope[d]
  BY DEF EmptyScope
<1>6. Enforced(a, NoSelector, "write")
  BY <1>1, <1>4, <1>5 DEF Enforced, Decide
<1>7. QED
  BY <1>1, <1>2, <1>6 DEF Attributable

\* An authority with a required dimension of one value is pinned to it
LEMMA AuthorityPinned ==
  ASSUME NEW a \in Authorities, FiniteScope(a.scope), IsAuthority(a)
  PROVE  \A d \in Required(a.mode) : \E v \in Values : a.scope[d] = {v}
<1>1. ASSUME NEW d \in Required(a.mode) PROVE \E v \in Values : a.scope[d] = {v}
  <2>1. d \in Dimensions
    BY RequiredDims DEF Authorities
  <2>2. IsFiniteSet(a.scope[d]) /\ a.scope[d] \subseteq Values
    BY <2>1 DEF FiniteScope, Authorities, Scopes
  <2>3. Cardinality(a.scope[d]) = 1
    BY DEF IsAuthority
  <2>4. PICK v : a.scope[d] = {v}
    BY <2>2, <2>3, FS_Singleton
  <2>5. QED
    BY <2>2, <2>4
<1>2. QED
  BY <1>1

\* What a call is charged
LEMMA ChargesType ==
  \A tool \in AllTools : /\ Charges(tool, 1) \in [Resources -> Nat]
                         /\ tool \in ChargedAsWrite => Charges(tool, 1)["writes"] = 1
<1>1. ASSUME NEW tool \in AllTools PROVE Charges(tool, 1) \in [Resources -> Nat]
  BY DEF Charges, Resources
<1>2. ASSUME NEW tool \in AllTools PROVE tool \in ChargedAsWrite => Charges(tool, 1)["writes"] = 1
  BY DEF Charges, Resources
<1>3. QED
  BY <1>1, <1>2

\* ... and what a job is
LEMMA WorkerChargesType == WorkerCharges \in [Resources -> Nat] /\ WorkerCharges["writes"] = 0
BY DEF WorkerCharges, Resources

(***************************************************************************)
(* Windows.                                                                *)
(***************************************************************************)
\* A time lies in the window it is divided into
LEMMA DivBounds ==
  ASSUME NEW t \in Nat, NEW n \in Nat \ {0}
  PROVE  /\ t \div n \in Nat
         /\ (t \div n + 1) * n > t
         /\ (t \div n) * n <= t
OBVIOUS

\* Integers multiply by a positive number in their order
LEMMA TimesMonotone ==
  ASSUME NEW a \in Nat, NEW b \in Nat, NEW n \in Nat \ {0}, a + 1 <= b
  PROVE  (a + 1) * n <= b * n
OBVIOUS

\* A later time lies in the same window or a later one
LEMMA DivMonotone ==
  ASSUME NEW t \in Nat, NEW u \in Nat, NEW n \in Nat \ {0}, t <= u
  PROVE  t \div n <= u \div n
<1>1. (t \div n) * n <= t /\ u < (u \div n + 1) * n /\ t \div n \in Nat /\ u \div n \in Nat
  BY DivBounds
<1>2. SUFFICES ASSUME u \div n + 1 <= t \div n PROVE FALSE
  BY <1>1
<1>3. (u \div n + 1) * n <= (t \div n) * n
  BY <1>1, <1>2, TimesMonotone
<1>4. QED
  BY <1>1, <1>3

\* The window numbers in use are a range that holds every window up to the time bound
LEMMA WindowsBound ==
  /\ \A r \in Resources, t \in 0..MaxTime : Window[r] > 0 => WindowOf(r, t) \in Windows
  /\ Windows \subseteq Nat
<1> DEFINE M == {WindowOf(r, MaxTime) : r \in Resources}
<1>1. \A r \in Resources, t \in 0..MaxTime :
        /\ WindowOf(r, t) \in Nat
        /\ WindowOf(r, t) <= WindowOf(r, MaxTime)
  <2>1. ASSUME NEW r \in Resources, NEW t \in 0..MaxTime
        PROVE WindowOf(r, t) \in Nat /\ WindowOf(r, t) <= WindowOf(r, MaxTime)
    <3>1. Window[r] \in Nat /\ t \in Nat /\ MaxTime \in Nat /\ t <= MaxTime
      BY RequestAssumption
    <3>2. CASE Window[r] = 0
      BY <3>2 DEF WindowOf
    <3>3. CASE Window[r] # 0
      BY <3>1, <3>3, DivBounds, DivMonotone DEF WindowOf
    <3>4. QED
      BY <3>2, <3>3
  <2>2. QED
    BY <2>1
<1>2. M \subseteq Nat
  BY <1>1, RequestAssumption
<1>3. \E m \in M : \A x \in M : m >= x
  <2>1. M = {WindowOf("requests", MaxTime), WindowOf("writes", MaxTime), WindowOf("recall_limit", MaxTime),
             WindowOf("dream_enqueue", MaxTime), WindowOf("background_reasoning", MaxTime)}
    BY DEF Resources
  <2>2. \A a, b, c, d, e \in Nat : \E m \in {a, b, c, d, e} : \A x \in {a, b, c, d, e} : m >= x
    OBVIOUS
  <2>3. \A r \in Resources : WindowOf(r, MaxTime) \in Nat
    BY <1>1, RequestAssumption
  <2>4. \A r \in {"requests", "writes", "recall_limit", "dream_enqueue", "background_reasoning"} :
          WindowOf(r, MaxTime) \in Nat
    BY <2>3 DEF Resources
  <2> HIDE DEF M
  <2>5. QED
    BY <2>1, <2>2, <2>4
<1>4. Max(M) \in M /\ \A x \in M : Max(M) >= x
  BY <1>3 DEF Max
<1>5. Windows = 0..Max(M)
  BY DEF Windows
<1>6. ASSUME NEW r \in Resources, NEW t \in 0..MaxTime PROVE WindowOf(r, t) \in Windows
  <2>1. WindowOf(r, MaxTime) \in M
    OBVIOUS
  <2> HIDE DEF M
  <2>2. WindowOf(r, t) <= Max(M) /\ WindowOf(r, t) \in Nat /\ Max(M) \in Nat
    <3>1. WindowOf(r, MaxTime) <= Max(M) /\ Max(M) \in Nat /\ WindowOf(r, MaxTime) \in Nat
      BY <1>2, <1>4, <2>1
    <3>2. WindowOf(r, t) \in Nat /\ WindowOf(r, t) <= WindowOf(r, MaxTime)
      BY <1>1
    <3>3. QED
      BY <3>1, <3>2
  <2>3. QED
    BY <1>5, <2>2
<1>7. QED
  BY <1>2, <1>4, <1>5, <1>6

\* Stamps and windows: the slot a charge goes to is open at its time
LEMMA SlotOpen ==
  ASSUME NEW k \in BudgetKeys, NEW r \in Resources, Window[r] > 0, NEW t \in 0..MaxTime
  PROVE  /\ <<k, r, WindowOf(r, t)>> \in Slots
         /\ Live(<<k, r, WindowOf(r, t)>>, t)
<1>1. <<k, r, WindowOf(r, t)>> \in Slots
  BY WindowsBound DEF Slots
<1>2. Window[r] \in Nat \ {0} /\ t \in Nat
  BY RequestAssumption
<1>3. (t \div Window[r] + 1) * Window[r] > t
  BY <1>2, DivBounds
<1>4. WindowOf(r, t) = t \div Window[r]
  BY DEF WindowOf
<1> DEFINE s == <<k, r, WindowOf(r, t)>>
<1>5. s[2] = r /\ s[3] = WindowOf(r, t)
  OBVIOUS
<1>6. WindowEnd(s[2], s[3]) > t
  BY <1>3, <1>4, <1>5 DEF WindowEnd
<1>7. QED
  BY <1>1, <1>6 DEF Live

\* A slot open at a time was open at every time before
LEMMA OpenBefore ==
  ASSUME NEW s \in Slots, NEW t \in Nat, NEW u \in Nat, t <= u, Live(s, u)
  PROVE  Live(s, t)
<1>1. s[2] \in Resources /\ s[3] \in Nat
  BY WindowsBound DEF Slots
<1>2. WindowEnd(s[2], s[3]) \in Nat
  BY <1>1, RequestAssumption DEF WindowEnd
<1>3. QED
  BY <1>2 DEF Live

(***************************************************************************)
(* The invariant.                                                          *)
(***************************************************************************)
StateType ==
  /\ mode \in DeploymentModes /\ now \in 0..MaxTime
  /\ pc \in [Processes -> {"idle", "reserve", "dispatch"}]
  /\ call \in [Processes -> Calls]
  /\ jobs \subseteq Jobs /\ rows \subseteq Rows /\ IsFiniteSet(rows)
  /\ usage \in [Slots -> Nat] /\ charged \in [Slots -> Nat]

RegistryOK == \A n \in DOMAIN Principals : IsAuthority(AuthorityOf(n))

\* A server works for a principal, on a tool that principal may call; the worker for
\* the one its job came from.  No call comes from the future.
ServerOK(p) == pc[p] # "idle" =>
  /\ \E n \in DOMAIN Principals : call[p].by = AuthorityOf(n)
  /\ call[p].tool \in AllTools /\ call[p].charges = Charges(call[p].tool, 1)
  /\ Authorized(call[p].by, call[p].tool, TRUE)
WorkerOK == /\ call[Worker].charges = WorkerCharges
            /\ pc[Worker] # "idle" => Pinned(call[Worker].by)
CallsOK == /\ \A p \in Servers : ServerOK(p)
           /\ WorkerOK
           /\ \A p \in Processes : call[p].stamp <= now

\* A job that has an authority has one of this deployment
JobsOK == \A j \in jobs : FiniteScope(j.snapshot.scope) /\ (j.has => Pinned(j.snapshot))

\* A row is attributed to the required values of the authority it was written under, or
\* has none of them
RowsOK == \A r \in rows : r.stamp <= now /\
  \A d \in Required(mode) : r.attr[d] = None \/ r.scope[d] = {r.attr[d]}

\* No budget is overdrawn, in the table or in the history
WithinLimits == \A s \in Slots : usage[s] <= Limit[s[2]] /\ charged[s] <= Limit[s[2]]

\* The rows written by the calls charged to a slot, and the calls still to write theirs
WrittenIn(k, w) == {r \in rows : r.stamp >= 0 /\ k \in QuotaKeys(r.scope) /\ WindowOf("writes", r.stamp) = w}
StillToWrite(k, w) == {p \in Servers : /\ pc[p] = "dispatch" /\ ~call[p].outdated
                                       /\ call[p].charges["writes"] > 0
                                       /\ k \in QuotaKeys(call[p].by.scope)
                                       /\ WindowOf("writes", call[p].stamp) = w}
BudgetOK(k, w) ==
  /\ IsFiniteSet(StillToWrite(k, w))
  /\ Cardinality(WrittenIn(k, w)) + Cardinality(StillToWrite(k, w)) <= charged[<<k, "writes", w>>]
BudgetsOK == \A k \in BudgetKeys, w \in Windows : BudgetOK(k, w)

LedgerInv == WithinLimits /\ LedgerExact /\ BudgetsOK

BaseInv == StateType /\ RegistryOK /\ CallsOK /\ JobsOK

(***************************************************************************)
(* Calls and jobs keep their form.                                         *)
(***************************************************************************)
\* The authority of a principal is one of this deployment
LEMMA PrincipalPinned ==
  ASSUME RegistryOK, mode \in DeploymentModes, NEW n \in DOMAIN Principals
  PROVE  AuthorityOf(n) \in Authorities /\ FiniteScope(AuthorityOf(n).scope) /\ Pinned(AuthorityOf(n))
<1> DEFINE a == AuthorityOf(n)
<1>1. a \in Authorities /\ a.mode = mode
  BY RegistryAssumption DEF AuthorityOf, Authorities, Scopes
<1>2. FiniteScope(a.scope)
  BY RegistryAssumption DEF AuthorityOf, FiniteScope
<1>3. IsAuthority(a)
  BY DEF RegistryOK
<1> HIDE DEF a
<1>4. \A d \in Required(a.mode) : \E v \in Values : a.scope[d] = {v}
  BY <1>1, <1>2, <1>3, AuthorityPinned
<1>5. Pinned(a)
  BY <1>1, <1>4 DEF Pinned
<1>6. QED
  BY <1>1, <1>2, <1>5 DEF a

\* ... and so is that of a call a server is at
LEMMA ServerPinned ==
  ASSUME StateType, RegistryOK, CallsOK, NEW p \in Servers, pc[p] # "idle"
  PROVE  /\ Pinned(call[p].by) /\ FiniteScope(call[p].by.scope)
         /\ \E n \in DOMAIN Principals : call[p].by = AuthorityOf(n)
         /\ call[p].tool \in AllTools /\ call[p].charges = Charges(call[p].tool, 1)
         /\ Authorized(call[p].by, call[p].tool, TRUE)
<1>1. ServerOK(p)
  BY DEF CallsOK
<1>2. PICK n \in DOMAIN Principals : call[p].by = AuthorityOf(n)
  BY <1>1 DEF ServerOK
<1>3. Pinned(AuthorityOf(n)) /\ FiniteScope(AuthorityOf(n).scope)
  BY PrincipalPinned DEF StateType
<1>4. QED
  BY <1>1, <1>2, <1>3 DEF ServerOK

\* No call
LEMMA NoCallType == NoCall \in Calls /\ NoCall.charges = WorkerCharges /\ NoCall.stamp = 0
BY EmptyIsScope, WorkerChargesType DEF NoCall, Calls

\* A call replaced by one of the same form
LEMMA CallReplaced ==
  ASSUME StateType, CallsOK, mode' = mode, now' \in Nat, now <= now', NEW q \in Processes, NEW c \in Calls,
         NEW to \in {"idle", "reserve", "dispatch"},
         pc' = [pc EXCEPT ![q] = to], call' = [call EXCEPT ![q] = c], c.stamp <= now',
         (q \in Servers /\ to # "idle") =>
            /\ \E n \in DOMAIN Principals : c.by = AuthorityOf(n)
            /\ c.tool \in AllTools /\ c.charges = Charges(c.tool, 1) /\ Authorized(c.by, c.tool, TRUE),
         q = Worker => c.charges = WorkerCharges /\ (to # "idle" => Pinned(c.by))
  PROVE  /\ pc' \in [Processes -> {"idle", "reserve", "dispatch"}] /\ call' \in [Processes -> Calls]
         /\ CallsOK'
<1>1. pc' \in [Processes -> {"idle", "reserve", "dispatch"}] /\ call' \in [Processes -> Calls]
  BY DEF StateType
<1>2. pc'[q] = to /\ call'[q] = c /\ \A p \in Processes : p # q => pc'[p] = pc[p] /\ call'[p] = call[p]
  BY DEF StateType
<1>3. Worker \in Processes /\ Servers \subseteq Processes /\ Worker \notin Servers
  BY RegistryAssumption DEF Processes, Worker
<1>4. \A n \in DOMAIN Principals : AuthorityOf(n)' = AuthorityOf(n)
  BY DEF AuthorityOf
<1>5. ASSUME NEW p \in Servers PROVE ServerOK(p)'
  <2>1. CASE p = q
    BY <1>2, <1>4, <2>1 DEF ServerOK
  <2>2. CASE p # q
    BY <1>2, <1>3, <1>4, <2>2 DEF ServerOK, CallsOK
  <2>3. QED
    BY <2>1, <2>2
<1>6. WorkerOK'
  <2>1. CASE q = Worker
    BY <1>2, <2>1 DEF WorkerOK, Pinned
  <2>2. CASE q # Worker
    BY <1>2, <1>3, <2>2 DEF WorkerOK, CallsOK, Pinned
  <2>3. QED
    BY <2>1, <2>2
<1>7. ASSUME NEW p \in Processes PROVE (call[p].stamp <= now)'
  <2>1. CASE p = q
    BY <1>2, <2>1
  <2>2. CASE p # q
    <3>1. call[p].stamp <= now /\ call[p].stamp \in Nat /\ now \in Nat
      BY DEF CallsOK, StateType, Calls
    <3>2. QED
      BY <1>2, <2>2, <3>1
  <2>3. QED
    BY <2>1, <2>2
<1>8. QED
  BY <1>1, <1>5, <1>6, <1>7 DEF CallsOK

\* A call that returns
LEMMA ReturnKeeps ==
  ASSUME StateType, CallsOK, mode' = mode, now' = now, NEW q \in Processes, Return(q)
  PROVE  /\ pc' \in [Processes -> {"idle", "reserve", "dispatch"}] /\ call' \in [Processes -> Calls]
         /\ CallsOK'
<1>1. now' \in Nat /\ now <= now'
  BY DEF StateType
<1>2. pc' = [pc EXCEPT ![q] = "idle"] /\ call' = [call EXCEPT ![q] = NoCall]
  BY DEF Return, Set
<1>3. NoCall \in Calls /\ NoCall.charges = WorkerCharges /\ NoCall.stamp <= now'
  BY <1>1, NoCallType
<1>4. QED
  BY <1>1, <1>2, <1>3, CallReplaced

\* Calls left alone while time may pass
LEMMA CallsSame ==
  ASSUME StateType, CallsOK, mode' = mode, now' \in Nat, now <= now', pc' = pc, call' = call
  PROVE  CallsOK'
<1>1. \A n \in DOMAIN Principals : AuthorityOf(n)' = AuthorityOf(n)
  BY DEF AuthorityOf
<1>2. \A p \in Servers : ServerOK(p)'
  BY <1>1 DEF ServerOK, CallsOK
<1>3. WorkerOK'
  BY DEF WorkerOK, CallsOK, Pinned
<1>4. \A p \in Processes : call[p].stamp <= now /\ call[p].stamp \in Nat /\ now \in Nat
  BY DEF CallsOK, StateType, Calls
<1>5. QED
  BY <1>2, <1>3, <1>4 DEF CallsOK

\* Jobs moved from one status to another, or left alone
LEMMA JobsMoved ==
  ASSUME StateType, JobsOK, mode' = mode, NEW from,
         NEW to \in {"pending", "processing", "processed", "deferred", "failed"},
         jobs' = jobs \/ jobs' = Moved(from, to)
  PROVE  jobs' \subseteq Jobs /\ JobsOK'
<1>1. \A j \in jobs : j \in Jobs /\ FiniteScope(j.snapshot.scope) /\ (j.has => Pinned(j.snapshot))
  BY DEF StateType, JobsOK
<1>2. ASSUME NEW i \in jobs'
      PROVE i \in Jobs /\ FiniteScope(i.snapshot.scope) /\ (i.has => Pinned(i.snapshot))
  <2>1. CASE jobs' = jobs
    BY <1>1, <1>2, <2>1
  <2>2. CASE jobs' = Moved(from, to)
    <3>1. PICK j \in jobs : i = [j EXCEPT !.status = IF @ = from THEN to ELSE @]
      BY <1>2, <2>2 DEF Moved
    <3>2. j \in Jobs /\ i \in Jobs /\ i.snapshot = j.snapshot /\ i.has = j.has
      BY <1>1, <3>1 DEF Jobs
    <3>3. QED
      BY <1>1, <3>2
  <2>3. QED
    BY <2>1, <2>2
<1>3. jobs' \subseteq Jobs
  BY <1>2
<1>4. ASSUME NEW i PROVE Pinned(i.snapshot)' <=> Pinned(i.snapshot)
  BY DEF Pinned
<1>5. JobsOK'
  BY <1>2, <1>4 DEF JobsOK
<1>6. QED
  BY <1>3, <1>5

(***************************************************************************)
(* Rows written and handed out.                                            *)
(***************************************************************************)
\* A row written under an authority of this deployment carries its required values
LEMMA RowWritten ==
  ASSUME StateType, RowsOK, mode' = mode, now' = now, NEW a \in Authorities, Pinned(a),
         NEW sel \in Selectors, Attributable(a, sel), NEW st \in Int, st <= now,
         rows' = rows \cup {Row(a, Attribution(a, sel), st)}
  PROVE  rows' \subseteq Rows /\ IsFiniteSet(rows') /\ RowsOK'
<1> DEFINE new == Row(a, Attribution(a, sel), st)
<1>1. Cardinality(rows) \in Nat
  BY FS_CardinalityType DEF StateType
<1>2. Attribution(a, sel) \in Selectors
  BY AttributionPins
<1>3. new \in Rows /\ new.scope = a.scope /\ new.attr = Attribution(a, sel) /\ new.stamp = st
  BY <1>1, <1>2 DEF Row, Rows, Authorities
<1>4. \A d \in Required(mode) : new.scope[d] = {new.attr[d]}
  <2>1. ASSUME NEW d \in Required(mode) PROVE new.scope[d] = {new.attr[d]}
    <3>1. a.mode = mode
      BY DEF Pinned
    <3>2. PICK v \in Values : a.scope[d] = {v}
      BY DEF Pinned
    <3>3. Attribution(a, sel)[d] = v
      BY <3>1, <3>2, AttributionPins
    <3>4. QED
      BY <1>3, <3>2, <3>3
  <2>2. QED
    BY <2>1
<1> HIDE DEF new
<1>5. rows' = rows \cup {new}
  BY DEF new
<1>6. IsFiniteSet(rows')
  BY <1>5, FS_AddElement DEF StateType
<1>7. rows' \subseteq Rows
  BY <1>3, <1>5 DEF StateType
<1>8. RowsOK'
  BY <1>3, <1>4, <1>5 DEF RowsOK
<1>9. QED
  BY <1>6, <1>7, <1>8

\* Rows left alone while time may pass
LEMMA RowsSame ==
  ASSUME StateType, RowsOK, mode' = mode, now' \in Nat, now <= now', rows' = rows
  PROVE  RowsOK'
<1>1. \A r \in rows : r.stamp \in Int /\ now \in Nat
  BY DEF StateType, Rows
<1>2. QED
  BY <1>1 DEF RowsOK

\* What a caller of this deployment is handed was written within its required values
LEMMA HandedOut ==
  ASSUME StateType, RowsOK, mode' = mode, NEW a \in Authorities, Pinned(a), NEW sel \in Selectors,
         NEW op, Enforced(a, sel, op),
         answer' = [to |-> a, rows |-> {r \in rows : Visible(a, sel, r.attr)}]
  PROVE  Isolation'
<1>1. answer'.to = a /\ answer'.rows = {r \in rows : Visible(a, sel, r.attr)}
  OBVIOUS
<1>2. ASSUME NEW r \in answer'.rows, NEW d \in Required(mode) PROVE r.scope[d] = a.scope[d]
  <2>1. r \in rows /\ Visible(a, sel, r.attr)
    BY <1>1, <1>2
  <2>2. PICK v \in Values : a.scope[d] = {v}
    BY DEF Pinned
  <2>3. a.mode = mode
    BY DEF Pinned
  <2>4. r.attr[d] = v
    BY <2>1, <2>2, <2>3, VisiblePins
  <2>5. v # None
    BY NoneAssumption
  <2>6. QED
    BY <2>1, <2>2, <2>4, <2>5 DEF RowsOK
<1>3. QED
  BY <1>1, <1>2 DEF Isolation

\* Nothing is handed out
LEMMA NothingHandedOut ==
  ASSUME answer' = NoAnswer PROVE Isolation'
BY DEF NoAnswer, Isolation

(***************************************************************************)
(* Every step keeps the form of the state and isolates.                    *)
(***************************************************************************)
PathInv == BaseInv /\ RowsOK /\ Isolation

\* What a server's call returns with: jobs, rows and the answer apart
LEMMA ServerReturns ==
  ASSUME PathInv, mode' = mode, now' = now, usage' = usage, charged' = charged,
         NEW p \in Servers, Return(p), jobs' \subseteq Jobs, JobsOK',
         rows' \subseteq Rows, IsFiniteSet(rows'), RowsOK', Isolation'
  PROVE  PathInv'
<1>1. p \in Processes
  BY DEF Processes
<1>2. /\ pc' \in [Processes -> {"idle", "reserve", "dispatch"}] /\ call' \in [Processes -> Calls]
      /\ CallsOK'
  BY <1>1, ReturnKeeps DEF PathInv, BaseInv
<1>3. StateType'
  BY <1>2 DEF PathInv, BaseInv, StateType
<1>4. RegistryOK'
  BY DEF PathInv, BaseInv, RegistryOK, AuthorityOf
<1>5. QED
  BY <1>2, <1>3, <1>4 DEF PathInv, BaseInv

\* A call at its dispatch
LEMMA AtDispatch ==
  ASSUME PathInv, NEW p \in Servers, NEW tools, DispatchTo(p, tools)
  PROVE  /\ Return(p) /\ pc[p] = "dispatch" /\ call[p].tool \in tools
         /\ call[p] \in Calls /\ call[p].by \in Authorities /\ call[p].sel \in Selectors
         /\ Pinned(call[p].by) /\ Authorized(call[p].by, call[p].tool, TRUE)
         /\ FiniteScope(call[p].by.scope)
         /\ Admission(call[p]) \in Int /\ Admission(call[p]) <= now
<1>1. Return(p) /\ pc[p] = "dispatch" /\ call[p].tool \in tools
  BY DEF DispatchTo
<1>2. p \in Processes
  BY DEF Processes
<1>3. call[p] \in Calls /\ now \in Nat
  BY <1>2 DEF PathInv, BaseInv, StateType
<1>4. Pinned(call[p].by) /\ Authorized(call[p].by, call[p].tool, TRUE) /\ FiniteScope(call[p].by.scope)
  BY <1>1, ServerPinned DEF PathInv, BaseInv
<1>5. call[p].stamp <= now
  BY <1>2 DEF PathInv, BaseInv, CallsOK
<1>6. call[p].by \in Authorities /\ call[p].sel \in Selectors /\ call[p].stamp \in Nat
  BY <1>3 DEF Calls
<1>7. Admission(call[p]) \in Int /\ Admission(call[p]) <= now
  BY <1>3, <1>5, <1>6 DEF Admission
<1>8. QED
  BY <1>1, <1>3, <1>4, <1>6, <1>7

\* Initially
LEMMA InitPath == Init => PathInv
<1> SUFFICES ASSUME Init PROVE PathInv
  OBVIOUS
<1>1. mode \in DeploymentModes
  BY RequestAssumption DEF Init
<1>2. now = 0 /\ now \in 0..MaxTime /\ now \in Nat
  BY RequestAssumption DEF Init
<1>3. pc \in [Processes -> {"idle", "reserve", "dispatch"}] /\ call \in [Processes -> Calls]
  BY NoCallType DEF Init
<1>4. usage \in [Slots -> Nat] /\ charged \in [Slots -> Nat]
  BY DEF Init
<1> DEFINE old == [n |-> 0, scope |-> EmptyScope, attr |-> NoSelector, stamp |-> -1]
<1>5. old \in Rows
  BY EmptyIsScope DEF Rows
<1>6. rows = {old}
  BY DEF Init
<1>7. IsFiniteSet(rows)
  BY <1>6, FS_Singleton
<1>8. RowsOK
  <2>1. \A d \in Required(mode) : old.attr[d] = None
    BY <1>1, RequiredDims DEF NoSelector
  <2>2. old.stamp <= now
    BY <1>2
  <2> HIDE DEF old
  <2>3. QED
    BY <1>6, <2>1, <2>2 DEF RowsOK
<1>9. Legacy \in Jobs /\ ~Legacy.has /\ Legacy.snapshot.scope = EmptyScope
  BY EmptyIsScope DEF Legacy, Jobs, Owner
<1>10. jobs \subseteq Jobs /\ JobsOK
  BY <1>9, EmptyIsScope DEF Init, JobsOK
<1>11. RegistryOK
  BY DEF Init, RegistryOK
<1>12. Worker \in Processes /\ Servers \subseteq Processes
  BY DEF Processes
<1>13. \A p \in Processes : pc[p] = "idle" /\ call[p] = NoCall
  BY DEF Init
<1>14. CallsOK
  <2>1. \A p \in Servers : ServerOK(p)
    BY <1>12, <1>13 DEF ServerOK
  <2>2. WorkerOK
    BY <1>12, <1>13, NoCallType DEF WorkerOK
  <2>3. \A p \in Processes : call[p].stamp <= now
    BY <1>2, <1>13, NoCallType
  <2>4. QED
    BY <2>1, <2>2, <2>3 DEF CallsOK
<1>15. Isolation
  BY DEF Init, Isolation, NoAnswer
<1>16. StateType
  BY <1>1, <1>2, <1>3, <1>4, <1>5, <1>6, <1>7, <1>10 DEF StateType
<1>17. QED
  BY <1>8, <1>10, <1>11, <1>14, <1>15, <1>16 DEF PathInv, BaseInv

\* CallBegin: the call of a principal, who may call the tool
LEMMA CallBeginPath ==
  ASSUME PathInv, NEW p \in Servers, NEW c \in DOMAIN Credentials, NEW tool \in Tools, NEW sel \in Contexts,
         CallBegin(p, c, tool, sel, 1, TRUE)
  PROVE  PathInv'
<1>1. PICK n \in DOMAIN Principals : n = Authenticate(c)
  BY RegistryAssumption DEF Authenticate
<1> DEFINE new == [by |-> AuthorityOf(n), tool |-> tool, sel |-> sel, charges |-> Charges(tool, 1),
                   stamp |-> now, outdated |-> FALSE]
<1>2. /\ Authorized(AuthorityOf(n), tool, TRUE) /\ call' = [call EXCEPT ![p] = new]
      /\ pc' = [pc EXCEPT ![p] = "reserve"] /\ answer' = NoAnswer
      /\ UNCHANGED <<mode, approval, now, usage, rows, jobs, charged>>
  BY <1>1 DEF CallBegin, Set
<1>3. StateType /\ RegistryOK /\ CallsOK /\ JobsOK /\ RowsOK
  BY DEF PathInv, BaseInv
<1>4. AuthorityOf(n) \in Authorities /\ Pinned(AuthorityOf(n))
  BY <1>3, PrincipalPinned DEF StateType
<1>5. tool \in AllTools /\ sel \in Selectors /\ now \in Nat /\ p \in Processes
  BY <1>3, RequestAssumption DEF StateType, Processes
<1>6. Charges(tool, 1) \in [Resources -> Nat]
  BY <1>5, ChargesType
<1>7. new \in Calls
  BY <1>4, <1>5, <1>6 DEF Calls
<1>8. new.by = AuthorityOf(n) /\ new.tool = tool /\ new.charges = Charges(tool, 1) /\ new.stamp = now
  OBVIOUS
<1>9. p # Worker
  BY RegistryAssumption DEF Worker
<1> HIDE DEF new
<1>10. /\ pc' \in [Processes -> {"idle", "reserve", "dispatch"}] /\ call' \in [Processes -> Calls]
       /\ CallsOK'
  <2>1. mode' = mode /\ now' \in Nat /\ now <= now' /\ new.stamp <= now'
    BY <1>2, <1>5, <1>8
  <2>2. /\ \E m \in DOMAIN Principals : new.by = AuthorityOf(m)
        /\ new.tool \in AllTools /\ new.charges = Charges(new.tool, 1) /\ Authorized(new.by, new.tool, TRUE)
    BY <1>2, <1>5, <1>8
  <2>3. QED
    BY <1>2, <1>3, <1>5, <1>7, <1>9, <2>1, <2>2, CallReplaced
<1>11. StateType'
  BY <1>2, <1>3, <1>10 DEF StateType
<1>12. RegistryOK'
  BY <1>2, <1>3 DEF RegistryOK, AuthorityOf
<1>13. JobsOK' /\ RowsOK'
  BY <1>2, <1>3 DEF JobsOK, RowsOK, Pinned
<1>14. QED
  BY <1>2, <1>10, <1>11, <1>12, <1>13, NothingHandedOut DEF PathInv, BaseInv

\* ReadCall: what is handed out is within the caller's authority
LEMMA ReadCallPath == ASSUME PathInv, NEW p \in Servers, ReadCall(p) PROVE PathInv'
<1> DEFINE a == call[p].by sel == call[p].sel
<1>1. /\ DispatchTo(p, ChargedAsRecall \cup ExactTools) /\ Enforced(a, sel, "read")
      /\ answer' = [to |-> a, rows |-> {r \in rows : Visible(a, sel, r.attr)}]
      /\ UNCHANGED <<mode, now, usage, rows, jobs, approval, calls, charged>>
  BY DEF ReadCall
<1>2. Return(p) /\ a \in Authorities /\ sel \in Selectors /\ Pinned(a)
  BY <1>1, AtDispatch
<1> HIDE DEF a, sel
<1>3. Isolation'
  BY <1>1, <1>2, HandedOut DEF PathInv, BaseInv
<1>4. JobsOK' /\ RowsOK'
  BY <1>1 DEF PathInv, BaseInv, JobsOK, RowsOK, Pinned
<1>5. rows' \subseteq Rows /\ IsFiniteSet(rows') /\ jobs' \subseteq Jobs
  BY <1>1 DEF PathInv, BaseInv, StateType
<1>6. QED
  BY <1>1, <1>2, <1>3, <1>4, <1>5, ServerReturns

\* StoreCall: a row is written with the caller's attribution
LEMMA StoreCallPath == ASSUME PathInv, NEW p \in Servers, StoreCall(p) PROVE PathInv'
<1> DEFINE a == call[p].by sel == call[p].sel st == Admission(call[p])
<1>1. /\ DispatchTo(p, StoreTools) /\ Attributable(a, sel)
      /\ rows' = rows \cup {Row(a, Attribution(a, sel), st)}
      /\ answer' = NoAnswer /\ UNCHANGED <<mode, now, usage, jobs, approval, calls, charged>>
  BY DEF StoreCall
<1>2. Return(p) /\ a \in Authorities /\ sel \in Selectors /\ Pinned(a) /\ st \in Int /\ st <= now
  BY <1>1, AtDispatch
<1> HIDE DEF a, sel, st
<1>3. rows' \subseteq Rows /\ IsFiniteSet(rows') /\ RowsOK'
  BY <1>1, <1>2, RowWritten DEF PathInv, BaseInv
<1>4. jobs' \subseteq Jobs /\ JobsOK'
  BY <1>1 DEF PathInv, BaseInv, JobsOK, Pinned, StateType
<1>5. QED
  BY <1>1, <1>2, <1>3, <1>4, NothingHandedOut, ServerReturns

\* EnqueueCall: the job has the caller's scope
LEMMA EnqueueCallPath == ASSUME PathInv, NEW p \in Servers, EnqueueCall(p) PROVE PathInv'
<1> DEFINE a == call[p].by new == [has |-> TRUE, snapshot |-> Snapshot(a), status |-> "pending"]
<1>1. /\ DispatchTo(p, {"dream_enqueue"})
      /\ jobs' = jobs \/ jobs' = jobs \cup {new}
      /\ answer' = NoAnswer /\ UNCHANGED <<mode, now, usage, rows, approval, calls, charged>>
  BY DEF EnqueueCall
<1>2. Return(p) /\ a \in Authorities /\ Pinned(a) /\ FiniteScope(a.scope)
  BY <1>1, AtDispatch
<1>3. new \in Jobs /\ new.snapshot = Snapshot(a)
  BY <1>2 DEF Jobs, Snapshot, Authorities
<1>4. FiniteScope(Snapshot(a).scope) /\ Pinned(Snapshot(a))
  BY <1>2 DEF Snapshot, Pinned
<1> HIDE DEF a, new
<1>5. JobsOK /\ jobs \subseteq Jobs /\ RowsOK
  BY DEF PathInv, BaseInv, StateType
<1>6. \A i : Pinned(i.snapshot)' <=> Pinned(i.snapshot)
  BY <1>1 DEF Pinned
<1>7. FiniteScope(new.snapshot.scope) /\ Pinned(new.snapshot)
  BY <1>3, <1>4
<1>8. JobsOK'
  BY <1>1, <1>5, <1>6, <1>7 DEF JobsOK
<1>9. rows' \subseteq Rows /\ IsFiniteSet(rows') /\ jobs' \subseteq Jobs
  BY <1>1, <1>3, <1>5 DEF PathInv, BaseInv, StateType
<1>10. RowsOK'
  BY <1>1, <1>5 DEF RowsOK
<1>11. QED
  BY <1>1, <1>2, <1>8, <1>9, <1>10, NothingHandedOut, ServerReturns

\* Approve: the row of the approval, or a resolution alone
LEMMA ApprovePath == ASSUME PathInv, NEW p \in Servers, Approve(p) PROVE PathInv'
<1> DEFINE a == call[p].by st == Admission(call[p])
<1>1. /\ DispatchTo(p, {"dream_review_resolve"})
      /\ \/ rows' = rows
         \/ Attributable(a, NoSelector) /\ rows' = rows \cup {Row(a, Attribution(a, NoSelector), st)}
      /\ answer' = NoAnswer /\ UNCHANGED <<mode, now, usage, jobs, calls, charged>>
  BY DEF Approve
<1>2. Return(p) /\ a \in Authorities /\ Pinned(a) /\ st \in Int /\ st <= now
  BY <1>1, AtDispatch
<1> HIDE DEF a, st
<1>3. rows' \subseteq Rows /\ IsFiniteSet(rows') /\ RowsOK'
  <2>1. CASE rows' = rows
    BY <1>1, <2>1 DEF PathInv, BaseInv, StateType, RowsOK
  <2>2. CASE Attributable(a, NoSelector) /\ rows' = rows \cup {Row(a, Attribution(a, NoSelector), st)}
    BY <1>1, <1>2, <2>2, EmptyIsScope, RowWritten DEF PathInv, BaseInv
  <2>3. QED
    BY <1>1, <2>1, <2>2
<1>4. jobs' \subseteq Jobs /\ JobsOK'
  BY <1>1 DEF PathInv, BaseInv, JobsOK, Pinned, StateType
<1>5. QED
  BY <1>1, <1>2, <1>3, <1>4, NothingHandedOut, ServerReturns

\* DispatchFails: the call is over
LEMMA DispatchFailsPath == ASSUME PathInv, NEW p \in Servers, DispatchFails(p) PROVE PathInv'
<1>1. Return(p) /\ answer' = NoAnswer /\ UNCHANGED <<mode, now, usage, rows, jobs, calls, charged>>
  BY DEF DispatchFails
<1>2. rows' \subseteq Rows /\ IsFiniteSet(rows') /\ RowsOK' /\ jobs' \subseteq Jobs /\ JobsOK'
  BY <1>1 DEF PathInv, BaseInv, StateType, RowsOK, JobsOK, Pinned
<1>3. QED
  BY <1>1, <1>2, NothingHandedOut, ServerReturns

\* The due charges of a call are numbers
LEMMA DueType ==
  ASSUME NEW p \in Processes, call[p] \in Calls
  PROVE  /\ \A s \in Slots : ChargesOf(p)[s] \in Nat
         /\ \A s \in Slots : ChargesOf(p)[s] =
              IF s[1] \in Keys(p) /\ s[3] = WindowOf(s[2], call[p].stamp) THEN call[p].charges[s[2]] ELSE 0
<1>1. \A s \in Slots : s[2] \in Resources
  BY DEF Slots
<1>2. call[p].charges \in [Resources -> Nat]
  BY DEF Calls
<1>3. \A s \in Slots : ChargesOf(p)[s] =
              IF s[1] \in Keys(p) /\ s[3] = WindowOf(s[2], call[p].stamp) THEN call[p].charges[s[2]] ELSE 0
  BY DEF ChargesOf
<1>4. QED
  BY <1>1, <1>2, <1>3

\* Reserve and ReserveTimeout: a call goes on or returns
LEMMA ReservePath ==
  ASSUME PathInv, NEW p \in Processes, Reserve(p) \/ ReserveTimeout(p) PROVE PathInv'
<1>1. StateType /\ RegistryOK /\ CallsOK /\ JobsOK /\ RowsOK /\ call[p] \in Calls /\ now \in Nat
  BY DEF PathInv, BaseInv, StateType
<1>2. /\ pc[p] = "reserve" /\ answer' = NoAnswer /\ UNCHANGED <<mode, approval, now, rows, calls>>
  BY DEF Reserve, ReserveTimeout
<1>3. usage' \in [Slots -> Nat] /\ charged' \in [Slots -> Nat]
  <2> DEFINE due == ChargesOf(p)
  <2>1. \A s \in Slots : due[s] \in Nat /\ usage[s] \in Nat /\ charged[s] \in Nat
    BY <1>1, DueType DEF StateType
  <2>2. \/ usage' = usage /\ charged' = charged
        \/ /\ usage' = [s \in Slots |-> Purged(s, call[p].stamp) + due[s]]
           /\ charged' = [s \in Slots |-> charged[s] + (IF Live(s, now) THEN due[s] ELSE 0)]
        BY DEF Reserve, ReserveTimeout, Refused
  <2> HIDE DEF due
  <2>3. \A s \in Slots : Purged(s, call[p].stamp) \in Nat
    BY <2>1 DEF Purged
  <2>4. QED
    BY <1>1, <2>1, <2>2, <2>3 DEF StateType
<1>4. jobs' \subseteq Jobs /\ JobsOK'
  <2>1. \/ jobs' = jobs \/ jobs' = Moved("processing", "deferred")
        \/ jobs' = Moved("processing", "failed")
    BY DEF Reserve, ReserveTimeout
  <2>2. QED
    BY <1>1, <1>2, <2>1, JobsMoved
<1>5. /\ pc' \in [Processes -> {"idle", "reserve", "dispatch"}] /\ call' \in [Processes -> Calls]
      /\ CallsOK'
  <2>1. CASE Return(p)
    BY <1>1, <1>2, <2>1, ReturnKeeps
  <2>2. CASE /\ pc' = [pc EXCEPT ![p] = "dispatch"]
             /\ \E b \in BOOLEAN : call' = [call EXCEPT ![p].outdated = b]
    <3>1. PICK b \in BOOLEAN : call' = [call EXCEPT ![p].outdated = b]
      BY <2>2
    <3> DEFINE new == [call[p] EXCEPT !.outdated = b]
    <3>2. new \in Calls /\ new.by = call[p].by /\ new.tool = call[p].tool
          /\ new.charges = call[p].charges /\ new.stamp = call[p].stamp
      BY <1>1 DEF Calls
    <3>3. call' = [call EXCEPT ![p] = new]
      BY <3>1
    <3> HIDE DEF new
    <3>4. now' \in Nat /\ now <= now' /\ new.stamp <= now'
      BY <1>1, <1>2, <3>2 DEF CallsOK
    <3>5. p \in Servers =>
            /\ \E n \in DOMAIN Principals : new.by = AuthorityOf(n)
            /\ new.tool \in AllTools /\ new.charges = Charges(new.tool, 1)
            /\ Authorized(new.by, new.tool, TRUE)
      BY <1>1, <1>2, <3>2 DEF CallsOK, ServerOK
    <3>6. p = Worker => new.charges = WorkerCharges /\ Pinned(new.by)
      BY <1>1, <1>2, <3>2 DEF CallsOK, WorkerOK
    <3>7. QED
      BY <1>1, <1>2, <2>2, <3>2, <3>3, <3>4, <3>5, <3>6, CallReplaced
  <2>3. Return(p) \/ /\ pc' = [pc EXCEPT ![p] = "dispatch"]
                     /\ \E b \in BOOLEAN : call' = [call EXCEPT ![p].outdated = b]
    <3>1. (WindowOf("writes", call[p].stamp) # WindowOf("writes", now)) \in BOOLEAN
      OBVIOUS
    <3>2. QED
      BY <3>1 DEF Reserve, ReserveTimeout, Set
  <2>4. QED
    BY <2>1, <2>2, <2>3
<1>6. StateType'
  BY <1>1, <1>2, <1>3, <1>4, <1>5 DEF StateType
<1>7. RegistryOK' /\ RowsOK'
  BY <1>1, <1>2 DEF RegistryOK, AuthorityOf, RowsOK
<1>8. QED
  BY <1>2, <1>4, <1>5, <1>6, <1>7, NothingHandedOut DEF PathInv, BaseInv

\* WorkerClaim: the worker takes a job of its mode, and its authority
LEMMA WorkerClaimPath == ASSUME PathInv, NEW j \in jobs, WorkerClaim(j) PROVE PathInv'
<1> DEFINE a == IF j.has THEN j.snapshot ELSE Owner
           new == [NoCall EXCEPT !.by = a, !.stamp = now]
           taken == [j EXCEPT !.status = "processing"]
<1>1. StateType /\ RegistryOK /\ CallsOK /\ JobsOK /\ RowsOK /\ now \in Nat /\ Worker \in Processes
  BY DEF PathInv, BaseInv, StateType, Processes
<1>2. /\ Claimable(j) /\ jobs' = (jobs \ {j}) \cup {taken}
      /\ call' = [call EXCEPT ![Worker] = new] /\ pc' = [pc EXCEPT ![Worker] = "reserve"]
      /\ answer' = NoAnswer /\ UNCHANGED <<mode, approval, now, usage, rows, calls, charged>>
  BY DEF WorkerClaim, Set
<1>3. j \in Jobs /\ FiniteScope(j.snapshot.scope) /\ (j.has => Pinned(j.snapshot))
  BY <1>1 DEF JobsOK, StateType
<1>4. a \in Authorities
  BY <1>3, EmptyIsScope DEF Jobs
<1>5. Pinned(a)
  <2>1. CASE j.has
    BY <1>3, <2>1
  <2>2. CASE ~j.has
    <3>1. mode = "single_owner"
      BY <1>2, <2>2 DEF Claimable
    <3>2. Required(mode) = {}
      BY <1>1, <3>1, RequiredDims DEF StateType
    <3>3. QED
      BY <2>2, <3>1, <3>2 DEF Pinned, Owner
  <2>3. QED
    BY <2>1, <2>2
<1>6. new \in Calls /\ new.charges = WorkerCharges /\ new.by = a /\ new.stamp = now
  <2> HIDE DEF a
  <2>1. QED
    BY <1>1, <1>4, EmptyIsScope, WorkerChargesType DEF NoCall, Calls
<1>7. taken \in Jobs /\ taken.snapshot = j.snapshot /\ taken.has = j.has
  BY <1>3 DEF Jobs
<1> HIDE DEF a, new, taken
<1>8. Worker \notin Servers
  BY RegistryAssumption DEF Worker
<1>9. /\ pc' \in [Processes -> {"idle", "reserve", "dispatch"}] /\ call' \in [Processes -> Calls]
      /\ CallsOK'
  <2>1. new.stamp <= now' /\ now' \in Nat /\ now <= now'
    BY <1>1, <1>2, <1>6
  <2>2. new.charges = WorkerCharges /\ Pinned(new.by)
    BY <1>5, <1>6
  <2>3. QED
    BY <1>1, <1>2, <1>6, <1>8, <2>1, <2>2, CallReplaced
<1>10. jobs' \subseteq Jobs
  BY <1>1, <1>2, <1>7 DEF StateType
<1>11. JobsOK'
  <2>1. \A i : Pinned(i.snapshot)' <=> Pinned(i.snapshot)
    BY <1>2 DEF Pinned
  <2>2. FiniteScope(taken.snapshot.scope) /\ (taken.has => Pinned(taken.snapshot))
    BY <1>3, <1>7
  <2>3. QED
    BY <1>1, <1>2, <2>1, <2>2 DEF JobsOK
<1>12. StateType'
  BY <1>1, <1>2, <1>9, <1>10 DEF StateType
<1>13. RegistryOK' /\ RowsOK'
  BY <1>1, <1>2 DEF RegistryOK, AuthorityOf, RowsOK
<1>14. QED
  BY <1>2, <1>9, <1>11, <1>12, <1>13, NothingHandedOut DEF PathInv, BaseInv

\* WorkerRun: the job reads and writes under the authority it was enqueued with
LEMMA WorkerRunPath == ASSUME PathInv, WorkerRun PROVE PathInv'
<1> DEFINE a == call[Worker].by
<1>1. StateType /\ RegistryOK /\ CallsOK /\ JobsOK /\ RowsOK /\ now \in Nat /\ Worker \in Processes
  BY DEF PathInv, BaseInv, StateType, Processes
<1>2. /\ pc[Worker] = "dispatch" /\ Return(Worker)
      /\ Enforced(a, NoSelector, "background_reasoning") /\ Attributable(a, NoSelector)
      /\ answer' = [to |-> a, rows |-> {r \in rows : Visible(a, NoSelector, r.attr)}]
      /\ rows' = rows \cup {Row(a, Attribution(a, NoSelector), -1)}
      /\ jobs' = Moved("processing", "processed")
      /\ UNCHANGED <<mode, approval, now, usage, calls, charged>>
  BY DEF WorkerRun
<1>3. a \in Authorities /\ Pinned(a)
  BY <1>1, <1>2 DEF StateType, Calls, CallsOK, WorkerOK
<1> HIDE DEF a
<1>4. -1 \in Int /\ -1 <= now
  BY <1>1
<1>5. rows' \subseteq Rows /\ IsFiniteSet(rows') /\ RowsOK'
  BY <1>1, <1>2, <1>3, <1>4, EmptyIsScope, RowWritten
<1>6. Isolation'
  BY <1>1, <1>2, <1>3, EmptyIsScope, HandedOut
<1>7. jobs' \subseteq Jobs /\ JobsOK'
  BY <1>1, <1>2, JobsMoved
<1>8. /\ pc' \in [Processes -> {"idle", "reserve", "dispatch"}] /\ call' \in [Processes -> Calls]
      /\ CallsOK'
  BY <1>1, <1>2, ReturnKeeps
<1>9. StateType'
  BY <1>1, <1>2, <1>5, <1>7, <1>8 DEF StateType
<1>10. RegistryOK'
  BY <1>1, <1>2 DEF RegistryOK, AuthorityOf
<1>11. QED
  BY <1>5, <1>6, <1>7, <1>8, <1>9, <1>10 DEF PathInv, BaseInv

\* Tick: deferred jobs come back
LEMMA TickPath == ASSUME PathInv, Tick PROVE PathInv'
<1>1. StateType /\ RegistryOK /\ CallsOK /\ JobsOK /\ RowsOK /\ now \in Nat
  BY DEF PathInv, BaseInv, StateType
<1>2. /\ now < MaxTime /\ now' = now + 1 /\ (jobs' = jobs \/ jobs' = Moved("deferred", "pending"))
      /\ answer' = NoAnswer /\ UNCHANGED <<mode, approval, usage, rows, pc, call, calls, charged>>
  BY DEF Tick
<1>3. now' \in Nat /\ now <= now' /\ now' \in 0..MaxTime
  BY <1>1, <1>2, RequestAssumption
<1>4. jobs' \subseteq Jobs /\ JobsOK'
  BY <1>1, <1>2, JobsMoved
<1>5. CallsOK'
  BY <1>1, <1>2, <1>3, CallsSame
<1>6. RowsOK'
  BY <1>1, <1>2, <1>3, RowsSame
<1>7. StateType'
  BY <1>1, <1>2, <1>3, <1>4 DEF StateType
<1>8. RegistryOK'
  BY <1>1, <1>2 DEF RegistryOK, AuthorityOf
<1>9. QED
  BY <1>2, <1>4, <1>5, <1>6, <1>7, <1>8, NothingHandedOut DEF PathInv, BaseInv

\* Every step
LEMMA PathStep == PathInv /\ [Next]_vars => PathInv'
<1> SUFFICES ASSUME PathInv, [Next]_vars PROVE PathInv'
  OBVIOUS
<1>1. CASE \E p \in Servers :
             \/ \E c \in DOMAIN Credentials, tool \in Tools, sel \in Contexts :
                  CallBegin(p, c, tool, sel, 1, TRUE)
             \/ ReadCall(p) \/ StoreCall(p) \/ EnqueueCall(p) \/ Approve(p) \/ DispatchFails(p)
  BY <1>1, CallBeginPath, ReadCallPath, StoreCallPath, EnqueueCallPath, ApprovePath, DispatchFailsPath
<1>2. CASE \E p \in Processes : Reserve(p) \/ ReserveTimeout(p)
  BY <1>2, ReservePath
<1>3. CASE \E j \in jobs : WorkerClaim(j)
  BY <1>3, WorkerClaimPath
<1>4. CASE WorkerRun \/ Tick
  BY <1>4, WorkerRunPath, TickPath
<1>5. CASE UNCHANGED vars
  BY <1>5 DEF vars, PathInv, BaseInv, StateType, RegistryOK, AuthorityOf, CallsOK, ServerOK, WorkerOK,
              JobsOK, RowsOK, Isolation, Pinned
<1>6. QED
  BY <1>1, <1>2, <1>3, <1>4, <1>5 DEF Next

\* enforcement.py, durable.py: whatever is handed to a caller or a job was written within
\* the same values of the dimensions its deployment requires, for every registry,
\* selector, number of servers and interleaving of calls, jobs and ticks
THEOREM CallersAreIsolated == Spec => []Isolation
<1>1. PathInv => Isolation
  BY DEF PathInv
<1>2. QED
  BY InitPath, PathStep, <1>1, PTL DEF Spec

\* PathInv gives the agreement of the two filters
LEMMA FiltersAgree == PathInv => SnapshotChecksAgree
<1> SUFFICES ASSUME PathInv, NEW j \in jobs, NEW a \in {AuthorityOf(n) : n \in DOMAIN Principals} \cup {Owner}
             PROVE SnapshotVisible(a, j.has, j.snapshot) <=> SqlVisible(a, j.has, j.snapshot)
  BY DEF SnapshotChecksAgree
<1>1. a \in Authorities
  BY EmptyIsScope, PrincipalPinned DEF PathInv, BaseInv, StateType
<1>2. j.has \in BOOLEAN /\ j.snapshot \in Authorities /\ FiniteScope(j.snapshot.scope)
  BY DEF PathInv, BaseInv, StateType, Jobs, JobsOK
<1>3. QED
  BY <1>1, <1>2, SnapshotFiltersAgree

\* An approver who cannot attribute the row names several values for a dimension
LEMMA ApproverAmbiguous ==
  ASSUME PathInv, NEW p \in Servers, DispatchTo(p, {"dream_review_resolve"}),
         ~Attributable(call[p].by, NoSelector)
  PROVE  \E n \in DOMAIN Principals : Ambiguous(n)
<1>0. call[p].tool = "dream_review_resolve"
  BY DEF DispatchTo
<1>1. /\ pc[p] = "dispatch" /\ call[p].by \in Authorities
      /\ Pinned(call[p].by) /\ Authorized(call[p].by, "dream_review_resolve", TRUE)
      /\ FiniteScope(call[p].by.scope)
  <2>1. DispatchTo(p, {"dream_review_resolve"})
    OBVIOUS
  <2>2. QED
    BY <1>0, <2>1, AtDispatch
<1>2. PICK n \in DOMAIN Principals : call[p].by = AuthorityOf(n)
  BY <1>1, ServerPinned DEF PathInv, BaseInv
<1>3. "write" \in call[p].by.ops /\ OperationOf("dream_review_resolve") \in call[p].by.ops
  BY <1>1 DEF Authorized, Decide
<1>4. OperationOf("dream_review_resolve") = "admin_review"
  BY DEF OperationOf, ReadTools, WriteTools, ReviewTools
<1>5. \A d \in Required(call[p].by.mode) : \E v \in Values : call[p].by.scope[d] = {v}
  BY <1>1 DEF Pinned
<1>6. PICK d \in Dimensions : ~(Cardinality(call[p].by.scope[d]) <= 1)
  BY <1>1, <1>3, <1>5, ConcreteWrites
<1>7. Cardinality(call[p].by.scope[d]) \in Nat
  BY <1>1, FS_CardinalityType DEF FiniteScope
<1>8. call[p].by.scope = Principals[n].scope /\ call[p].by.ops = Principals[n].ops
  BY <1>2 DEF AuthorityOf
<1>9. Ambiguous(n)
  BY <1>3, <1>4, <1>6, <1>7, <1>8 DEF Ambiguous
<1>10. QED
  BY <1>9

\* Approvals
LEMMA ApprovalStep == PathInv /\ ApprovalWritten /\ [Next]_vars => ApprovalWritten'
<1> SUFFICES ASSUME PathInv, ApprovalWritten, [Next]_vars PROVE ApprovalWritten'
  OBVIOUS
<1>1. ASSUME NEW p \in Servers, Approve(p) PROVE ApprovalWritten'
  <2>1. CASE ~Attributable(call[p].by, NoSelector)
    BY <1>1, <2>1, ApproverAmbiguous DEF Approve, ApprovalWritten
  <2>2. CASE Attributable(call[p].by, NoSelector)
    BY <1>1, <2>2 DEF Approve, ApprovalWritten
  <2>3. QED
    BY <2>1, <2>2
<1>2. ASSUME NEW p \in Servers, DispatchFails(p) PROVE ApprovalWritten'
  BY <1>2 DEF DispatchFails, ApprovalWritten
<1>3. CASE approval' = approval
  BY <1>3 DEF ApprovalWritten
<1>4. approval' = approval \/ \E p \in Servers : Approve(p) \/ DispatchFails(p)
  BY DEF Next, vars, CallBegin, ReadCall, StoreCall, EnqueueCall, Reserve, ReserveTimeout,
         WorkerClaim, WorkerRun, Tick
<1>5. QED
  BY <1>1, <1>2, <1>3, <1>4

\* durable.py, call_tool: in every reachable state the filter over job snapshots in Python
\* and the one in SQL select the same jobs, for every principal and for the owner; and an
\* approval committed but not written was made by a principal of an ambiguous scope
THEOREM AuthorityIsConsistent == Spec => []AuthorityConsistent
<1>1. Init => ApprovalWritten
  BY DEF Init, ApprovalWritten
<1>2. PathInv /\ ApprovalWritten => AuthorityConsistent
  BY FiltersAgree DEF AuthorityConsistent
<1>3. QED
  BY InitPath, PathStep, ApprovalStep, <1>1, <1>2, PTL DEF Spec

(***************************************************************************)
(* The ledger.                                                             *)
(***************************************************************************)
\* The slots of a window of writes
LEMMA WriteSlots ==
  \A k \in BudgetKeys, w \in Windows : <<k, "writes", w>> \in Slots
<1>1. "writes" \in Resources /\ Window["writes"] > 0
  <2>1. "writes" \in Resources
    BY DEF Resources
  <2>2. Window["writes"] \in Nat /\ Window["writes"] # 0
    BY <2>1, RequestAssumption
  <2>3. QED
    BY <2>1, <2>2
<1>2. QED
  BY <1>1 DEF Slots

\* The table and the history left alone while time may pass
LEMMA BalancesSame ==
  ASSUME WithinLimits, LedgerExact, usage' = usage, charged' = charged,
         now \in Nat, now' \in Nat, now <= now'
  PROVE  WithinLimits' /\ LedgerExact'
<1>1. \A s \in Slots : Live(s, now') => Live(s, now)
  BY OpenBefore
<1>2. LedgerExact'
  BY <1>1 DEF LedgerExact
<1>3. QED
  BY <1>2 DEF WithinLimits

\* A budget with the same rows and no more calls to write theirs
LEMMA BudgetSame ==
  ASSUME NEW k, NEW w, BudgetOK(k, w), StateType, charged' = charged, <<k, "writes", w>> \in Slots,
         WrittenIn(k, w)' = WrittenIn(k, w), StillToWrite(k, w)' \subseteq StillToWrite(k, w)
  PROVE  BudgetOK(k, w)'
<1>1. IsFiniteSet(WrittenIn(k, w))
  BY FS_Subset DEF StateType, WrittenIn
<1>2. IsFiniteSet(StillToWrite(k, w))
  BY DEF BudgetOK
<1>3. /\ IsFiniteSet(StillToWrite(k, w)')
      /\ Cardinality(StillToWrite(k, w)') <= Cardinality(StillToWrite(k, w))
  BY <1>2, FS_Subset
<1>4. /\ Cardinality(StillToWrite(k, w)') \in Nat /\ Cardinality(StillToWrite(k, w)) \in Nat
      /\ Cardinality(WrittenIn(k, w)) \in Nat
  BY <1>1, <1>2, <1>3, FS_CardinalityType
<1>5. charged[<<k, "writes", w>>] \in Nat
  BY DEF StateType
<1>6. QED
  BY <1>3, <1>4, <1>5 DEF BudgetOK

\* A process at another point than its dispatch has nothing to write
LEMMA StillOther ==
  ASSUME StateType, NEW q \in Processes, NEW c, NEW to, to # "dispatch",
         pc' = [pc EXCEPT ![q] = to], call' = [call EXCEPT ![q] = c], NEW k, NEW w
  PROVE  StillToWrite(k, w)' = StillToWrite(k, w) \ {q}
<1>1. \A p \in Processes : p # q => pc'[p] = pc[p] /\ call'[p] = call[p]
  BY DEF StateType
<1>2. pc'[q] = to
  BY DEF StateType
<1>3. Servers \subseteq Processes
  BY DEF Processes
<1>4. QED
  BY <1>1, <1>2, <1>3 DEF StillToWrite

\* Steps that charge nothing and write no row of an admitted call
LEMMA NothingWritten ==
  ASSUME PathInv, LedgerInv, now' \in Nat, now <= now', usage' = usage, charged' = charged,
         rows' = rows \/ \E r : r.stamp = -1 /\ rows' = rows \cup {r},
         NEW q \in Processes, NEW c, NEW to, to # "dispatch",
         pc' = [pc EXCEPT ![q] = to], call' = [call EXCEPT ![q] = c]
  PROVE  LedgerInv'
<1>1. StateType /\ now \in Nat
  BY DEF PathInv, BaseInv, StateType
<1>2. WithinLimits' /\ LedgerExact'
  BY <1>1, BalancesSame DEF LedgerInv
<1>3. ASSUME NEW k \in BudgetKeys, NEW w \in Windows PROVE BudgetOK(k, w)'
  <2>1. BudgetOK(k, w)
    BY DEF LedgerInv, BudgetsOK
  <2>2. WrittenIn(k, w)' = WrittenIn(k, w)
    <3>1. CASE rows' = rows
      BY <3>1 DEF WrittenIn
    <3>2. ASSUME NEW r, r.stamp = -1, rows' = rows \cup {r} PROVE WrittenIn(k, w)' = WrittenIn(k, w)
      <4>1. ~(r.stamp >= 0)
        BY <3>2
      <4>2. QED
        BY <3>2, <4>1 DEF WrittenIn
    <3>3. QED
      BY <3>1, <3>2
  <2>3. StillToWrite(k, w)' \subseteq StillToWrite(k, w)
    <3>1. StillToWrite(k, w)' = StillToWrite(k, w) \ {q}
      BY <1>1, StillOther
    <3>2. QED
      BY <3>1
  <2>4. QED
    BY <1>1, <2>1, <2>2, <2>3, WriteSlots, BudgetSame
<1>4. QED
  BY <1>2, <1>3 DEF LedgerInv, BudgetsOK

\* A server that returns with the row of its call written: one call less to write, one
\* row more, in the same budgets
LEMMA RowOfCall ==
  ASSUME PathInv, LedgerInv, now' = now, usage' = usage, charged' = charged,
         NEW p \in Servers, pc[p] = "dispatch", call[p].charges["writes"] > 0, Return(p),
         NEW r, r.scope = call[p].by.scope, r.stamp = Admission(call[p]), rows' = rows \cup {r}
  PROVE  LedgerInv'
<1>1. StateType /\ now \in Nat /\ p \in Processes
  BY DEF PathInv, BaseInv, StateType, Processes
<1>2. WithinLimits' /\ LedgerExact'
  BY <1>1, BalancesSame DEF LedgerInv
<1>3. ASSUME NEW k \in BudgetKeys, NEW w \in Windows PROVE BudgetOK(k, w)'
  <2> DEFINE W == WrittenIn(k, w)
             S == StillToWrite(k, w)
  <2>1. BudgetOK(k, w)
    BY DEF LedgerInv, BudgetsOK
  <2>2. S' = S \ {p}
    BY <1>1, StillOther DEF Return, Set
  <2>3. CASE p \in S
    <3>1. W' \subseteq W \cup {r}
      BY DEF WrittenIn
    <3>2. IsFiniteSet(W) /\ IsFiniteSet(S)
      BY <1>1, <2>1, FS_Subset DEF StateType, WrittenIn, BudgetOK
    <3>3. IsFiniteSet(S') /\ Cardinality(S') = Cardinality(S) - 1
      <4> HIDE DEF S
      <4>1. QED
        BY <2>2, <2>3, <3>2, FS_RemoveElement
    <3>4. IsFiniteSet(W \cup {r}) /\ Cardinality(W \cup {r}) <= Cardinality(W) + 1
      <4>1. /\ IsFiniteSet(W \cup {r})
            /\ Cardinality(W \cup {r}) = IF r \in W THEN Cardinality(W) ELSE Cardinality(W) + 1
        BY <3>2, FS_AddElement
      <4>2. Cardinality(W) \in Nat
        BY <3>2, FS_CardinalityType
      <4>3. QED
        BY <4>1, <4>2
    <3>5. Cardinality(W') <= Cardinality(W \cup {r}) /\ IsFiniteSet(W')
      BY <3>1, <3>4, FS_Subset
    <3>6. /\ Cardinality(W) \in Nat /\ Cardinality(W') \in Nat /\ Cardinality(W \cup {r}) \in Nat
          /\ Cardinality(S) \in Nat /\ Cardinality(S') \in Nat
      BY <3>2, <3>3, <3>4, <3>5, FS_CardinalityType
    <3>7. charged[<<k, "writes", w>>] \in Nat
      BY <1>1, WriteSlots DEF StateType
    <3>8. Cardinality(W) + Cardinality(S) <= charged[<<k, "writes", w>>]
      BY <2>1 DEF BudgetOK
    <3> HIDE DEF W, S
    <3>9. Cardinality(W') + Cardinality(S') <= charged'[<<k, "writes", w>>]
      BY <3>3, <3>4, <3>5, <3>6, <3>7, <3>8
    <3>10. QED
      BY <3>3, <3>9 DEF BudgetOK, W, S
  <2>4. CASE p \notin S
    <3>1. \/ call[p].outdated \/ k \notin QuotaKeys(call[p].by.scope)
          \/ WindowOf("writes", call[p].stamp) # w
      BY <2>4 DEF StillToWrite
    <3>2. ~(r.stamp >= 0 /\ k \in QuotaKeys(r.scope) /\ WindowOf("writes", r.stamp) = w)
      BY <3>1 DEF Admission
    <3>3. W' = W
      BY <3>2 DEF WrittenIn
    <3>4. S' \subseteq S
      BY <2>2
    <3>5. QED
      BY <1>1, <2>1, <3>3, <3>4, WriteSlots, BudgetSame
  <2>5. QED
    BY <2>3, <2>4
<1>4. QED
  BY <1>2, <1>3 DEF LedgerInv, BudgetsOK

\* An admitted reservation: every budget has room for its charge, table and history are
\* charged alike while the window is open, and a call admitted in its window of writes
\* has its row charged before it writes it
LEMMA Admitted ==
  ASSUME PathInv, LedgerInv, NEW p \in Processes, Reserve(p), HasRoom(p),
         usage' = [s \in Slots |-> Purged(s, call[p].stamp) + ChargesOf(p)[s]],
         charged' = [s \in Slots |-> charged[s] + (IF Live(s, now) THEN ChargesOf(p)[s] ELSE 0)],
         call' = [call EXCEPT ![p].outdated = WindowOf("writes", call[p].stamp) # WindowOf("writes", now)],
         pc' = [pc EXCEPT ![p] = "dispatch"]
  PROVE  LedgerInv'
<1> DEFINE due == ChargesOf(p) st == call[p].stamp
<1>1. /\ StateType /\ call[p] \in Calls /\ now \in 0..MaxTime /\ now \in Nat /\ st \in Nat /\ st <= now
      /\ pc[p] = "reserve" /\ now' = now /\ rows' = rows
  BY DEF PathInv, BaseInv, StateType, CallsOK, Calls, Reserve
<1>2. \A s \in Slots : /\ due[s] \in Nat
                       /\ due[s] = IF s[1] \in Keys(p) /\ s[3] = WindowOf(s[2], st) THEN call[p].charges[s[2]] ELSE 0
  BY <1>1, DueType
<1>3. \A s \in Slots : usage[s] \in Nat /\ charged[s] \in Nat
  BY <1>1 DEF StateType
<1>4. \A s \in Slots : s = <<s[1], s[2], s[3]>> /\ s[2] \in Resources /\ Window[s[2]] > 0
  BY DEF Slots
<1>5. \A s \in Slots : Limit[s[2]] \in Nat
  BY <1>4, RequestAssumption
<1>6. \A s \in Slots : due[s] > 0 => usage[s] + due[s] <= Limit[s[2]]
  <2>1. ASSUME NEW s \in Slots, due[s] > 0 PROVE usage[s] + due[s] <= Limit[s[2]]
    <3>1. s[1] \in Keys(p) /\ s[3] = WindowOf(s[2], st) /\ due[s] = call[p].charges[s[2]]
      BY <1>2, <2>1
    <3>2. Used(s[1], s[2], WindowOf(s[2], st)) + call[p].charges[s[2]] <= Limit[s[2]]
      BY <1>4, <2>1, <3>1 DEF HasRoom
    <3>3. Window[s[2]] # 0
      BY <1>4
    <3>4. Used(s[1], s[2], s[3]) = usage[s]
      BY <1>4, <3>3 DEF Used
    <3>5. QED
      BY <3>1, <3>2, <3>4
  <2>2. QED
    BY <2>1
<1>7. \A s \in Slots : usage'[s] = Purged(s, st) + due[s]
                       /\ charged'[s] = charged[s] + (IF Live(s, now) THEN due[s] ELSE 0)
  OBVIOUS
<1> HIDE DEF due, st
<1>8. \A s \in Slots : Purged(s, st) \in Nat /\ Purged(s, st) <= usage[s]
  BY <1>3 DEF Purged
<1>9. \A s \in Slots : usage'[s] <= Limit[s[2]]
  BY <1>2, <1>3, <1>5, <1>6, <1>7, <1>8 DEF LedgerInv, WithinLimits
<1>10. \A s \in Slots : Live(s, now) => usage'[s] = charged'[s]
  <2>1. ASSUME NEW s \in Slots, Live(s, now) PROVE usage'[s] = charged'[s]
    <3>1. Live(s, st)
      BY <1>1, <2>1, OpenBefore
    <3>2. Purged(s, st) = usage[s]
      BY <3>1 DEF Purged
    <3>3. usage[s] = charged[s]
      BY <2>1 DEF LedgerInv, LedgerExact
    <3>4. QED
      BY <1>7, <2>1, <3>2, <3>3
  <2>2. QED
    BY <2>1
<1>11. \A s \in Slots : charged'[s] <= Limit[s[2]]
  <2>1. ASSUME NEW s \in Slots PROVE charged'[s] <= Limit[s[2]]
    <3>1. CASE Live(s, now)
      BY <1>9, <1>10, <3>1
    <3>2. CASE ~Live(s, now)
      BY <1>3, <1>5, <1>7, <3>2 DEF LedgerInv, WithinLimits
    <3>3. QED
      BY <3>1, <3>2
  <2>2. QED
    BY <2>1
<1>12. WithinLimits' /\ LedgerExact'
  BY <1>1, <1>9, <1>10, <1>11 DEF WithinLimits, LedgerExact
<1>13. \A s \in Slots : charged'[s] \in Nat /\ charged[s] <= charged'[s]
  BY <1>2, <1>3, <1>7
<1>14. \A q \in Processes : q # p => pc'[q] = pc[q] /\ call'[q] = call[q]
  BY <1>1 DEF StateType
<1>15. /\ call'[p].outdated = (WindowOf("writes", st) # WindowOf("writes", now))
       /\ call'[p].by = call[p].by /\ call'[p].charges = call[p].charges /\ call'[p].stamp = st
  BY <1>1 DEF StateType, Calls, st
<1>16. ASSUME NEW k \in BudgetKeys, NEW w \in Windows PROVE BudgetOK(k, w)'
  <2> DEFINE W == WrittenIn(k, w)
             S == StillToWrite(k, w)
             s == <<k, "writes", w>>
  <2>1. BudgetOK(k, w) /\ s \in Slots
    BY WriteSlots DEF LedgerInv, BudgetsOK
  <2>2. W' = W
    BY <1>1 DEF WrittenIn
  <2>3. Servers \subseteq Processes
    BY DEF Processes
  <2>4. p \notin S
    BY <1>1 DEF StillToWrite
  <2>5. S' \subseteq S \cup {p}
    BY <1>14, <2>3 DEF StillToWrite
  <2>6. IsFiniteSet(W) /\ IsFiniteSet(S)
    BY <1>1, <2>1, FS_Subset DEF StateType, WrittenIn, BudgetOK
  <2>7. Cardinality(W) + Cardinality(S) <= charged[s]
    BY <2>1 DEF BudgetOK
  <2>8. CASE p \notin S'
    <3>1. S' \subseteq S
      BY <2>5, <2>8
    <3>2. IsFiniteSet(S') /\ Cardinality(S') <= Cardinality(S)
      <4> HIDE DEF S
      <4>1. QED
        BY <2>6, <3>1, FS_Subset
    <3>3. Cardinality(W) \in Nat /\ Cardinality(S) \in Nat /\ Cardinality(S') \in Nat
      BY <2>6, <3>2, FS_CardinalityType
    <3>4. charged[s] \in Nat /\ charged'[s] \in Nat /\ charged[s] <= charged'[s]
      BY <1>3, <1>13, <2>1
    <3> HIDE DEF W, S, s
    <3>5. Cardinality(W') + Cardinality(S') <= charged'[s]
      BY <2>2, <2>7, <3>2, <3>3, <3>4
    <3>6. QED
      BY <3>2, <3>5 DEF BudgetOK, W, S, s
  <2>9. CASE p \in S'
    <3>1. /\ call[p].charges["writes"] > 0 /\ k \in Keys(p) /\ WindowOf("writes", st) = w
          /\ WindowOf("writes", now) = w
      BY <1>15, <2>9 DEF StillToWrite, Keys
    <3>2. due[s] = call[p].charges["writes"] /\ due[s] \in Nat
      BY <1>2, <2>1, <3>1
    <3>3. Live(s, now)
      <4>1. "writes" \in Resources
        BY DEF Resources
      <4>2. Window["writes"] > 0
        BY <1>4, <2>1
      <4>3. Live(<<k, "writes", WindowOf("writes", now)>>, now)
        BY <1>1, <4>1, <4>2, SlotOpen
      <4>4. QED
        BY <3>1, <4>3
    <3>4. charged'[s] >= charged[s] + 1 /\ charged[s] \in Nat /\ charged'[s] \in Nat
      BY <1>3, <1>7, <2>1, <3>1, <3>2, <3>3
    <3>5. IsFiniteSet(S \cup {p}) /\ Cardinality(S \cup {p}) = Cardinality(S) + 1
      <4> HIDE DEF S
      <4>1. QED
        BY <2>4, <2>6, FS_AddElement
    <3>6. IsFiniteSet(S') /\ Cardinality(S') <= Cardinality(S \cup {p})
      <4> HIDE DEF S
      <4>1. QED
        BY <2>5, <3>5, FS_Subset
    <3>7. /\ Cardinality(W) \in Nat /\ Cardinality(S) \in Nat /\ Cardinality(S') \in Nat
          /\ Cardinality(S \cup {p}) \in Nat
      BY <2>6, <3>5, <3>6, FS_CardinalityType
    <3> HIDE DEF W, S, s
    <3>8. Cardinality(W') + Cardinality(S') <= charged'[s]
      BY <2>2, <2>7, <3>4, <3>5, <3>6, <3>7
    <3>9. QED
      BY <3>6, <3>8 DEF BudgetOK, W, S, s
  <2>10. QED
    BY <2>8, <2>9
<1>17. QED
  BY <1>12, <1>16 DEF LedgerInv, BudgetsOK

\* The calls that write a row are charged as writes
LEMMA WritersCharged ==
  ASSUME PathInv, NEW p \in Servers, DispatchTo(p, StoreTools) \/ DispatchTo(p, {"dream_review_resolve"})
  PROVE  pc[p] = "dispatch" /\ Return(p) /\ call[p].charges["writes"] > 0
<1>1. pc[p] = "dispatch" /\ Return(p)
  BY DEF DispatchTo
<1>2. call[p].tool \in StoreTools \cup {"dream_review_resolve"}
  BY DEF DispatchTo
<1>3. call[p].tool \in ChargedAsWrite
  BY <1>2 DEF StoreTools, ChargedAsWrite
<1>4. call[p].tool \in AllTools /\ call[p].charges = Charges(call[p].tool, 1)
  BY <1>1, ServerPinned DEF PathInv, BaseInv
<1>5. QED
  BY <1>1, <1>3, <1>4, ChargesType

\* Initially nothing is charged or written
LEMMA InitLedger == Init => LedgerInv
<1> SUFFICES ASSUME Init PROVE LedgerInv
  OBVIOUS
<1>1. \A s \in Slots : usage[s] = 0 /\ charged[s] = 0
  BY DEF Init
<1>2. \A s \in Slots : Limit[s[2]] \in Nat
  BY RequestAssumption DEF Slots
<1>3. WithinLimits /\ LedgerExact
  BY <1>1, <1>2 DEF WithinLimits, LedgerExact
<1>4. ASSUME NEW k \in BudgetKeys, NEW w \in Windows PROVE BudgetOK(k, w)
  <2>1. \A r \in rows : ~(r.stamp >= 0)
    BY DEF Init
  <2>2. WrittenIn(k, w) = {}
    BY <2>1 DEF WrittenIn
  <2>3. StillToWrite(k, w) = {}
    BY DEF Init, StillToWrite, Processes
  <2>4. charged[<<k, "writes", w>>] = 0
    BY <1>1, WriteSlots
  <2>5. QED
    BY <2>2, <2>3, <2>4, FS_EmptySet DEF BudgetOK
<1>5. QED
  BY <1>3, <1>4 DEF LedgerInv, BudgetsOK

\* Calls that write nothing, or fail
LEMMA QuietCallsLedger ==
  ASSUME PathInv, LedgerInv, NEW p \in Servers,
         \/ \E c \in DOMAIN Credentials, tool \in Tools, sel \in Contexts : CallBegin(p, c, tool, sel, 1, TRUE)
         \/ ReadCall(p) \/ EnqueueCall(p) \/ DispatchFails(p)
  PROVE  LedgerInv'
<1>1. UNCHANGED <<now, usage, rows, charged>>
  BY DEF CallBegin, ReadCall, EnqueueCall, DispatchFails
<1>2. now \in Nat /\ now' \in Nat /\ now <= now' /\ p \in Processes
  BY <1>1 DEF PathInv, BaseInv, StateType, Processes
<1>3. \E c, to : to # "dispatch" /\ pc' = [pc EXCEPT ![p] = to] /\ call' = [call EXCEPT ![p] = c]
  <2>1. CASE Return(p)
    BY <2>1 DEF Return, Set
  <2>2. CASE \E c \in DOMAIN Credentials, tool \in Tools, sel \in Contexts : CallBegin(p, c, tool, sel, 1, TRUE)
    <3>1. PICK c \in DOMAIN Credentials, tool \in Tools, sel \in Contexts : CallBegin(p, c, tool, sel, 1, TRUE)
      BY <2>2
    <3> DEFINE new == [by |-> AuthorityOf(Authenticate(c)), tool |-> tool, sel |-> sel,
                       charges |-> Charges(tool, 1), stamp |-> now, outdated |-> FALSE]
    <3>2. pc' = [pc EXCEPT ![p] = "reserve"] /\ call' = [call EXCEPT ![p] = new]
      BY <3>1 DEF CallBegin, Set
    <3> HIDE DEF new
    <3>3. QED
      BY <3>2
  <2>3. QED
    BY <2>1, <2>2 DEF ReadCall, EnqueueCall, DispatchFails, DispatchTo
<1>4. PICK c, to : to # "dispatch" /\ pc' = [pc EXCEPT ![p] = to] /\ call' = [call EXCEPT ![p] = c]
  BY <1>3
<1>5. QED
  BY <1>1, <1>2, <1>4, NothingWritten

\* Calls that write a row
LEMMA WritingCallsLedger ==
  ASSUME PathInv, LedgerInv, NEW p \in Servers, StoreCall(p) \/ Approve(p)
  PROVE  LedgerInv'
<1>1. UNCHANGED <<now, usage, charged>>
  BY DEF StoreCall, Approve
<1>2. pc[p] = "dispatch" /\ Return(p) /\ call[p].charges["writes"] > 0
  BY WritersCharged DEF StoreCall, Approve
<1>3. now \in Nat /\ now' \in Nat /\ now <= now' /\ p \in Processes
  BY <1>1 DEF PathInv, BaseInv, StateType, Processes
<1>4. \/ rows' = rows
      \/ \E attr : rows' = rows \cup {Row(call[p].by, attr, Admission(call[p]))}
  BY DEF StoreCall, Approve
<1>5. CASE rows' = rows
  BY <1>1, <1>2, <1>3, <1>5, NothingWritten DEF Return, Set
<1>6. ASSUME NEW attr, rows' = rows \cup {Row(call[p].by, attr, Admission(call[p]))} PROVE LedgerInv'
  <2> DEFINE r == Row(call[p].by, attr, Admission(call[p]))
  <2>1. r.scope = call[p].by.scope /\ r.stamp = Admission(call[p]) /\ rows' = rows \cup {r}
    BY <1>6 DEF Row
  <2> HIDE DEF r
  <2>2. QED
    BY <1>1, <1>2, <2>1, RowOfCall
<1>7. QED
  BY <1>4, <1>5, <1>6

\* Reservations
LEMMA ReserveLedger ==
  ASSUME PathInv, LedgerInv, NEW p \in Processes, Reserve(p) \/ ReserveTimeout(p)
  PROVE  LedgerInv'
<1>1. UNCHANGED <<now, rows>>
  BY DEF Reserve, ReserveTimeout
<1>2. now \in Nat /\ now' \in Nat /\ now <= now'
  BY <1>1 DEF PathInv, BaseInv, StateType
<1>3. CASE Return(p) /\ usage' = usage /\ charged' = charged
  BY <1>1, <1>2, <1>3, NothingWritten DEF Return, Set
<1>4. CASE /\ Reserve(p) /\ HasRoom(p)
           /\ usage' = [s \in Slots |-> Purged(s, call[p].stamp) + ChargesOf(p)[s]]
           /\ charged' = [s \in Slots |-> charged[s] + (IF Live(s, now) THEN ChargesOf(p)[s] ELSE 0)]
           /\ call' = [call EXCEPT ![p].outdated = WindowOf("writes", call[p].stamp) # WindowOf("writes", now)]
           /\ pc' = [pc EXCEPT ![p] = "dispatch"]
  BY <1>4, Admitted
<1>5. QED
  BY <1>3, <1>4 DEF Reserve, ReserveTimeout, Refused, Set

\* The worker, whose rows are charged to no window of writes
LEMMA WorkerLedger ==
  ASSUME PathInv, LedgerInv, WorkerRun \/ \E j \in jobs : WorkerClaim(j)
  PROVE  LedgerInv'
<1>1. UNCHANGED <<now, usage, charged>>
  BY DEF WorkerRun, WorkerClaim
<1>2. now \in Nat /\ now' \in Nat /\ now <= now' /\ Worker \in Processes
  BY <1>1 DEF PathInv, BaseInv, StateType, Processes
<1>3. CASE WorkerRun
  <2> DEFINE r == Row(call[Worker].by, Attribution(call[Worker].by, NoSelector), -1)
  <2>1. rows' = rows \cup {r} /\ r.stamp = -1
    BY <1>3 DEF WorkerRun, Row
  <2> HIDE DEF r
  <2>2. Return(Worker)
    BY <1>3 DEF WorkerRun
  <2>3. QED
    BY <1>1, <1>2, <2>1, <2>2, NothingWritten DEF Return, Set
<1>4. ASSUME NEW j \in jobs, WorkerClaim(j) PROVE LedgerInv'
  <2> DEFINE c == [NoCall EXCEPT !.by = IF j.has THEN j.snapshot ELSE Owner, !.stamp = now]
  <2>1. /\ rows' = rows /\ pc' = [pc EXCEPT ![Worker] = "reserve"] /\ call' = [call EXCEPT ![Worker] = c]
    BY <1>4 DEF WorkerClaim, Set
  <2> HIDE DEF c
  <2>2. QED
    BY <1>1, <1>2, <2>1, NothingWritten
<1>5. QED
  BY <1>3, <1>4

\* Tick: windows close
LEMMA TickLedger == ASSUME PathInv, LedgerInv, Tick PROVE LedgerInv'
<1>1. /\ StateType /\ now \in Nat /\ now' \in Nat /\ now <= now'
      /\ UNCHANGED <<usage, rows, pc, call, charged>>
  BY DEF PathInv, BaseInv, StateType, Tick
<1>2. WithinLimits' /\ LedgerExact'
  BY <1>1, BalancesSame DEF LedgerInv
<1>3. ASSUME NEW k \in BudgetKeys, NEW w \in Windows PROVE BudgetOK(k, w)'
  <2>1. BudgetOK(k, w)
    BY DEF LedgerInv, BudgetsOK
  <2>2. WrittenIn(k, w)' = WrittenIn(k, w) /\ StillToWrite(k, w)' = StillToWrite(k, w)
    BY <1>1 DEF WrittenIn, StillToWrite
  <2>3. QED
    BY <1>1, <2>1, <2>2, WriteSlots, BudgetSame
<1>4. QED
  BY <1>2, <1>3 DEF LedgerInv, BudgetsOK

\* Every step keeps the ledger
LEMMA LedgerStep == PathInv /\ LedgerInv /\ [Next]_vars => LedgerInv'
<1> SUFFICES ASSUME PathInv, LedgerInv, [Next]_vars PROVE LedgerInv'
  OBVIOUS
<1>1. CASE \E p \in Servers :
             \/ \E c \in DOMAIN Credentials, tool \in Tools, sel \in Contexts :
                  CallBegin(p, c, tool, sel, 1, TRUE)
             \/ ReadCall(p) \/ StoreCall(p) \/ EnqueueCall(p) \/ Approve(p) \/ DispatchFails(p)
  BY <1>1, QuietCallsLedger, WritingCallsLedger
<1>2. CASE \E p \in Processes : Reserve(p) \/ ReserveTimeout(p)
  BY <1>2, ReserveLedger
<1>3. CASE WorkerRun \/ \E j \in jobs : WorkerClaim(j)
  BY <1>3, WorkerLedger
<1>4. CASE Tick
  BY <1>4, TickLedger
<1>5. CASE UNCHANGED vars
  BY <1>5 DEF vars, LedgerInv, WithinLimits, LedgerExact, BudgetsOK, BudgetOK, WrittenIn, StillToWrite
<1>6. QED
  BY <1>1, <1>2, <1>3, <1>4, <1>5 DEF Next

\* The invariant gives the property
LEMMA LedgerExactly == PathInv /\ LedgerInv => QuotaExact
<1> SUFFICES ASSUME PathInv, LedgerInv PROVE QuotaExact
  OBVIOUS
<1>1. StateType
  BY DEF PathInv, BaseInv
<1>2. RequestTypeOK
  BY <1>1 DEF RequestTypeOK, StateType, LedgerInv, WithinLimits, Rows, Jobs
<1>3. ASSUME NEW k \in {s[1] : s \in Slots}, NEW w \in Windows
      PROVE Cardinality(WrittenIn(k, w)) <= Limit["writes"]
  <2>1. k \in BudgetKeys
    BY DEF Slots
  <2>2. BudgetOK(k, w) /\ <<k, "writes", w>> \in Slots
    BY <2>1, WriteSlots DEF LedgerInv, BudgetsOK
  <2>3. charged[<<k, "writes", w>>] <= Limit["writes"]
    BY <2>2 DEF LedgerInv, WithinLimits
  <2>4. IsFiniteSet(WrittenIn(k, w)) /\ IsFiniteSet(StillToWrite(k, w))
    BY <1>1, <2>2, FS_Subset DEF StateType, WrittenIn, BudgetOK
  <2>5. Cardinality(WrittenIn(k, w)) \in Nat /\ Cardinality(StillToWrite(k, w)) \in Nat
    BY <2>4, FS_CardinalityType
  <2>6. charged[<<k, "writes", w>>] \in Nat /\ Limit["writes"] \in Nat
    BY <1>1, <2>2, RequestAssumption DEF StateType, Resources
  <2>7. QED
    BY <2>2, <2>3, <2>5, <2>6 DEF BudgetOK
<1>4. WritesWithinBudget
  BY <1>3 DEF WritesWithinBudget, WrittenIn
<1>5. QED
  BY <1>2, <1>4 DEF QuotaExact, LedgerInv

\* limiter.py: in every window still open each budget's row is exactly what all processes'
\* admitted calls and jobs add up to, and never more rows are written in a window than its
\* budget, for every policy, registry, number of server processes and interleaving of
\* reservations that wait for the table's lock across a window's end
THEOREM QuotaIsExact == Spec => []QuotaExact
BY InitPath, PathStep, InitLedger, LedgerStep, LedgerExactly, PTL DEF Spec
=============================================================================
