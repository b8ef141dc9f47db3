----------------------- MODULE KnowledgeEvolution_proof -----------------------
(***************************************************************************)
(* Theorems about KnowledgeEvolution for every number of records, threads, *)
(* processes, identities, failures and crashes: locks, heads and recovery, *)
(* then the history it writes and the refinement of KnowledgeHead.         *)
(***************************************************************************)
EXTENDS KnowledgeEvolution, FiniteSetTheorems, TLAPS

\* Program points between the acquisition and the release of an identity lock
Critical == {"recover", "retrieve", "r_supersede", "r_activate",
             "search", "upsert", "supersede", "activate"}

\* Program points at which a staged version and its predecessor are in hand
InHand == {"retrieve", "r_supersede", "r_activate", "supersede", "activate"}

LocalsOK == \A t \in Threads : pc[t] \in InHand => loc[t].staged \in Ids /\ loc[t].prev \in Ids

TInv == TypeOK /\ LocalsOK

\* The deployment the guarantee needs: the lock file is configured or there is
\* one process; an entity has no more contexts than the lookup returns; no
\* write lands after its caller gave up on it.
Deployed ==
  /\ ProcessLock \/ \A t, u \in Threads : ProcOf[t] = ProcOf[u]
  /\ Cardinality(Contexts) <= SearchLimit
  /\ ~LateWrites

\* Lock discipline
Locked ==
  /\ late = {}
  /\ \A t \in Threads : pc[t] \in Critical => lock[LockOf(t)] = t
  /\ ProcessLock => \A t \in Threads : pc[t] \in Critical \cup {"lock", "reconcile"} => guard = t

Exclusive ==
  \A t, u \in Threads : pc[t] \in Critical /\ pc[u] \in Critical
                          /\ loc[t].key = loc[u].key => t = u

Staged(i) == points[i].status = "deprecated"
Prev(i) == points[points[i].prev]

\* A head: the active version, or the staged one its predecessor points to
Head(i) == points[i].status = "active" \/ (Staged(i) /\ Prev(i).status = "superseded")

StagedOK ==
  \A i \in Ids : Staged(i) =>
    /\ points[i].evo = "pending" /\ points[i].prev \in Ids /\ points[i].next = None
    /\ Prev(i).key = points[i].key
    /\ \/ Prev(i).status = "active"
       \/ Prev(i).status = "superseded" /\ Prev(i).next = i

OneStaged ==
  \A i, j \in Ids : Staged(i) /\ Staged(j) /\ points[i].key = points[j].key => i = j

ActiveOpen == \A i \in Ids : points[i].status = "active" => points[i].next = None

OneHead ==
  \A i, j \in Ids : Head(i) /\ Head(j) /\ points[i].key = points[j].key => i = j

RebuildOK ==
  \A m \in maint : /\ points[m.id].status # "absent"
                   /\ Staged(m.id) => m.evo = points[m.id].evo /\ m.prev = points[m.id].prev

\* What each program point knows about the records it works on
AtSearch(t) == pc[t] \in {"search", "upsert"} =>
  \A i \in Ids : Staged(i) => points[i].key # loc[t].key
AtUpsert(t) == pc[t] = "upsert" =>
  IF loc[t].prev = None
  THEN \A i \in Ids : points[i].status = "active" => points[i].key # loc[t].key
  ELSE /\ points[loc[t].prev].status = "active"
       /\ points[loc[t].prev].key = loc[t].key
AtStaged(t) == pc[t] \in InHand =>
  /\ Staged(loc[t].staged)
  /\ points[loc[t].staged].key = loc[t].key
  /\ points[loc[t].staged].prev = loc[t].prev
AtSupersede(t) == pc[t] \in {"supersede", "r_supersede"} => points[loc[t].prev].status = "active"
AtActivate(t) == pc[t] \in {"activate", "r_activate"} => points[loc[t].prev].status = "superseded"

PointsOK == StagedOK /\ OneStaged /\ ActiveOpen /\ OneHead /\ RebuildOK
ThreadOK(t) == AtSearch(t) /\ AtUpsert(t) /\ AtStaged(t) /\ AtSupersede(t) /\ AtActivate(t)
ThreadsOK == \A t \in Threads : ThreadOK(t)


(***************************************************************************)
(* Types.                                                                  *)
(***************************************************************************)
\* The record that stands for no point and the locals of an idle thread are typed.
LEMMA DefaultTypes == Absent \in Records /\ NoLocals \in Locals
<1>1. Keys # {}
  <2>1. PICK e \in Entities, x \in Contexts : TRUE
    BY ConstantsAssumption
  <2>2. <<e, x>> \in Keys
    BY <2>1 DEF Keys
  <2> QED BY <2>2
<1>2. (CHOOSE k \in Keys : TRUE) \in Keys
  BY <1>1
<1>3. (CHOOSE c \in Contents : TRUE) \in Contents
  BY ConstantsAssumption
<1> QED
  BY <1>2, <1>3 DEF Absent, NoLocals, Records, Locals, OptId, Statuses

\* A storage call keeps the collection a map from ids to records.
LEMMA ApplyCallType ==
  ASSUME NEW pts \in [Ids -> Records], NEW w \in Calls
  PROVE  ApplyCall(pts, w) \in [Ids -> Records]
<1>1. CASE w.kind = "upsert"
  <2>1. w.rec \in Records /\ w.id \in Ids
    BY <1>1 DEF Calls
  <2> QED BY <1>1, <2>1 DEF ApplyCall
<1>2. CASE w.kind = "supersede"
  <2>1. w.next \in OptId /\ w.id \in Ids
    BY <1>2 DEF Calls
  <2> DEFINE p == pts[w.id]
  <2>0. p \in Records
    BY <2>1
  <2>2. [pts[w.id] EXCEPT !.status = "superseded", !.next = w.next] \in Records
    <3> HIDE DEF p
    <3>1. "superseded" \in Statuses
      BY DEF Statuses
    <3>2. [p EXCEPT !.status = "superseded", !.next = w.next] \in Records
      BY <2>0, <2>1, <3>1 DEF Records
    <3> QED BY <3>2 DEF p
  <2>3. ApplyCall(pts, w) = pts \/ ApplyCall(pts, w) =
          [pts EXCEPT ![w.id] = [pts[w.id] EXCEPT !.status = "superseded", !.next = w.next]]
    BY <1>2, <2>1 DEF ApplyCall, SetPayload
  <2> QED BY <2>1, <2>2, <2>3
<1>3. CASE w.kind = "activate"
  <2>1. w.id \in Ids
    BY <1>3 DEF Calls
  <2> DEFINE p == pts[w.id]
  <2>0. p \in Records
    BY <2>1
  <2>2. [pts[w.id] EXCEPT !.status = "active", !.evo = "committed", !.prev = None] \in Records
    <3> HIDE DEF p
    <3>1. "active" \in Statuses /\ None \in OptId
      BY DEF Statuses, OptId
    <3>2. [p EXCEPT !.status = "active", !.evo = "committed", !.prev = None] \in Records
      BY <2>0, <3>1 DEF Records
    <3> QED BY <3>2 DEF p
  <2>3. ApplyCall(pts, w) = pts \/ ApplyCall(pts, w) =
          [pts EXCEPT ![w.id] = [pts[w.id] EXCEPT !.status = "active", !.evo = "committed",
                                                  !.prev = None]]
    BY <1>3, <2>1 DEF ApplyCall, SetPayload
  <2> QED BY <2>1, <2>2, <2>3
<1> QED BY <1>1, <1>2, <1>3 DEF Calls

\* The write a thread is about to make is well formed.
LEMMA CallOfType ==
  ASSUME TInv, NEW t \in Threads, pc[t] \in Writes, NEW i \in NewId(t)
  PROVE  CallOf(t, i) \in Calls
<1> USE DEF TInv
<1>0. loc[t] \in Locals
  BY DEF TypeOK
<1>1. CASE pc[t] = "upsert"
  <2>1. i \in Ids
    BY <1>1 DEF NewId, FreshIds
  <2>2. loc[t].prev \in OptId /\ loc[t].key \in Keys /\ loc[t].content \in Contents
    BY <1>0 DEF Locals
  <2>3. loc[t].prev # None => points[loc[t].prev].version \in Nat
    BY <2>2 DEF TypeOK, Records, OptId
  <2>4. NewRecord(t) \in Records
    BY <2>2, <2>3 DEF NewRecord, Records, OptId, Statuses
  <2>5. CallOf(t, i) = UpsertCall(i, NewRecord(t))
    BY <1>1 DEF CallOf
  <2> QED BY <2>1, <2>4, <2>5 DEF Calls, UpsertCall
<1>2. CASE pc[t] \in {"supersede", "r_supersede"}
  <2>1. loc[t].prev \in Ids /\ loc[t].staged \in Ids
    BY <1>2 DEF LocalsOK, InHand
  <2>2. CallOf(t, i) = SupersedeCall(loc[t].prev, loc[t].staged)
    BY <1>2 DEF CallOf
  <2> QED BY <2>1, <2>2 DEF Calls, SupersedeCall, OptId
<1>3. CASE pc[t] \in {"activate", "r_activate"}
  <2>1. loc[t].staged \in Ids
    BY <1>3 DEF LocalsOK, InHand
  <2>2. CallOf(t, i) = ActivateCall(loc[t].staged)
    BY <1>3 DEF CallOf
  <2> QED BY <2>1, <2>2 DEF Calls, ActivateCall
<1> QED BY <1>1, <1>2, <1>3 DEF Writes

\* The in-process lock a thread uses belongs to its own process.
LEMMA LockOfType ==
  ASSUME TInv, NEW t \in Threads
  PROVE  LockOf(t) \in Procs \X Keys /\ LockOf(t)[1] = ProcOf[t]
<1>1. loc[t].key \in Keys
  BY DEF TInv, TypeOK, Locals
<1>2. IdentityKey(loc[t].key) \in Keys
  BY <1>1, ConstantsAssumption DEF IdentityKey, Keys
<1> QED BY <1>2, ConstantsAssumption DEF LockOf

\* The control part of TInv, after a thread released everything and left.
ControlType ==
  /\ proc \in [Procs -> {"down", "starting", "up"}]
  /\ guard \in Threads \cup {None}
  /\ lock \in [Procs \X Keys -> Threads \cup {None}]
  /\ pc \in [Threads -> PCs]
  /\ loc \in [Threads -> Locals]
  /\ LocalsOK

\* Leaving the locks, by return or by exception, keeps the control state typed.
LEMMA LeaveType ==
  ASSUME TInv, NEW t \in Threads, NEW ok, Leave(t, ok)
  PROVE  ControlType'
<1> USE DEF TInv, TypeOK, Leave, ReleaseAll
<1>1. proc' \in [Procs -> {"down", "starting", "up"}]
  BY ConstantsAssumption
<1>2. guard' \in Threads \cup {None}
  OBVIOUS
<1>3. lock' \in [Procs \X Keys -> Threads \cup {None}]
  OBVIOUS
<1>4. pc' \in [Threads -> PCs] /\ loc' \in [Threads -> Locals]
  BY DefaultTypes DEF PCs
<1>5. LocalsOK'
  BY DEF LocalsOK, InHand
<1> QED BY <1>1, <1>2, <1>3, <1>4, <1>5 DEF ControlType

\* Moving a thread to its next step keeps the control state typed.
LEMMA GotoType ==
  ASSUME TInv, NEW t \in Threads, NEW l \in PCs, Goto(t, l),
         NEW r \in Locals, loc' = [loc EXCEPT ![t] = r],
         l \in InHand => r.staged \in Ids /\ r.prev \in Ids,
         UNCHANGED <<proc, guard, lock>>
  PROVE  ControlType'
<1>1. pc' \in [Threads -> PCs] /\ loc' \in [Threads -> Locals]
  BY DEF Goto, TInv, TypeOK
<1>2. LocalsOK'
  BY DEF Goto, TInv, TypeOK, LocalsOK
<1> QED BY <1>1, <1>2 DEF ControlType, TInv, TypeOK

\* Going on after a recovery, to the next key or to the search, keeps it typed.
LEMMA AfterRecoveryType ==
  ASSUME TInv, NEW t \in Threads, AfterRecovery(t)
  PROVE  ControlType'
<1>1. CASE Leave(t, TRUE)
  BY <1>1, LeaveType
<1>2. CASE /\ Goto(t, "search")
           /\ UNCHANGED <<proc, guard, lock, loc>>
  BY <1>2 DEF ControlType, TInv, TypeOK, LocalsOK, InHand, Goto, PCs
<1>3. CASE /\ \E k \in loc[t].todo : loc' = [loc EXCEPT ![t].key = k, ![t].todo = @ \ {k}]
           /\ lock' = [lock EXCEPT ![LockOf(t)] = None]
           /\ Goto(t, "lock")
           /\ UNCHANGED <<proc, guard>>
  <2>1. loc[t].todo \subseteq Keys
    BY DEF TInv, TypeOK, Locals
  <2>a. PICK k \in loc[t].todo : loc' = [loc EXCEPT ![t].key = k, ![t].todo = @ \ {k}]
    BY <1>3
  <2>b. loc' = [loc EXCEPT ![t] = [loc[t] EXCEPT !.key = k, !.todo = loc[t].todo \ {k}]]
    BY <2>a DEF TInv, TypeOK
  <2>c. [loc[t] EXCEPT !.key = k, !.todo = loc[t].todo \ {k}] \in Locals
    BY ZenonT(60), <2>1 DEF TInv, TypeOK, Locals
  <2>2. loc' \in [Threads -> Locals]
    BY <2>b, <2>c DEF TInv, TypeOK
  <2>3. lock' \in [Procs \X Keys -> Threads \cup {None}]
    BY <1>3 DEF TInv, TypeOK
  <2> QED BY <1>3, <2>2, <2>3 DEF ControlType, TInv, TypeOK, LocalsOK, InHand, Goto, PCs
<1> QED BY <1>1, <1>2, <1>3 DEF AfterRecovery

\* An empty collection with every process down is typed.
LEMMA TypeInit == Init => TInv
<1>1. SUFFICES ASSUME Init PROVE TInv
  OBVIOUS
<1>2. points \in [Ids -> Records] /\ loc \in [Threads -> Locals]
  BY <1>1, DefaultTypes DEF Init
<1>3. faults \in 0..MaxFaults /\ crashes \in 0..MaxCrashes
  BY <1>1, ConstantsAssumption DEF Init
<1> QED BY <1>1, <1>2, <1>3 DEF Init, TInv, TypeOK, LocalsOK, InHand, PCs

\* One write: the collection and the locals stay typed whatever the outcome.
LEMMA WriteType ==
  ASSUME TInv, NEW t \in Threads, pc[t] \in Writes, NEW i \in NewId(t),
         points' = ApplyCall(points, CallOf(t, i))
  PROVE  points' \in [Ids -> Records]
BY CallOfType, ApplyCallType DEF TInv, TypeOK

\* Every step keeps the types.
LEMMA TypeStep == TInv /\ [Next]_vars => TInv'
<1> SUFFICES ASSUME TInv, [Next]_vars PROVE TInv'
  OBVIOUS
<1>st. UNCHANGED vars => TInv'
  BY DEF vars, TInv, TypeOK, LocalsOK, Calls
<1>s. ASSUME ControlType', points' \in [Ids -> Records],
             UNCHANGED <<maint, late>>, acked' \subseteq Ids,
             faults' \in 0..MaxFaults, crashes' \in 0..MaxCrashes
      PROVE  TInv'
  BY <1>s DEF TInv, TypeOK, ControlType
<1>f. faults \in 0..MaxFaults /\ crashes \in 0..MaxCrashes /\ acked \subseteq Ids
      /\ points \in [Ids -> Records]
  BY DEF TInv, TypeOK
<1>1. ASSUME NEW t \in Threads, NEW k \in Keys, StoreAny(t, k)
      PROVE  TInv'
  <2>1. PICK c \in Contents, f \in ForceInputs, x \in OptId : StoreBegin(t, k, c, f, x)
    BY <1>1 DEF StoreAny
  <2>2. [NoLocals EXCEPT !.key = k, !.content = c, !.forced = f, !.expected = x] \in Locals
    BY DefaultTypes, ConstantsAssumption DEF Locals
  <2>3. ControlType'
    BY <2>1, <2>2 DEF StoreBegin, Goto, ControlType, TInv, TypeOK, LocalsOK, InHand, PCs
  <2> QED BY <2>1, <2>3, <1>s, <1>f DEF StoreBegin
<1>2. ASSUME NEW t \in Threads, Restart(t)
      PROVE  TInv'
  <2>1. [NoLocals EXCEPT !.op = "reconcile"] \in Locals
    BY DefaultTypes DEF Locals
  <2>2. ControlType'
    BY <1>2, <2>1 DEF Restart, Goto, ControlType, TInv, TypeOK, LocalsOK, InHand, PCs
  <2> QED BY <1>2, <2>2, <1>s, <1>f DEF Restart
<1>3. ASSUME NEW t \in Threads, AcquireGuard(t)
      PROVE  TInv'
  <2>1. ControlType'
    BY <1>3 DEF AcquireGuard, Goto, ControlType, TInv, TypeOK, LocalsOK, InHand, PCs
  <2> QED BY <1>3, <2>1, <1>s, <1>f DEF AcquireGuard
<1>4. ASSUME NEW t \in Threads, AcquireLock(t)
      PROVE  TInv'
  <2>1. ControlType'
    BY <1>4 DEF AcquireLock, Goto, ControlType, TInv, TypeOK, LocalsOK, InHand, PCs
  <2> QED BY <1>4, <2>1, <1>s, <1>f DEF AcquireLock
<1>5. ASSUME NEW t \in Threads, ReconcileScan(t)
      PROVE  TInv'
  <2>1. ControlType'
    <3>1. CASE \E ok : Leave(t, ok)
      BY <3>1, LeaveType
    <3>2. CASE ~\E ok : Leave(t, ok)
      <4>1. PICK K \in SUBSET Keys, k \in Keys :
               /\ loc' = [loc EXCEPT ![t].key = k, ![t].todo = K \ {k}]
               /\ Goto(t, "lock")
               /\ UNCHANGED <<guard, lock, proc>>
        <5> DEFINE pending == {i \in Ids : points[i].status = "deprecated"
                                             /\ points[i].evo = "pending"}
                   keys == {<<Trimmed[points[i].key[1]], points[i].key[2]>> : i \in pending}
        <5>1. keys \in SUBSET Keys
          BY ConstantsAssumption DEF TInv, TypeOK, Records, Keys
        <5>2. \E k \in keys : /\ loc' = [loc EXCEPT ![t].key = k, ![t].todo = keys \ {k}]
                              /\ Goto(t, "lock")
                              /\ UNCHANGED <<guard, lock, proc>>
          BY <1>5, <3>2 DEF ReconcileScan
        <5> HIDE DEF keys
        <5> QED BY <5>1, <5>2
      <4>2. [loc[t] EXCEPT !.key = k, !.todo = K \ {k}] \in Locals
        BY ZenonT(60) DEF TInv, TypeOK, Locals
      <4>3. loc' = [loc EXCEPT ![t] = [loc[t] EXCEPT !.key = k, !.todo = K \ {k}]]
        BY <4>1 DEF TInv, TypeOK
      <4> QED BY <4>1, <4>2, <4>3 DEF Goto, ControlType, TInv, TypeOK, LocalsOK, InHand, PCs
    <3> QED BY <3>1, <3>2
  <2> QED BY <1>5, <2>1, <1>s, <1>f DEF ReconcileScan
<1>6. ASSUME NEW t \in Threads, RecoverScan(t)
      PROVE  TInv'
  <2>1. ControlType'
    <3>1. CASE AfterRecovery(t)
      BY <3>1, AfterRecoveryType
    <3>2. CASE Leave(t, FALSE)
      BY <3>2, LeaveType
    <3>3. CASE \E s \in PendingOf(loc[t].key) :
                 /\ points[s].prev # None
                 /\ Goto(t, "retrieve")
                 /\ loc' = [loc EXCEPT ![t].staged = s, ![t].prev = points[s].prev]
                 /\ UNCHANGED <<proc, guard, lock>>
      <4>1. PICK s \in Ids :
                 /\ points[s].prev # None
                 /\ Goto(t, "retrieve")
                 /\ loc' = [loc EXCEPT ![t].staged = s, ![t].prev = points[s].prev]
                 /\ UNCHANGED <<proc, guard, lock>>
        BY <3>3 DEF PendingOf
      <4>2. points[s].prev \in Ids
        BY <4>1 DEF TInv, TypeOK, Records, OptId
      <4>3. [loc[t] EXCEPT !.staged = s, !.prev = points[s].prev] \in Locals
        BY ZenonT(60), <4>2 DEF TInv, TypeOK, Locals, OptId
      <4>4. loc' = [loc EXCEPT ![t] = [loc[t] EXCEPT !.staged = s, !.prev = points[s].prev]]
        BY <4>1 DEF TInv, TypeOK
      <4> QED BY <4>1, <4>2, <4>3, <4>4
              DEF Goto, ControlType, TInv, TypeOK, Locals, LocalsOK, InHand, PCs
    <3> QED BY <1>6, <3>1, <3>2, <3>3 DEF RecoverScan
  <2> QED BY <1>6, <2>1, <1>s, <1>f DEF RecoverScan
<1>7. ASSUME NEW t \in Threads, RecoverRetrieve(t)
      PROVE  TInv'
  <2>1. ControlType'
    <3>1. CASE Leave(t, FALSE)
      BY <3>1, LeaveType
    <3>2. CASE /\ pc[t] = "retrieve"
               /\ Goto(t, "r_supersede") \/ Goto(t, "r_activate")
               /\ UNCHANGED <<proc, guard, lock, loc>>
      BY <3>2 DEF Goto, ControlType, TInv, TypeOK, LocalsOK, InHand, PCs
    <3> QED BY <1>7, <3>1, <3>2 DEF RecoverRetrieve
  <2> QED BY <1>7, <2>1, <1>s, <1>f DEF RecoverRetrieve
<1>8. ASSUME NEW t \in Threads, Search(t)
      PROVE  TInv'
  <2>1. ControlType' /\ acked' \subseteq Ids
    <3>1. CASE \E ok : Leave(t, ok)
      <4>1. acked' = acked \/ \E p \in OptId : p # None /\ acked' = acked \cup {p}
        BY <1>8 DEF Search, Goto
      <4> QED BY <3>1, <4>1, <1>f, LeaveType DEF OptId
    <3>2. CASE ~\E ok : Leave(t, ok)
      <4>1. PICK p \in OptId :
              /\ Goto(t, "upsert")
              /\ loc' = [loc EXCEPT ![t].prev = p, ![t].staged = None,
                                    ![t].prevNext = IF p = None THEN None ELSE points[p].next]
              /\ UNCHANGED <<proc, guard, lock, acked>>
        BY <1>8, <3>2 DEF Search
      <4> DEFINE n == IF p = None THEN None ELSE points[p].next
                 r == [loc[t] EXCEPT !.prev = p, !.staged = None, !.prevNext = n]
      <4>2. n \in OptId
        BY DEF TInv, TypeOK, Records, OptId
      <4>4. loc' = [loc EXCEPT ![t] = r]
        BY <4>1 DEF TInv, TypeOK
      <4> HIDE DEF n
      <4>5. loc[t] \in Locals /\ None \in OptId
        BY DEF TInv, TypeOK, OptId
      <4>3. r \in Locals
        BY <4>2, <4>5 DEF Locals
      <4> HIDE DEF r
      <4> QED BY <4>1, <4>3, <4>4, <1>f, GotoType DEF InHand, PCs
    <3> QED BY <3>1, <3>2
  <2> QED BY <1>8, <2>1, <1>s, <1>f DEF Search
<1>9. ASSUME NEW t \in Threads, NEW i \in Ids, Upsert(t, i)
      PROVE  TInv'
  <2>1. points' \in [Ids -> Records]
    <3>1. pc[t] \in Writes /\ i \in NewId(t)
      BY <1>9 DEF Upsert, Writes, NewId
    <3> QED BY <1>9, <3>1, WriteType DEF Upsert
  <2>2. CASE Leave(t, TRUE) /\ acked' = acked \cup {i}
    BY <2>1, <2>2, <1>9, <1>s, <1>f, LeaveType DEF Upsert
  <2>3. CASE /\ loc[t].prev # None
             /\ Goto(t, "supersede")
             /\ loc' = [loc EXCEPT ![t].staged = i]
             /\ UNCHANGED <<proc, guard, lock, acked>>
    <3>1. [loc[t] EXCEPT !.staged = i] \in Locals /\ loc[t].prev \in Ids
      BY SMTT(40), <2>3 DEF TInv, TypeOK, Locals, OptId
    <3>2. loc' = [loc EXCEPT ![t] = [loc[t] EXCEPT !.staged = i]]
      BY <2>3 DEF TInv, TypeOK
    <3>a. [loc[t] EXCEPT !.staged = i].staged = i /\ [loc[t] EXCEPT !.staged = i].prev = loc[t].prev
      BY DEF TInv, TypeOK, Locals
    <3>3. ControlType'
      <4> DEFINE r == [loc[t] EXCEPT !.staged = i]
      <4>1. r \in Locals /\ r.staged \in Ids /\ r.prev \in Ids /\ "supersede" \in PCs
        BY <3>1, <3>a DEF PCs
      <4>2. loc' = [loc EXCEPT ![t] = r] /\ Goto(t, "supersede") /\ UNCHANGED <<proc, guard, lock>>
        BY <2>3, <3>2
      <4> HIDE DEF r
      <4> QED BY <4>1, <4>2, GotoType
    <3> QED BY <2>1, <2>3, <3>3, <1>9, <1>s, <1>f DEF Upsert
  <2> QED BY <1>9, <2>2, <2>3 DEF Upsert
<1>10. ASSUME NEW t \in Threads, Supersede(t)
       PROVE  TInv'
  <2>1. CASE Leave(t, FALSE) /\ UNCHANGED points
    BY <2>1, <1>10, <1>s, <1>f, LeaveType DEF Supersede
  <2>2. CASE /\ points' = ApplyCall(points, CallOf(t, None))
             /\ Goto(t, "activate")
             /\ UNCHANGED <<proc, guard, lock, loc>>
    <3>1. pc[t] \in Writes /\ None \in NewId(t)
      BY <1>10 DEF Supersede, Writes, NewId
    <3>2. points' \in [Ids -> Records]
      BY <2>2, <3>1, WriteType
    <3>3. ControlType'
      BY <2>2, <1>10 DEF Supersede, Goto, ControlType, TInv, TypeOK, LocalsOK, InHand, PCs
    <3> QED BY <3>2, <3>3, <1>10, <1>s, <1>f DEF Supersede
  <2> QED BY <1>10, <2>1, <2>2 DEF Supersede
<1>11. ASSUME NEW t \in Threads, Activate(t)
       PROVE  TInv'
  <2>1. pc[t] \in Writes /\ None \in NewId(t)
    BY <1>11 DEF Activate, Writes, NewId
  <2>2. points' \in [Ids -> Records]
    BY <1>11, <2>1, WriteType DEF Activate
  <2>3. loc[t].staged \in Ids
    BY <1>11 DEF Activate, TInv, LocalsOK, InHand
  <2> QED BY <1>11, <2>2, <2>3, <1>s, <1>f, LeaveType DEF Activate
<1>12. ASSUME NEW t \in Threads, RecoverSupersede(t)
       PROVE  TInv'
  <2>1. pc[t] \in Writes /\ None \in NewId(t)
    BY <1>12 DEF RecoverSupersede, Writes, NewId
  <2>2. points' \in [Ids -> Records]
    BY <1>12, <2>1, WriteType DEF RecoverSupersede
  <2>3. ControlType'
    BY <1>12 DEF RecoverSupersede, Goto, ControlType, TInv, TypeOK, LocalsOK, InHand, PCs
  <2> QED BY <1>12, <2>2, <2>3, <1>s, <1>f DEF RecoverSupersede
<1>13. ASSUME NEW t \in Threads, RecoverActivate(t)
       PROVE  TInv'
  <2>1. pc[t] \in Writes /\ None \in NewId(t)
    BY <1>13 DEF RecoverActivate, Writes, NewId
  <2>2. points' \in [Ids -> Records]
    BY <1>13, <2>1, WriteType DEF RecoverActivate
  <2> QED BY <1>13, <2>2, <1>s, <1>f, AfterRecoveryType DEF RecoverActivate
<1>14. ASSUME NEW t \in Threads, EmbedFails(t) \/ CallFails(t)
       PROVE  TInv'
  <2>1. Leave(t, FALSE) /\ UNCHANGED <<points, maint, late, acked, crashes>>
    BY <1>14 DEF EmbedFails, CallFails
  <2>2. faults' \in 0..MaxFaults
    <3>1. CASE EmbedFails(t)
      BY <3>1, <1>f DEF EmbedFails
    <3>2. CASE CallFails(t)
      BY <3>2, <1>f, ConstantsAssumption DEF CallFails
    <3> QED BY <1>14, <3>1, <3>2
  <2> QED BY <2>1, <2>2, <1>s, <1>f, LeaveType
<1>15. ASSUME NEW t \in Threads, NEW i \in OptId, WriteLostAnswer(t, i)
       PROVE  TInv'
  <2>1. points' \in [Ids -> Records]
    BY <1>15, WriteType DEF WriteLostAnswer
  <2>2. faults' \in 0..MaxFaults
    BY <1>15, <1>f, ConstantsAssumption DEF WriteLostAnswer
  <2> QED BY <1>15, <2>1, <2>2, <1>s, <1>f, LeaveType DEF WriteLostAnswer
<1>16. ASSUME NEW t \in Threads, NEW i \in OptId, WriteTimesOut(t, i)
       PROVE  TInv'
  <2>1. late' \subseteq Calls
    BY <1>16, CallOfType DEF WriteTimesOut, TInv, TypeOK
  <2>2. faults' \in 0..MaxFaults
    BY <1>16, <1>f, ConstantsAssumption DEF WriteTimesOut
  <2>3. ControlType'
    BY <1>16, LeaveType DEF WriteTimesOut
  <2> QED BY <1>16, <2>1, <2>2, <2>3 DEF WriteTimesOut, TInv, TypeOK, ControlType, Calls
<1>17. ASSUME NEW w \in late, DeliverLate(w)
       PROVE  TInv'
  <2>1. points' \in [Ids -> Records]
    BY <1>17, ApplyCallType DEF DeliverLate, TInv, TypeOK
  <2> QED BY <1>17, <2>1 DEF DeliverLate, TInv, TypeOK, LocalsOK, Calls
<1>18. ASSUME NEW p \in Procs, Crash(p)
       PROVE  TInv'
  <2>1. ControlType'
    BY <1>18, DefaultTypes, ConstantsAssumption
       DEF Crash, ControlType, TInv, TypeOK, LocalsOK, InHand, PCs
  <2>2. crashes' \in 0..MaxCrashes
    BY <1>18, <1>f, ConstantsAssumption DEF Crash
  <2> QED BY <1>18, <2>1, <2>2, <1>s, <1>f DEF Crash
<1>19. ASSUME RebuildRead
       PROVE  TInv'
  <2>1. maint' \subseteq [id: Ids, evo: {"none", "pending", "committed"}, prev: OptId]
    BY <1>19 DEF RebuildRead, Present, TInv, TypeOK, Records
  <2> QED BY <1>19, <2>1 DEF RebuildRead, TInv, TypeOK, LocalsOK, Calls
<1>20. ASSUME NEW m \in maint, RebuildWrite(m)
       PROVE  TInv'
  <2>0. /\ m.id \in Ids /\ m.evo \in {"none", "pending", "committed"} /\ m.prev \in OptId
        /\ points[m.id] \in Records
    BY DEF TInv, TypeOK
  <2>1. [points[m.id] EXCEPT !.evo = m.evo, !.prev = m.prev] \in Records
    BY <2>0 DEF Records
  <2>2. points' = [points EXCEPT ![m.id] = [points[m.id] EXCEPT !.evo = m.evo, !.prev = m.prev]]
    BY <1>20 DEF RebuildWrite, TInv, TypeOK
  <2>3. points' \in [Ids -> Records]
    BY <2>0, <2>1, <2>2, <1>f
  <2> QED BY <1>20, <2>3 DEF RebuildWrite, TInv, TypeOK, LocalsOK, Calls
<1> QED
  BY <1>st, <1>1, <1>2, <1>3, <1>4, <1>5, <1>6, <1>7, <1>8, <1>9, <1>10, <1>11, <1>12,
     <1>13, <1>14, <1>15, <1>16, <1>17, <1>18, <1>19, <1>20
     DEF Next, Step

\* Type correctness of every behaviour, late writes included: the collection
\* stays a map from ids to well-formed records.
THEOREM TypeCorrect == Spec => []TypeOK
<1>1. TInv => TypeOK
  BY DEF TInv
<1> QED BY <1>1, TypeInit, TypeStep, PTL DEF Spec

(***************************************************************************)
(* At most one active version.                                             *)
(***************************************************************************)
\* The two locks together let one thread at a time work on a key.
LEMMA Mutex == Deployed /\ TInv /\ Locked => Exclusive
<1> SUFFICES ASSUME Deployed, TInv, Locked,
                    NEW t \in Threads, NEW u \in Threads,
                    pc[t] \in Critical, pc[u] \in Critical, loc[t].key = loc[u].key
             PROVE  t = u
  BY DEF Exclusive
<1>1. CASE ProcessLock
  BY <1>1 DEF Locked
<1>2. CASE ~ProcessLock
  <2>1. ProcOf[t] = ProcOf[u]
    BY <1>2 DEF Deployed
  <2>2. LockOf(t) = LockOf(u)
    BY <2>1 DEF LockOf
  <2> QED BY <2>2 DEF Locked
<1> QED BY <1>1, <1>2

\* The other threads do not move.
Others(t) == \A u \in Threads : u # t => pc'[u] = pc[u] /\ loc'[u] = loc[u]

\* A thread that leaves the locks moves no other thread.
LEMMA LeaveFrame ==
  ASSUME TInv, NEW t \in Threads, NEW ok, Leave(t, ok)
  PROVE  Others(t) /\ pc'[t] = "idle"
BY DEF Leave, Others, TInv, TypeOK

\* A thread that leaves the locks keeps the lock discipline of the others.
LEMMA LeaveLocked ==
  ASSUME TInv, Locked, NEW t \in Threads, NEW ok, Leave(t, ok), late' = late
  PROVE  Locked'
<1>1. Others(t) /\ pc'[t] = "idle"
  BY LeaveFrame
<1>2. ASSUME NEW u \in Threads, pc'[u] \in Critical
      PROVE  lock'[LockOf(u)'] = u
  <2>1. u # t /\ LockOf(u)' = LockOf(u) /\ lock[LockOf(u)] = u
    BY <1>1, <1>2 DEF Others, Critical, LockOf, Locked
  <2>2. LockOf(u) \in Procs \X Keys
    BY LockOfType
  <2> QED BY <2>1, <2>2 DEF Leave, ReleaseAll
<1>3. ASSUME ProcessLock, NEW u \in Threads, pc'[u] \in Critical \cup {"lock", "reconcile"}
      PROVE  guard' = u
  <2>1. u # t /\ guard = u
    BY <1>1, <1>3 DEF Others, Critical, Locked
  <2> QED BY <2>1 DEF Leave, ReleaseAll
<1> QED BY <1>2, <1>3 DEF Locked

\* A thread moves on inside its critical section, keeping locks and key.
LEMMA GotoLocked ==
  ASSUME TInv, Locked, NEW t \in Threads, pc[t] \in Critical,
         NEW l \in Critical, Goto(t, l), Others(t),
         loc'[t].key = loc[t].key, UNCHANGED <<guard, lock, late>>
  PROVE  Locked'
<1>1. pc'[t] = l
  BY DEF Goto, TInv, TypeOK
<1>2. ASSUME NEW u \in Threads, pc'[u] \in Critical
      PROVE  lock'[LockOf(u)'] = u
  <2>1. pc[u] \in Critical /\ loc'[u].key = loc[u].key
    BY <1>1, <1>2 DEF Others
  <2> QED BY <2>1 DEF Locked, LockOf
<1>3. ASSUME ProcessLock, NEW u \in Threads, pc'[u] \in Critical \cup {"lock", "reconcile"}
      PROVE  guard' = u
  BY <1>1, <1>3 DEF Others, Locked
<1> QED BY <1>2, <1>3 DEF Locked

\* A thread that goes on after a recovery moves no other thread.
LEMMA AfterRecoveryFrame ==
  ASSUME TInv, NEW t \in Threads, AfterRecovery(t)
  PROVE  Others(t) /\ pc'[t] \in {"idle", "lock", "search"}
         /\ (pc'[t] = "search" => loc'[t] = loc[t])
<1>1. CASE Leave(t, TRUE)
  BY <1>1, LeaveFrame
<1>2. CASE Goto(t, "search") /\ UNCHANGED loc
  BY <1>2 DEF Goto, Others, TInv, TypeOK
<1>3. CASE Goto(t, "lock") /\ \E k \in loc[t].todo :
              loc' = [loc EXCEPT ![t].key = k, ![t].todo = @ \ {k}]
  BY <1>3 DEF Goto, Others, TInv, TypeOK
<1> QED BY <1>1, <1>2, <1>3 DEF AfterRecovery

\* A thread that goes on after a recovery keeps the lock discipline.
LEMMA AfterRecoveryLocked ==
  ASSUME Deployed, TInv, Locked, NEW t \in Threads, pc[t] \in Critical,
         AfterRecovery(t), late' = late
  PROVE  Locked'
<1>0. Others(t)
  BY AfterRecoveryFrame
<1>1. CASE Leave(t, TRUE)
  BY <1>1, LeaveLocked
<1>2. CASE Goto(t, "search") /\ UNCHANGED <<proc, guard, lock, loc>>
  <2>1. "search" \in Critical /\ loc'[t].key = loc[t].key /\ UNCHANGED <<guard, lock, late>>
    BY <1>2 DEF Critical
  <2> QED BY <1>0, <1>2, <2>1, GotoLocked
<1>3. CASE /\ Goto(t, "lock")
           /\ lock' = [lock EXCEPT ![LockOf(t)] = None]
           /\ UNCHANGED <<proc, guard>>
  <2>1. pc'[t] = "lock"
    BY <1>3 DEF Goto, TInv, TypeOK
  <2>2. ASSUME NEW u \in Threads, pc'[u] \in Critical
        PROVE  lock'[LockOf(u)'] = u
    <3>1. u # t
      BY <2>1, <2>2 DEF Critical
    <3>2. pc[u] \in Critical /\ LockOf(u)' = LockOf(u) /\ lock[LockOf(u)] = u
      BY <1>0, <3>1, <2>2 DEF Others, LockOf, Locked
    <3>3. lock[LockOf(t)] = t
      BY DEF Locked
    <3>4. LockOf(u) \in Procs \X Keys /\ LockOf(u) # LockOf(t)
      BY <3>1, <3>2, <3>3, LockOfType
    <3> QED BY <1>3, <3>2, <3>4 DEF TInv, TypeOK
  <2>3. ASSUME ProcessLock, NEW u \in Threads, pc'[u] \in Critical \cup {"lock", "reconcile"}
        PROVE  guard' = u
    BY <1>0, <1>3, <2>3 DEF Others, Locked
  <2> QED BY <2>2, <2>3 DEF Locked
<1> QED BY <1>1, <1>2, <1>3 DEF AfterRecovery

\* Nothing is written and only t moves.
LEMMA SamePoints ==
  ASSUME PointsOK, ThreadsOK, NEW t \in Threads, Others(t), UNCHANGED <<points, maint>>,
         ThreadOK(t)'
  PROVE  PointsOK' /\ ThreadsOK'
<1>1. PointsOK'
  BY DEF PointsOK, StagedOK, OneStaged, ActiveOpen, OneHead, RebuildOK, Head, Staged, Prev
<1>2. ASSUME NEW u \in Threads, u # t PROVE ThreadOK(u)'
  BY <1>2 DEF Others, ThreadsOK, ThreadOK, AtSearch, AtUpsert, AtStaged, AtSupersede, AtActivate,
              Staged
<1> QED BY <1>1, <1>2 DEF ThreadsOK

\* A thread outside its critical section owes the records nothing.
LEMMA Gone ==
  ASSUME NEW t \in Threads, pc'[t] \notin InHand \cup {"search", "upsert"}
  PROVE  ThreadOK(t)'
BY DEF ThreadOK, AtSearch, AtUpsert, AtStaged, AtSupersede, AtActivate, InHand

\* The write that supersedes the predecessor makes the staged version the head.
LEMMA SupersedeEffect ==
  ASSUME TInv, Exclusive, PointsOK, ThreadsOK,
         NEW t \in Threads, pc[t] \in {"supersede", "r_supersede"},
         points' = ApplyCall(points, CallOf(t, None)),
         maint' = maint, Others(t)
  PROVE  /\ PointsOK'
         /\ \A u \in Threads : u # t => ThreadOK(u)'
         /\ points'[loc[t].staged] = points[loc[t].staged]
         /\ points'[loc[t].prev].status = "superseded"
<1> DEFINE p == loc[t].prev
           s == loc[t].staged
<1>1. p \in Ids /\ s \in Ids
  BY DEF TInv, LocalsOK, InHand
<1>2. /\ points[p].status = "active" /\ Staged(s) /\ points[s].prev = p
      /\ points[s].key = loc[t].key
  BY DEF ThreadsOK, ThreadOK, AtSupersede, AtStaged, InHand
<1>3. points[p].key = loc[t].key
  BY <1>1, <1>2 DEF PointsOK, StagedOK, Prev
<1>4. points' = [points EXCEPT ![p].status = "superseded", ![p].next = s]
  BY <1>1, <1>2 DEF CallOf, ApplyCall, SetPayload, SupersedeCall
<1> HIDE DEF p, s
<1>5. /\ points'[p].status = "superseded" /\ points'[p].next = s
      /\ points'[p].key = points[p].key
  BY <1>1, <1>4 DEF TInv, TypeOK, Records
<1>6. \A i \in Ids : i # p => points'[i] = points[i]
  BY <1>1, <1>4 DEF TInv, TypeOK
<1>7. p # s
  BY <1>2 DEF Staged
<1>8. \A i \in Ids : points'[i].key = points[i].key
  BY <1>5, <1>6
<1>9. \A i \in Ids : Staged(i)' <=> Staged(i)
  BY <1>2, <1>5, <1>6 DEF Staged
<1>10. StagedOK'
  <2> SUFFICES ASSUME NEW i \in Ids, Staged(i)'
               PROVE  /\ points'[i].evo = "pending" /\ points'[i].prev \in Ids
                      /\ points'[i].next = None
                      /\ points'[points'[i].prev].key = points'[i].key
                      /\ \/ points'[points'[i].prev].status = "active"
                         \/ points'[points'[i].prev].status = "superseded"
                            /\ points'[points'[i].prev].next = i
    BY DEF StagedOK, Prev
  <2>1. Staged(i) /\ i # p /\ points'[i] = points[i]
    BY <1>2, <1>6, <1>9 DEF Staged
  <2>2. CASE points[i].prev = p
    <3>1. i = s
      BY <1>1, <1>2, <1>3, <2>1, <2>2 DEF PointsOK, StagedOK, OneStaged, Prev
    <3> QED BY <1>5, <2>1, <2>2, <3>1 DEF PointsOK, StagedOK, Prev
  <2>3. CASE points[i].prev # p
    BY <1>6, <2>1, <2>3 DEF PointsOK, StagedOK, Prev
  <2> QED BY <2>2, <2>3
<1>11. OneStaged'
  BY <1>8, <1>9 DEF PointsOK, OneStaged
<1>12. ActiveOpen'
  BY <1>5, <1>6 DEF PointsOK, ActiveOpen
<1>13. OneHead'
  <2> SUFFICES ASSUME NEW i \in Ids, NEW j \in Ids, Head(i)', Head(j)',
                      points'[i].key = points'[j].key
               PROVE  i = j
    BY DEF OneHead
  <2>1. ASSUME NEW k \in Ids, Head(k)'
        PROVE  k = s \/ (Head(k) /\ k # p)
    <3>1. k # p
      BY <1>5, <2>1 DEF Head, Staged
    <3>2. CASE points[k].status = "active"
      BY <3>1, <3>2 DEF Head
    <3>3. CASE Staged(k) /\ points[k].prev = p
      BY <1>1, <1>2, <1>3, <3>3 DEF PointsOK, StagedOK, OneStaged, Prev
    <3>4. CASE Staged(k) /\ points[k].prev # p
      <4>1. points'[k] = points[k] /\ points[k].prev \in Ids
        BY <1>6, <3>1, <3>4 DEF PointsOK, StagedOK
      <4>2. Prev(k)' = Prev(k)
        BY <1>6, <3>4, <4>1 DEF Prev
      <4> QED BY <2>1, <3>1, <3>4, <4>1, <4>2 DEF Head, Staged
    <3> QED BY <1>6, <2>1, <3>1, <3>2, <3>3, <3>4 DEF Head, Staged
  <2>2. ASSUME NEW k \in Ids, Head(k), k # p, points[k].key = points[s].key
        PROVE  FALSE
    BY <1>1, <1>2, <1>3, <2>2 DEF PointsOK, OneHead, Head
  <2> QED BY <1>1, <1>8, <2>1, <2>2 DEF PointsOK, OneHead
<1>14. RebuildOK'
  <2>1. \A m \in maint : m.id \in Ids
    BY DEF TInv, TypeOK
  <2> QED BY <1>2, <1>5, <1>6, <1>9, <2>1 DEF PointsOK, RebuildOK, Staged
<1>15. ASSUME NEW u \in Threads, u # t PROVE ThreadOK(u)'
  <2>0. pc'[u] = pc[u] /\ loc'[u] = loc[u] /\ ThreadOK(u)
    BY <1>15 DEF Others, ThreadsOK
  <2>1. pc[u] \in Critical => loc[u].key # loc[t].key
    BY <1>15 DEF Exclusive, Critical
  <2>2. AtSearch(u)'
    BY <1>8, <1>9, <2>0 DEF ThreadOK, AtSearch
  <2>3. AtUpsert(u)'
    <3>1. loc[u].prev \in OptId
      BY DEF TInv, TypeOK, Locals
    <3> QED BY <1>3, <1>5, <1>6, <1>8, <2>0, <2>1, <3>1 DEF ThreadOK, AtUpsert, Critical, OptId
  <2>4. pc[u] \in InHand => loc[u].staged \in Ids /\ loc[u].prev \in Ids
    BY DEF TInv, LocalsOK
  <2>5. AtStaged(u)'
    BY <1>2, <1>6, <1>9, <2>0, <2>4 DEF ThreadOK, AtStaged, Staged
  <2>6. pc[u] \in InHand => loc[u].prev # p
    <3>1. pc[u] \in InHand => points[loc[u].prev].key = loc[u].key
      BY <2>0, <2>4 DEF ThreadOK, AtStaged, PointsOK, StagedOK, Prev
    <3> QED BY <1>3, <2>1, <3>1 DEF InHand, Critical
  <2>7. AtSupersede(u)' /\ AtActivate(u)'
    BY <1>6, <2>0, <2>4, <2>6 DEF ThreadOK, AtSupersede, AtActivate, InHand
  <2> QED BY <2>2, <2>3, <2>5, <2>7 DEF ThreadOK
<1> QED
  BY <1>1, <1>5, <1>6, <1>7, <1>10, <1>11, <1>12, <1>13, <1>14, <1>15 DEF PointsOK, p, s

\* Activation publishes a version that was already the only head.
LEMMA ActivateEffect ==
  ASSUME TInv, Exclusive, PointsOK, ThreadsOK,
         NEW t \in Threads, pc[t] \in {"activate", "r_activate"},
         points' = ApplyCall(points, CallOf(t, None)),
         maint' = maint, Others(t)
  PROVE  /\ PointsOK'
         /\ \A u \in Threads : u # t => ThreadOK(u)'
         /\ \A i \in Ids : Staged(i)' => Staged(i) /\ points'[i].key # loc[t].key
<1> DEFINE s == loc[t].staged
<1>1. s \in Ids
  BY DEF TInv, LocalsOK, InHand
<1>2. Staged(s) /\ points[s].key = loc[t].key /\ Head(s)
  BY DEF ThreadsOK, ThreadOK, AtActivate, AtStaged, InHand, Head, Prev
<1>4. points' = [points EXCEPT ![s].status = "active", ![s].evo = "committed", ![s].prev = None]
  BY <1>1, <1>2 DEF CallOf, ApplyCall, SetPayload, ActivateCall, Staged
<1> HIDE DEF s
<1>5. /\ points'[s].status = "active" /\ points'[s].next = points[s].next
      /\ points'[s].key = points[s].key
  BY <1>1, <1>4 DEF TInv, TypeOK, Records
<1>6. \A i \in Ids : i # s => points'[i] = points[i]
  BY <1>1, <1>4 DEF TInv, TypeOK
<1>8. \A i \in Ids : points'[i].key = points[i].key
  BY <1>5, <1>6
<1>9. \A i \in Ids : Staged(i)' <=> Staged(i) /\ i # s
  BY <1>5, <1>6 DEF Staged
<1>p. \A i \in Ids : Staged(i) => points[i].prev \in Ids /\ points[i].prev # s
  BY <1>2 DEF PointsOK, StagedOK, Prev, Staged
<1>10. StagedOK'
  BY <1>6, <1>9, <1>p DEF PointsOK, StagedOK, Prev
<1>11. OneStaged'
  BY <1>8, <1>9 DEF PointsOK, OneStaged
<1>12. ActiveOpen'
  BY <1>1, <1>2, <1>5, <1>6 DEF PointsOK, ActiveOpen, StagedOK
<1>13. OneHead'
  <2>1. \A i \in Ids : Head(i)' => Head(i)
    BY <1>2, <1>6, <1>9, <1>p DEF Head, Prev
  <2> QED BY <1>8, <2>1 DEF PointsOK, OneHead
<1>14. RebuildOK'
  <2>1. \A m \in maint : m.id \in Ids
    BY DEF TInv, TypeOK
  <2> QED BY <1>5, <1>6, <1>9, <2>1 DEF PointsOK, RebuildOK
<1>15. ASSUME NEW u \in Threads, u # t PROVE ThreadOK(u)'
  <2>0. pc'[u] = pc[u] /\ loc'[u] = loc[u] /\ ThreadOK(u)
    BY <1>15 DEF Others, ThreadsOK
  <2>1. pc[u] \in Critical => loc[u].key # loc[t].key
    BY <1>15 DEF Exclusive, Critical
  <2>2. AtSearch(u)'
    BY <1>8, <1>9, <2>0 DEF ThreadOK, AtSearch
  <2>3. AtUpsert(u)'
    <3>1. loc[u].prev \in OptId
      BY DEF TInv, TypeOK, Locals
    <3>2. CASE pc[u] = "upsert" /\ loc[u].prev = None
      BY <1>2, <1>6, <1>8, <2>0, <2>1, <3>2 DEF ThreadOK, AtUpsert, Critical
    <3>3. CASE pc[u] = "upsert" /\ loc[u].prev # None
      BY <1>2, <1>6, <2>0, <3>1, <3>3 DEF ThreadOK, AtUpsert, Staged, OptId
    <3> QED BY <2>0, <3>2, <3>3 DEF AtUpsert
  <2>4. pc[u] \in InHand => loc[u].staged \in Ids /\ loc[u].prev \in Ids
    BY DEF TInv, LocalsOK
  <2>5. AtStaged(u)'
    BY <1>2, <1>6, <1>9, <2>0, <2>1, <2>4 DEF ThreadOK, AtStaged, InHand, Critical
  <2>7. AtSupersede(u)' /\ AtActivate(u)'
    BY <1>2, <1>6, <2>0, <2>4 DEF ThreadOK, AtSupersede, AtActivate, InHand, Staged
  <2> QED BY <2>2, <2>3, <2>5, <2>7 DEF ThreadOK
<1>16. \A i \in Ids : Staged(i)' => Staged(i) /\ points'[i].key # loc[t].key
  BY <1>1, <1>2, <1>8, <1>9 DEF PointsOK, OneStaged
<1> QED BY <1>10, <1>11, <1>12, <1>13, <1>14, <1>15, <1>16 DEF PointsOK

\* The upsert adds a fresh record: the only head of a new identity, or a staged
\* version behind the active one.
LEMMA UpsertEffect ==
  ASSUME TInv, Exclusive, PointsOK, ThreadsOK,
         NEW t \in Threads, pc[t] = "upsert", NEW i \in FreshIds,
         points' = ApplyCall(points, CallOf(t, i)),
         maint' = maint, Others(t)
  PROVE  /\ PointsOK'
         /\ \A u \in Threads : u # t => ThreadOK(u)'
         /\ loc[t].prev # None =>
              /\ points'[i].status = "deprecated" /\ points'[i].key = loc[t].key
              /\ points'[i].prev = loc[t].prev
              /\ points'[loc[t].prev].status = "active"
<1> DEFINE p == loc[t].prev
           k == loc[t].key
<1>1. i \in Ids /\ points[i].status = "absent"
  BY DEF FreshIds
<1>2. points' = [points EXCEPT ![i] = NewRecord(t)]
  BY DEF CallOf, ApplyCall, UpsertCall
<1>3. \A j \in Ids : j # i => points'[j] = points[j]
  BY <1>1, <1>2 DEF TInv, TypeOK
<1>4. points'[i] = NewRecord(t)
  BY <1>1, <1>2 DEF TInv, TypeOK
<1>5. /\ points'[i].key = k /\ points'[i].next = None /\ points'[i].prev = p
      /\ p = None => points'[i].status = "active"
      /\ p # None => points'[i].status = "deprecated" /\ points'[i].evo = "pending"
  BY <1>4 DEF NewRecord
<1>6. /\ \A j \in Ids : Staged(j) => points[j].key # k
      /\ p = None => \A j \in Ids : points[j].status = "active" => points[j].key # k
      /\ p # None => points[p].status = "active" /\ points[p].key = k /\ p \in Ids /\ p # i
  BY <1>1 DEF ThreadsOK, ThreadOK, AtSearch, AtUpsert, TInv, TypeOK, Locals, OptId
<1> HIDE DEF p, k
<1>7. \A j \in Ids : Staged(j) => points[j].prev \in Ids /\ points[j].prev # i /\ j # i
  BY <1>1 DEF PointsOK, StagedOK, Prev, Staged
<1>8. \A j \in Ids : j # i => (Staged(j)' <=> Staged(j)) /\ (Head(j)' <=> Head(j))
  BY <1>3, <1>7 DEF Head, Staged, Prev
<1>9. p # None => points'[p] = points[p]
  BY <1>3, <1>6
<1>10. StagedOK'
  <2>1. ASSUME NEW j \in Ids, Staged(j)', j # i
        PROVE  /\ points'[j].evo = "pending" /\ points'[j].prev \in Ids /\ points'[j].next = None
               /\ Prev(j)'.key = points'[j].key
               /\ \/ Prev(j)'.status = "active"
                  \/ Prev(j)'.status = "superseded" /\ Prev(j)'.next = j
    BY <1>3, <1>7, <1>8, <2>1 DEF PointsOK, StagedOK, Prev
  <2>2. ASSUME Staged(i)'
        PROVE  /\ points'[i].evo = "pending" /\ points'[i].prev \in Ids /\ points'[i].next = None
               /\ Prev(i)'.key = points'[i].key
               /\ Prev(i)'.status = "active"
    BY <1>5, <1>6, <1>9, <2>2 DEF Staged, Prev
  <2> QED BY <2>1, <2>2 DEF StagedOK
<1>11. OneStaged'
  BY <1>3, <1>5, <1>6, <1>8 DEF PointsOK, OneStaged
<1>12. ActiveOpen'
  BY <1>3, <1>5 DEF PointsOK, ActiveOpen
<1>13. OneHead'
  <2>1. ASSUME NEW j \in Ids, Head(j), j # i, points'[j].key = k, Head(i)'
        PROVE  FALSE
    <3>1. CASE p = None
      BY <1>3, <1>6, <2>1, <3>1 DEF Head
    <3>2. CASE p # None
      BY <1>5, <1>6, <1>9, <2>1, <3>2 DEF Head, Staged, Prev
    <3> QED BY <3>1, <3>2
  <2> QED BY <1>3, <1>5, <1>8, <2>1 DEF PointsOK, OneHead
<1>14. RebuildOK'
  <2>1. \A m \in maint : m.id \in Ids /\ m.id # i
    BY <1>1 DEF TInv, TypeOK, PointsOK, RebuildOK
  <2> QED BY <1>3, <1>8, <2>1 DEF PointsOK, RebuildOK
<1>15. ASSUME NEW u \in Threads, u # t PROVE ThreadOK(u)'
  <2>0. pc'[u] = pc[u] /\ loc'[u] = loc[u] /\ ThreadOK(u)
    BY <1>15 DEF Others, ThreadsOK
  <2>1. pc[u] \in Critical => loc[u].key # k
    BY <1>15 DEF Exclusive, Critical, k
  <2>2. AtSearch(u)'
    BY <1>3, <1>5, <1>8, <2>0, <2>1 DEF ThreadOK, AtSearch, Critical
  <2>3. AtUpsert(u)'
    <3>1. loc[u].prev \in OptId
      BY DEF TInv, TypeOK, Locals
    <3>2. CASE pc[u] = "upsert" /\ loc[u].prev = None
      BY <1>3, <1>5, <2>0, <2>1, <3>2 DEF ThreadOK, AtUpsert, Critical
    <3>3. CASE pc[u] = "upsert" /\ loc[u].prev # None
      BY <1>1, <1>3, <2>0, <3>1, <3>3 DEF ThreadOK, AtUpsert, OptId
    <3> QED BY <2>0, <3>2, <3>3 DEF AtUpsert
  <2>4. pc[u] \in InHand => loc[u].staged \in Ids /\ loc[u].prev \in Ids
    BY DEF TInv, LocalsOK
  <2>5. AtStaged(u)'
    BY <1>1, <1>3, <1>8, <2>0, <2>4 DEF ThreadOK, AtStaged, Staged
  <2>7. AtSupersede(u)' /\ AtActivate(u)'
    BY <1>1, <1>3, <2>0, <2>4 DEF ThreadOK, AtSupersede, AtActivate, InHand
  <2> QED BY <2>2, <2>3, <2>5, <2>7 DEF ThreadOK
<1> QED
  BY <1>5, <1>6, <1>9, <1>10, <1>11, <1>12, <1>13, <1>14, <1>15 DEF PointsOK, p, k

\* With no more contexts than SearchLimit the lookup misses nothing.
LEMMA SearchComplete ==
  ASSUME Deployed, TInv, OneHead, NEW e, NEW hits \in SearchHits(e)
  PROVE  hits = {i \in Ids : points[i].status = "active" /\ points[i].key[1] = e}
<1> DEFINE M == {i \in Ids : points[i].status = "active" /\ points[i].key[1] = e}
           f == [i \in M |-> points[i].key[2]]
<1>1. IsFiniteSet(M) /\ IsFiniteSet(Contexts)
  BY ConstantsAssumption, FS_Subset
<1>2. Cardinality(M) \in Nat /\ Cardinality(Contexts) \in Nat
  BY <1>1, FS_CardinalityType
<1>3. \A i \in M : points[i].key \in Keys
  BY DEF TInv, TypeOK, Records
<1>4. f \in [M -> Contexts]
  BY <1>3 DEF Keys
<1>5. \A i, j \in M : f[i] = f[j] => i = j
  <2> SUFFICES ASSUME NEW i \in M, NEW j \in M, points[i].key[2] = points[j].key[2]
               PROVE  i = j
    OBVIOUS
  <2>1. points[i].key = points[j].key
    BY <1>3 DEF Keys
  <2> QED BY <2>1 DEF OneHead, Head
<1> HIDE DEF f
<1>6. ~(Cardinality(Contexts) < Cardinality(M))
  BY <1>1, <1>4, <1>5, FS_PigeonHole
<1>7. Cardinality(M) <= SearchLimit
  BY <1>2, <1>6, ConstantsAssumption DEF Deployed
<1> QED BY <1>7 DEF SearchHits

\* The initial state satisfies the lock discipline and the record invariant.
LEMMA SafetyInit == Init => Locked /\ PointsOK /\ ThreadsOK
<1> SUFFICES ASSUME Init PROVE Locked /\ PointsOK /\ ThreadsOK
  OBVIOUS
<1>1. \A i \in Ids : points[i].status = "absent"
  BY DEF Init, Absent
<1>2. PointsOK
  BY <1>1 DEF Init, PointsOK, StagedOK, OneStaged, ActiveOpen, OneHead, RebuildOK, Head, Staged
<1>3. \A t \in Threads : pc[t] = "idle"
  BY DEF Init
<1>4. ThreadsOK
  BY <1>3 DEF ThreadsOK, ThreadOK, AtSearch, AtUpsert, AtStaged, AtSupersede, AtActivate, InHand
<1>5. Locked
  BY <1>3 DEF Init, Locked, Critical
<1> QED BY <1>2, <1>4, <1>5

\* Every write, whether its answer arrives or not, keeps the records and the
\* other threads in order.
LEMMA WriteEffect ==
  ASSUME TInv, Exclusive, PointsOK, ThreadsOK,
         NEW t \in Threads, pc[t] \in Writes, NEW i \in NewId(t),
         points' = ApplyCall(points, CallOf(t, i)), maint' = maint, Others(t)
  PROVE  PointsOK' /\ \A u \in Threads : u # t => ThreadOK(u)'
<1>1. CASE pc[t] = "upsert"
  BY <1>1, UpsertEffect DEF NewId
<1>2. CASE pc[t] \in {"supersede", "r_supersede"}
  <2>1. i = None
    BY <1>2 DEF NewId
  <2> QED BY <1>2, <2>1, SupersedeEffect
<1>3. CASE pc[t] \in {"activate", "r_activate"}
  <2>1. i = None
    BY <1>3 DEF NewId
  <2> QED BY <1>3, <2>1, ActivateEffect
<1> QED BY <1>1, <1>2, <1>3 DEF Writes

SInv == Locked /\ PointsOK /\ ThreadsOK

\* Every step keeps the lock discipline and the record invariant.
LEMMA SafetyStep ==
  ASSUME Deployed, TInv, SInv, Next
  PROVE  SInv'
<1> USE DEF SInv
<1>e. Exclusive
  BY Mutex
<1>l. late = {}
  BY DEF Locked
<1>q. ASSUME NEW t \in Threads, NEW ok, Leave(t, ok), UNCHANGED <<points, maint, late>>
      PROVE  SInv'
  \* leaving without a write
  <2>1. Others(t) /\ pc'[t] = "idle"
    BY <1>q, LeaveFrame
  <2>2. ThreadOK(t)'
    BY <2>1, Gone DEF InHand
  <2> QED BY <1>q, <2>1, <2>2, SamePoints, LeaveLocked
<1>w. ASSUME NEW t \in Threads, NEW ok, Leave(t, ok), UNCHANGED <<maint, late>>,
             pc[t] \in Writes, NEW i \in NewId(t), points' = ApplyCall(points, CallOf(t, i))
      PROVE  SInv'
  \* leaving after a write
  <2>1. Others(t) /\ pc'[t] = "idle"
    BY <1>w, LeaveFrame
  <2>2. ThreadOK(t)'
    BY <2>1, Gone DEF InHand
  <2>3. PointsOK' /\ \A u \in Threads : u # t => ThreadOK(u)'
    BY <1>w, <1>e, <2>1, WriteEffect
  <2> QED BY <1>w, <2>2, <2>3, LeaveLocked DEF ThreadsOK
<1>1. ASSUME NEW t \in Threads, NEW k \in Keys, StoreAny(t, k)
      PROVE  SInv'
  <2>1. PICK c \in Contents, f \in ForceInputs, x \in OptId : StoreBegin(t, k, c, f, x)
    BY <1>1 DEF StoreAny
  <2>2. Others(t) /\ pc'[t] = "guard"
    BY <2>1 DEF StoreBegin, Goto, Others, TInv, TypeOK
  <2>3. Locked'
    BY <2>1, <2>2 DEF StoreBegin, Others, Locked, Critical, LockOf
  <2>4. ThreadOK(t)'
    BY <2>2, Gone DEF InHand
  <2> QED BY <2>1, <2>2, <2>3, <2>4, SamePoints DEF StoreBegin
<1>2. ASSUME NEW t \in Threads, Restart(t)
      PROVE  SInv'
  <2>2. Others(t) /\ pc'[t] = "guard"
    BY <1>2 DEF Restart, Goto, Others, TInv, TypeOK
  <2>3. Locked'
    BY <1>2, <2>2 DEF Restart, Others, Locked, Critical, LockOf
  <2>4. ThreadOK(t)'
    BY <2>2, Gone DEF InHand
  <2> QED BY <1>2, <2>2, <2>3, <2>4, SamePoints DEF Restart
<1>3. ASSUME NEW t \in Threads, AcquireGuard(t)
      PROVE  SInv'
  <2>2. Others(t) /\ pc'[t] \in {"lock", "reconcile"} /\ UNCHANGED <<loc, lock, late>>
    BY <1>3 DEF AcquireGuard, Goto, Others, TInv, TypeOK
  <2>3. ASSUME NEW u \in Threads, pc'[u] \in Critical
        PROVE  lock'[LockOf(u)'] = u
    BY <2>2, <2>3 DEF Others, Locked, Critical, LockOf
  <2>5. ASSUME ProcessLock, NEW u \in Threads, pc'[u] \in Critical \cup {"lock", "reconcile"}
        PROVE  guard' = u
    <3>1. guard = None /\ guard' = t
      BY <1>3, <2>5 DEF AcquireGuard
    <3>2. u = t
      BY <2>2, <2>5, <3>1, ConstantsAssumption DEF Others, Locked
    <3> QED BY <3>1, <3>2
  <2>6. Locked'
    BY <2>2, <2>3, <2>5 DEF Locked
  <2>4. ThreadOK(t)'
    BY <2>2, Gone DEF InHand
  <2> QED BY <1>3, <2>2, <2>6, <2>4, SamePoints DEF AcquireGuard
<1>4. ASSUME NEW t \in Threads, AcquireLock(t)
      PROVE  SInv'
  <2>2. Others(t) /\ pc'[t] = "recover" /\ UNCHANGED <<loc, guard, late>>
    BY <1>4 DEF AcquireLock, Goto, Others, TInv, TypeOK
  <2>3. ASSUME NEW u \in Threads, pc'[u] \in Critical
        PROVE  lock'[LockOf(u)'] = u
    <3>1. LockOf(t) \in Procs \X Keys /\ LockOf(u) \in Procs \X Keys
      BY LockOfType
    <3>2. CASE u = t
      BY <1>4, <2>2, <3>1, <3>2 DEF AcquireLock, LockOf, TInv, TypeOK
    <3>3. CASE u # t
      <4>1. lock[LockOf(u)] = u
        BY <2>2, <2>3, <3>3 DEF Others, Locked
      <4>2. LockOf(u) # LockOf(t)
        BY <1>4, <4>1, ConstantsAssumption DEF AcquireLock
      <4> QED BY <1>4, <2>2, <3>1, <4>1, <4>2 DEF AcquireLock, LockOf, TInv, TypeOK
    <3> QED BY <3>2, <3>3
  <2>5. ASSUME ProcessLock, NEW u \in Threads, pc'[u] \in Critical \cup {"lock", "reconcile"}
        PROVE  guard' = u
    BY <1>4, <2>2, <2>5 DEF AcquireLock, Others, Locked
  <2>6. Locked'
    BY <2>2, <2>3, <2>5 DEF Locked
  <2>4. ThreadOK(t)'
    BY <2>2, Gone DEF InHand
  <2> QED BY <1>4, <2>2, <2>6, <2>4, SamePoints DEF AcquireLock
<1>5. ASSUME NEW t \in Threads, ReconcileScan(t)
      PROVE  SInv'
  <2>1. CASE \E ok : Leave(t, ok)
    BY <1>5, <2>1, <1>q DEF ReconcileScan
  <2>2. CASE ~\E ok : Leave(t, ok)
    <3>1. /\ Goto(t, "lock") /\ UNCHANGED <<guard, lock, late, points, maint>>
          /\ \E k \in Keys : \E K : loc' = [loc EXCEPT ![t].key = k, ![t].todo = K]
      <4> DEFINE pending == {i \in Ids : points[i].status = "deprecated"
                                           /\ points[i].evo = "pending"}
                 keys == {<<Trimmed[points[i].key[1]], points[i].key[2]>> : i \in pending}
      <4>1. keys \subseteq Keys
        BY ConstantsAssumption DEF TInv, TypeOK, Records, Keys
      <4>2. /\ \E k \in keys : loc' = [loc EXCEPT ![t].key = k, ![t].todo = keys \ {k}]
            /\ Goto(t, "lock") /\ UNCHANGED <<guard, lock>>
        BY <1>5, <2>2 DEF ReconcileScan
      <4>3. UNCHANGED <<late, points, maint>>
        BY <1>5 DEF ReconcileScan
      <4> HIDE DEF keys
      <4> QED BY <4>1, <4>2, <4>3
    <3>2. Others(t) /\ pc'[t] = "lock" /\ pc[t] = "reconcile"
      BY <1>5, <3>1 DEF ReconcileScan, Goto, Others, TInv, TypeOK
    <3>3. Locked'
      BY <3>1, <3>2 DEF Others, Locked, Critical, LockOf
    <3>4. ThreadOK(t)'
      BY <3>2, Gone DEF InHand
    <3> QED BY <3>1, <3>2, <3>3, <3>4, SamePoints
  <2> QED BY <2>1, <2>2
<1>6. ASSUME NEW t \in Threads, RecoverScan(t)
      PROVE  SInv'
  <2>0. pc[t] = "recover" /\ pc[t] \in Critical /\ UNCHANGED <<points, maint, late>>
    BY <1>6 DEF RecoverScan, Critical
  <2>1. CASE Leave(t, FALSE)
    BY <2>0, <2>1, <1>q
  <2>2. CASE PendingOf(loc[t].key) = {} /\ AfterRecovery(t)
    <3>1. Others(t) /\ pc'[t] \in {"idle", "lock", "search"}
          /\ (pc'[t] = "search" => loc'[t] = loc[t])
      BY <2>2, AfterRecoveryFrame
    <3>2. \A i \in Ids : Staged(i) => points[i].key # loc[t].key
      BY <2>2 DEF PendingOf, PointsOK, StagedOK, Staged
    <3>3. ThreadOK(t)'
      BY <2>0, <3>1, <3>2
         DEF ThreadOK, AtSearch, AtUpsert, AtStaged, AtSupersede, AtActivate, InHand, Staged
    <3>4. Locked'
      BY <2>0, <2>2, AfterRecoveryLocked
    <3> QED BY <2>0, <3>1, <3>3, <3>4, SamePoints
  <2>3. CASE \E s \in PendingOf(loc[t].key) :
                 /\ Goto(t, "retrieve")
                 /\ loc' = [loc EXCEPT ![t].staged = s, ![t].prev = points[s].prev]
                 /\ UNCHANGED <<proc, guard, lock>>
    <3>1. PICK s \in Ids :
                 /\ Staged(s) /\ points[s].key = loc[t].key
                 /\ Goto(t, "retrieve")
                 /\ loc' = [loc EXCEPT ![t].staged = s, ![t].prev = points[s].prev]
                 /\ UNCHANGED <<proc, guard, lock>>
      BY <2>3 DEF PendingOf, Staged
    <3>2. Others(t) /\ pc'[t] = "retrieve"
      BY <3>1 DEF Goto, Others, TInv, TypeOK
    <3>3. loc'[t].staged = s /\ loc'[t].prev = points[s].prev /\ loc'[t].key = loc[t].key
      BY <3>1 DEF TInv, TypeOK, Locals
    <3>4. ThreadOK(t)'
      BY <2>0, <3>1, <3>2, <3>3
         DEF ThreadOK, AtSearch, AtUpsert, AtStaged, AtSupersede, AtActivate, Staged
    <3>5. "retrieve" \in Critical
      BY DEF Critical
    <3>6. Locked'
      BY <2>0, <3>1, <3>2, <3>3, <3>5, GotoLocked
    <3> QED BY <2>0, <3>2, <3>4, <3>6, SamePoints
  <2> QED BY <1>6, <2>1, <2>2, <2>3 DEF RecoverScan
<1>7. ASSUME NEW t \in Threads, RecoverRetrieve(t)
      PROVE  SInv'
  <2>0. pc[t] = "retrieve" /\ pc[t] \in Critical /\ UNCHANGED <<points, maint, late>>
    BY <1>7 DEF RecoverRetrieve, Critical
  <2>1. CASE Leave(t, FALSE)
    BY <2>0, <2>1, <1>q
  <2>2. CASE \E l \in {"r_supersede", "r_activate"} :
               /\ points[loc[t].prev].status =
                    (IF l = "r_supersede" THEN "active" ELSE "superseded")
               /\ Goto(t, l) /\ UNCHANGED <<proc, guard, lock, loc>>
    <3>1. PICK l \in {"r_supersede", "r_activate"} :
               /\ points[loc[t].prev].status =
                    (IF l = "r_supersede" THEN "active" ELSE "superseded")
               /\ Goto(t, l) /\ UNCHANGED <<proc, guard, lock, loc>>
      BY <2>2
    <3>2. Others(t) /\ pc'[t] = l
      BY <3>1 DEF Goto, Others, TInv, TypeOK
    <3>3. AtStaged(t)
      BY DEF ThreadsOK, ThreadOK
    <3>4. ThreadOK(t)'
      BY <2>0, <3>1, <3>2, <3>3
         DEF ThreadOK, AtSearch, AtUpsert, AtStaged, AtSupersede, AtActivate, Staged, InHand
    <3>5. l \in Critical /\ loc'[t].key = loc[t].key
      BY <3>1 DEF Critical
    <3>6. Locked'
      BY <2>0, <3>1, <3>2, <3>5, GotoLocked
    <3> QED BY <2>0, <3>2, <3>4, <3>6, SamePoints
  <2> QED BY <1>7, <2>1, <2>2 DEF RecoverRetrieve
<1>8. ASSUME NEW t \in Threads, Search(t)
      PROVE  SInv'
  <2>0. pc[t] = "search" /\ pc[t] \in Critical /\ UNCHANGED <<points, maint, late>>
    BY <1>8 DEF Search, Critical
  <2>1. CASE \E ok : Leave(t, ok)
    BY <2>0, <2>1, <1>q
  <2>2. CASE ~\E ok : Leave(t, ok)
    <3>1. PICK hits \in SearchHits(loc[t].key[1]), p \in OptId :
            /\ {i \in hits : points[i].key[2] = loc[t].key[2]} = (IF p = None THEN {} ELSE {p})
            /\ Goto(t, "upsert")
            /\ loc' = [loc EXCEPT ![t].prev = p, ![t].staged = None,
                                  ![t].prevNext = IF p = None THEN None ELSE points[p].next]
            /\ UNCHANGED <<proc, guard, lock>>
      BY <1>8, <2>2 DEF Search
    <3>2. Others(t) /\ pc'[t] = "upsert"
      BY <3>1 DEF Goto, Others, TInv, TypeOK
    <3>3. loc'[t].prev = p /\ loc'[t].key = loc[t].key
      BY <3>1 DEF TInv, TypeOK, Locals
    <3>4. hits = {i \in Ids : points[i].status = "active" /\ points[i].key[1] = loc[t].key[1]}
      BY SearchComplete DEF PointsOK
    <3>5. \A i \in Ids : points[i].key = loc[t].key <=>
             points[i].key[1] = loc[t].key[1] /\ points[i].key[2] = loc[t].key[2]
      <4>1. loc[t].key \in Keys /\ \A i \in Ids : points[i].key \in Keys
        BY DEF TInv, TypeOK, Records, Locals
      <4> QED BY <4>1 DEF Keys
    <3>6. IF p = None
          THEN \A i \in Ids : points[i].status = "active" => points[i].key # loc[t].key
          ELSE points[p].status = "active" /\ points[p].key = loc[t].key
      BY <3>1, <3>4, <3>5 DEF OptId
    <3>7. AtSearch(t)
      BY DEF ThreadsOK, ThreadOK
    <3>8. AtUpsert(t)'
      BY <2>0, <3>2, <3>3, <3>6 DEF AtUpsert
    <3>9. AtSearch(t)'
      BY <2>0, <3>2, <3>3, <3>7 DEF AtSearch, Staged
    <3>10. ThreadOK(t)'
      BY <3>2, <3>8, <3>9 DEF ThreadOK, AtStaged, AtSupersede, AtActivate, InHand
    <3>11. "upsert" \in Critical
      BY DEF Critical
    <3>12. Locked'
      BY <2>0, <3>1, <3>2, <3>3, <3>11, GotoLocked
    <3> QED BY <2>0, <3>2, <3>10, <3>12, SamePoints
  <2> QED BY <2>1, <2>2
<1>9. ASSUME NEW t \in Threads, NEW i \in Ids, Upsert(t, i)
      PROVE  SInv'
  <2>0. pc[t] = "upsert" /\ pc[t] \in Critical /\ UNCHANGED <<maint, late>>
        /\ i \in FreshIds /\ i \in NewId(t) /\ pc[t] \in Writes
        /\ points' = ApplyCall(points, CallOf(t, i))
    BY <1>9 DEF Upsert, Critical, NewId, Writes
  <2>1. CASE Leave(t, TRUE)
    BY <2>0, <2>1, <1>w
  <2>2. CASE /\ loc[t].prev # None
             /\ Goto(t, "supersede") /\ loc' = [loc EXCEPT ![t].staged = i]
             /\ UNCHANGED <<proc, guard, lock, acked>>
    <3>1. Others(t) /\ pc'[t] = "supersede"
      BY <2>2 DEF Goto, Others, TInv, TypeOK
    <3>2. loc'[t].staged = i /\ loc'[t].prev = loc[t].prev /\ loc'[t].key = loc[t].key
      BY <2>2 DEF TInv, TypeOK, Locals
    <3>3. /\ PointsOK' /\ \A u \in Threads : u # t => ThreadOK(u)'
          /\ points'[i].status = "deprecated" /\ points'[i].key = loc[t].key
          /\ points'[i].prev = loc[t].prev
          /\ points'[loc[t].prev].status = "active"
      BY <1>e, <2>0, <2>2, <3>1, UpsertEffect
    <3>4. ThreadOK(t)'
      BY <3>1, <3>2, <3>3
         DEF ThreadOK, AtSearch, AtUpsert, AtStaged, AtSupersede, AtActivate, Staged
    <3>5. "supersede" \in Critical
      BY DEF Critical
    <3>6. Locked'
      BY <2>0, <2>2, <3>1, <3>2, <3>5, GotoLocked
    <3> QED BY <3>3, <3>4, <3>6 DEF ThreadsOK
  <2> QED BY <1>9, <2>1, <2>2 DEF Upsert
<1>10. ASSUME NEW t \in Threads, NEW l \in {"activate", "r_activate"},
              pc[t] \in {"supersede", "r_supersede"},
              points' = ApplyCall(points, CallOf(t, None)), Goto(t, l),
              UNCHANGED <<guard, lock, loc, maint, late>>
       PROVE  SInv'
  <2>1. Others(t) /\ pc'[t] = l
    BY <1>10 DEF Goto, Others, TInv, TypeOK
  <2>2. /\ PointsOK' /\ \A u \in Threads : u # t => ThreadOK(u)'
        /\ points'[loc[t].staged] = points[loc[t].staged]
        /\ points'[loc[t].prev].status = "superseded"
    BY <1>e, <1>10, <2>1, SupersedeEffect
  <2>3. AtStaged(t)
    BY DEF ThreadsOK, ThreadOK
  <2>4. ThreadOK(t)'
    BY <1>10, <2>1, <2>2, <2>3
       DEF ThreadOK, AtSearch, AtUpsert, AtStaged, AtSupersede, AtActivate, Staged, InHand
  <2>5. l \in Critical /\ pc[t] \in Critical /\ loc'[t].key = loc[t].key
    BY <1>10 DEF Critical
  <2>6. Locked'
    BY <1>10, <2>1, <2>5, GotoLocked
  <2> QED BY <2>2, <2>4, <2>6 DEF ThreadsOK
<1>11. ASSUME NEW t \in Threads, Supersede(t) \/ RecoverSupersede(t)
       PROVE  SInv'
  <2>1. CASE Leave(t, FALSE) /\ UNCHANGED <<points, maint, late>>
    BY <2>1, <1>q
  <2>2. CASE ~(Leave(t, FALSE) /\ UNCHANGED <<points, maint, late>>)
    BY <1>10, <1>11, <2>2 DEF Supersede, RecoverSupersede
  <2> QED BY <2>1, <2>2
<1>12. ASSUME NEW t \in Threads, Activate(t)
       PROVE  SInv'
  <2>1. pc[t] \in Writes /\ None \in NewId(t)
    BY <1>12 DEF Activate, Writes, NewId
  <2> QED BY <1>12, <2>1, <1>w DEF Activate
<1>13. ASSUME NEW t \in Threads, RecoverActivate(t)
       PROVE  SInv'
  <2>0. pc[t] = "r_activate" /\ pc[t] \in Critical
    BY <1>13 DEF RecoverActivate, Critical
  <2>1. Others(t) /\ pc'[t] \in {"idle", "lock", "search"}
        /\ (pc'[t] = "search" => loc'[t] = loc[t])
    BY <1>13, AfterRecoveryFrame DEF RecoverActivate
  <2>2. /\ PointsOK' /\ \A u \in Threads : u # t => ThreadOK(u)'
        /\ \A i \in Ids : Staged(i)' => Staged(i) /\ points'[i].key # loc[t].key
    BY <1>e, <1>13, <2>0, <2>1, ActivateEffect DEF RecoverActivate
  <2>3. ThreadOK(t)'
    BY <2>1, <2>2 DEF ThreadOK, AtSearch, AtUpsert, AtStaged, AtSupersede, AtActivate, InHand
  <2>4. Locked'
    BY <1>13, <2>0, AfterRecoveryLocked DEF RecoverActivate
  <2> QED BY <2>2, <2>3, <2>4 DEF ThreadsOK
<1>14. ASSUME NEW t \in Threads, EmbedFails(t) \/ CallFails(t)
       PROVE  SInv'
  BY <1>14, <1>q DEF EmbedFails, CallFails
<1>15. ASSUME NEW t \in Threads, NEW i \in OptId, WriteLostAnswer(t, i)
       PROVE  SInv'
  BY <1>15, <1>w DEF WriteLostAnswer
<1>16. ASSUME NEW p \in Procs, Crash(p)
       PROVE  SInv'
  <2>1. \A u \in Threads :
          IF ProcOf[u] = p THEN pc'[u] = "idle" ELSE pc'[u] = pc[u] /\ loc'[u] = loc[u]
    BY <1>16 DEF Crash
  <2>2. PointsOK'
    BY <1>16 DEF Crash, PointsOK, StagedOK, OneStaged, ActiveOpen, OneHead, RebuildOK,
                 Head, Staged, Prev
  <2>3. ASSUME NEW u \in Threads PROVE ThreadOK(u)'
    <3>1. CASE ProcOf[u] = p
      BY <2>1, <3>1, Gone DEF InHand
    <3>2. CASE ProcOf[u] # p
      BY <1>16, <2>1, <3>2 DEF Crash, ThreadsOK, ThreadOK, AtSearch, AtUpsert, AtStaged,
                               AtSupersede, AtActivate, Staged
    <3> QED BY <3>1, <3>2
  <2>4. ASSUME NEW u \in Threads, pc'[u] \in Critical
        PROVE  lock'[LockOf(u)'] = u
    <3>1. ProcOf[u] # p /\ pc[u] \in Critical /\ LockOf(u)' = LockOf(u)
      BY <2>1, <2>4 DEF Critical, LockOf
    <3>2. lock[LockOf(u)] = u /\ LockOf(u) \in Procs \X Keys /\ LockOf(u)[1] = ProcOf[u]
      BY <3>1, LockOfType DEF Locked
    <3> QED BY <1>16, <3>1, <3>2 DEF Crash
  <2>5. ASSUME ProcessLock, NEW u \in Threads, pc'[u] \in Critical \cup {"lock", "reconcile"}
        PROVE  guard' = u
    <3>1. ProcOf[u] # p /\ guard = u
      BY <2>1, <2>5 DEF Critical, Locked
    <3> QED BY <1>16, <3>1 DEF Crash
  <2> QED BY <1>16, <2>2, <2>3, <2>4, <2>5 DEF Crash, ThreadsOK, Locked
<1>17. ASSUME RebuildRead
       PROVE  SInv'
  <2>1. RebuildOK'
    BY <1>17 DEF RebuildRead, RebuildOK, Present, Staged
  <2> QED BY <1>17, <2>1
    DEF RebuildRead, Locked, LockOf, PointsOK, StagedOK, OneStaged, ActiveOpen, OneHead, Head,
        Staged, Prev, ThreadsOK, ThreadOK, AtSearch, AtUpsert, AtStaged, AtSupersede, AtActivate
<1>18. ASSUME NEW m \in maint, RebuildWrite(m)
       PROVE  SInv'
  <2>0. m.id \in Ids /\ points[m.id].status # "absent"
    BY DEF TInv, TypeOK, PointsOK, RebuildOK
  <2>1. \A i \in Ids : /\ points'[i].status = points[i].status
                       /\ points'[i].key = points[i].key
                       /\ points'[i].next = points[i].next
                       /\ i # m.id => points'[i] = points[i]
    BY <1>18, <2>0 DEF RebuildWrite, TInv, TypeOK, Records
  <2>2. Staged(m.id) => points'[m.id].evo = points[m.id].evo /\ points'[m.id].prev = points[m.id].prev
    BY <1>18, <2>0 DEF RebuildWrite, TInv, TypeOK, Records, PointsOK, RebuildOK
  <2>3. \A i \in Ids : Staged(i) => points'[i].evo = points[i].evo /\ points'[i].prev = points[i].prev
    BY <2>1, <2>2
  <2>4. \A i \in Ids : Staged(i)' <=> Staged(i)
    BY <2>1 DEF Staged
  <2>5. StagedOK' /\ OneStaged' /\ ActiveOpen'
    BY <2>1, <2>3, <2>4 DEF PointsOK, StagedOK, OneStaged, ActiveOpen, Prev
  <2>6. \A i \in Ids : Head(i)' => Head(i)
    BY <2>1, <2>3, <2>4 DEF Head, Prev, PointsOK, StagedOK
  <2>7. OneHead'
    BY <2>1, <2>6 DEF PointsOK, OneHead
  <2>8. RebuildOK'
    <3>1. \A n \in maint' : n \in maint /\ n.id \in Ids
      BY <1>18 DEF RebuildWrite, TInv, TypeOK
    <3> QED BY <2>1, <2>3, <2>4, <3>1 DEF PointsOK, RebuildOK
  <2>9. UNCHANGED <<pc, loc, lock, guard, late>>
    BY <1>18 DEF RebuildWrite
  <2>10. ASSUME NEW u \in Threads PROVE ThreadOK(u)'
    <3>1. loc[u].prev \in OptId /\ (pc[u] \in InHand => loc[u].staged \in Ids /\ loc[u].prev \in Ids)
      BY DEF TInv, TypeOK, LocalsOK, Locals
    <3>2. ThreadOK(u)
      BY DEF ThreadsOK
    <3>3. AtSearch(u)' /\ AtUpsert(u)'
      BY <2>1, <2>4, <2>9, <3>1, <3>2 DEF ThreadOK, AtSearch, AtUpsert, OptId
    <3>4. AtStaged(u)'
      BY <2>1, <2>3, <2>4, <2>9, <3>1, <3>2 DEF ThreadOK, AtStaged
    <3>5. AtSupersede(u)' /\ AtActivate(u)'
      BY <2>1, <2>9, <3>1, <3>2 DEF ThreadOK, AtSupersede, AtActivate, InHand
    <3> QED BY <3>3, <3>4, <3>5 DEF ThreadOK
  <2> QED BY <2>5, <2>7, <2>8, <2>9, <2>10 DEF PointsOK, ThreadsOK, Locked, LockOf
<1>19. ASSUME NEW t \in Threads, NEW i \in OptId, WriteTimesOut(t, i)
       PROVE  SInv'
  BY <1>19 DEF WriteTimesOut, Deployed
<1> QED
  BY <1>l, <1>1, <1>2, <1>3, <1>4, <1>5, <1>6, <1>7, <1>8, <1>9, <1>11, <1>12, <1>13, <1>14,
     <1>15, <1>16, <1>17, <1>18, <1>19 DEF Next, Step

\* A step that changes nothing keeps them too.
LEMMA SafetyStutter == SInv /\ UNCHANGED vars => SInv'
BY DEF SInv, vars, Locked, LockOf, PointsOK, StagedOK, OneStaged, ActiveOpen, OneHead, RebuildOK,
       Head, Staged, Prev, ThreadsOK, ThreadOK, AtSearch, AtUpsert, AtStaged, AtSupersede,
       AtActivate

\* The inductive invariant holds in every behaviour of a proper deployment.
LEMMA Inductive == ASSUME Deployed PROVE Spec => [](TInv /\ SInv)
<1>1. Init => TInv /\ SInv
  BY TypeInit, SafetyInit DEF SInv
<1>2. TInv /\ SInv /\ [Next]_vars => (TInv /\ SInv)'
  BY TypeStep, SafetyStep, SafetyStutter
<1> QED BY <1>1, <1>2, PTL DEF Spec

\* EVOLUTION_SPEC's core invariant: when the writers are serialized, the lookup
\* sees every context and no write lands after its caller gave up, an identity
\* never has two active versions, whatever calls fail, whichever process dies at
\* whichever step, and whatever the relation index rebuild writes meanwhile.
THEOREM OneActiveVersion == ASSUME Deployed PROVE Spec => []AtMostOneActive
<1>1. SInv => AtMostOneActive
  BY DEF SInv, PointsOK, OneHead, Head, AtMostOneActive
<1> QED BY <1>1, Inductive, PTL

\* "The pending staged record remains recoverable": _recover_pending and
\* reconcile_pending never meet a staged version they must refuse.
THEOREM AlwaysRecoverable == ASSUME Deployed PROVE Spec => []PendingRecoverable
<1>1. TInv /\ SInv => PendingRecoverable
  <2> SUFFICES ASSUME TInv, SInv, NEW i \in Ids, IsPending(i)
               PROVE  /\ \A j \in Ids : IsPending(j) /\ points[j].key = points[i].key => j = i
                      /\ points[i].prev # None
                      /\ LET p == points[points[i].prev]
                         IN /\ p.key = points[i].key
                            /\ \/ p.status = "active" /\ p.next = None
                               \/ p.status = "superseded" /\ p.next = i
    BY DEF PendingRecoverable
  <2>1. Staged(i) /\ \A j \in Ids : IsPending(j) => Staged(j)
    BY DEF IsPending, Staged
  <2>2. points[i].prev \in Ids /\ points[i].prev # None
    BY <2>1, ConstantsAssumption DEF SInv, PointsOK, StagedOK
  <2> QED BY <2>1, <2>2 DEF SInv, PointsOK, StagedOK, OneStaged, ActiveOpen, Prev
<1> QED BY <1>1, Inductive, PTL

-----------------------------------------------------------------------------
(***************************************************************************)
(* The history: append only, one line of versions for each identity,       *)
(* nothing acknowledged leaves it, and the protocol implements             *)
(* KnowledgeHead but for its fairness.                                     *)
(***************************************************************************)
IsPresent(i) == points[i].status # "absent"
SuperOf(i) == points[points[i].supersedes]

\* A first version is committed at once and supersedes nothing; every other one is one
\* more than the version it supersedes, which points to it once it is committed
ChainBack == \A i \in Ids : IsPresent(i) =>
  \/ points[i].supersedes = None /\ Committed(i) /\ points[i].version = 1
  \/ /\ points[i].supersedes \in Ids
     /\ SuperOf(i).key = points[i].key /\ points[i].version = SuperOf(i).version + 1
     /\ Committed(i) => SuperOf(i).status = "superseded" /\ SuperOf(i).next = i
     /\ Staged(i) => points[i].prev = points[i].supersedes

\* A superseded version points to the version that supersedes it
ChainForward == \A i \in Ids : points[i].status = "superseded" =>
  /\ points[i].next \in Ids /\ IsPresent(points[i].next)
  /\ points[points[i].next].supersedes = i

\* An identity with a history has a head
HeadExists == \A i \in Ids : Committed(i) => \E j \in Ids : Head(j) /\ points[j].key = points[i].key

\* ... which is the newest version
HeadNewest == \A i, j \in Ids : Committed(i) /\ Head(j) /\ points[i].key = points[j].key =>
  i = j \/ points[i].version < points[j].version

HistoryOK == ChainBack /\ ChainForward /\ HeadExists /\ HeadNewest /\ NoFork

\* No version repeats the content of the one it supersedes
NewContent == \A i \in Ids : IsPresent(i) /\ points[i].supersedes # None =>
  points[i].content # SuperOf(i).content

HInv == TInv /\ SInv /\ HistoryOK

(***************************************************************************)
(* What a step does to the records.                                        *)
(***************************************************************************)
\* The ways a step changes them: thread t writes record i as a first version, or staged
\* after its predecessor; p is superseded by s; s is activated; extensions are written back
Inserts(t, i) == /\ points[i].status = "absent" /\ loc[t].prev = None
                 /\ points' = [points EXCEPT ![i] = NewRecord(t)]
Stages(t, i) == /\ points[i].status = "absent" /\ loc[t].prev \in Ids
                /\ points[loc[t].prev].status = "active" /\ points[loc[t].prev].key = loc[t].key
                /\ points' = [points EXCEPT ![i] = NewRecord(t)]
Supersedes(p, s) == /\ points[p].status = "active" /\ Staged(s) /\ points[s].prev = p
                    /\ points' = [points EXCEPT ![p].status = "superseded", ![p].next = s]
Activates(s) == /\ Staged(s) /\ Prev(s).status = "superseded"
                /\ points' = [points EXCEPT ![s].status = "active", ![s].evo = "committed", ![s].prev = None]
Rewrites(m) == points' = [points EXCEPT ![m.id].evo = m.evo, ![m.id].prev = m.prev]

\* A write of a thread
LEMMA WriteCases ==
  ASSUME TInv, SInv, NEW t \in Threads, pc[t] \in Writes, NEW i \in NewId(t),
         points' = ApplyCall(points, CallOf(t, i))
  PROVE  \/ pc[t] = "upsert" /\ i \in Ids /\ (Inserts(t, i) \/ Stages(t, i))
         \/ \E p, s \in Ids : Supersedes(p, s)
         \/ \E s \in Ids : Activates(s)
<1> DEFINE p == loc[t].prev
           s == loc[t].staged
<1>1. CASE pc[t] = "upsert"
  <2>1. i \in Ids /\ points[i].status = "absent"
    BY <1>1 DEF NewId, FreshIds
  <2>2. points' = [points EXCEPT ![i] = NewRecord(t)]
    BY <1>1 DEF CallOf, ApplyCall, UpsertCall
  <2>3. p \in OptId
    BY DEF TInv, TypeOK, Locals
  <2>4. p # None => p \in Ids /\ points[p].status = "active" /\ points[p].key = loc[t].key
    BY <1>1, <2>3 DEF SInv, ThreadsOK, ThreadOK, AtUpsert, OptId
  <2>5. QED
    BY <1>1, <2>1, <2>2, <2>4 DEF Inserts, Stages
<1>2. CASE pc[t] \in {"supersede", "r_supersede"}
  <2>1. p \in Ids /\ s \in Ids
    BY <1>2 DEF TInv, LocalsOK, InHand
  <2>2. points[p].status = "active" /\ Staged(s) /\ points[s].prev = p
    BY <1>2 DEF SInv, ThreadsOK, ThreadOK, AtSupersede, AtStaged, InHand
  <2>3. points' = [points EXCEPT ![p].status = "superseded", ![p].next = s]
    BY <1>2, <2>1, <2>2 DEF CallOf, ApplyCall, SetPayload, SupersedeCall
  <2>4. QED
    BY <2>1, <2>2, <2>3 DEF Supersedes
<1>3. CASE pc[t] \in {"activate", "r_activate"}
  <2>1. s \in Ids
    BY <1>3 DEF TInv, LocalsOK, InHand
  <2>2. Staged(s) /\ Prev(s).status = "superseded"
    BY <1>3 DEF SInv, ThreadsOK, ThreadOK, AtActivate, AtStaged, InHand, Prev
  <2>3. points' = [points EXCEPT ![s].status = "active", ![s].evo = "committed", ![s].prev = None]
    BY <1>3, <2>1, <2>2 DEF CallOf, ApplyCall, SetPayload, ActivateCall, Staged
  <2>4. QED
    BY <2>1, <2>2, <2>3 DEF Activates
<1>4. QED
  BY <1>1, <1>2, <1>3 DEF Writes

\* A step
LEMMA PointCases ==
  ASSUME Deployed, TInv, SInv, Next
  PROVE  \/ points' = points
         \/ \E t \in Threads, i \in Ids : pc[t] = "upsert" /\ (Inserts(t, i) \/ Stages(t, i))
         \/ \E p, s \in Ids : Supersedes(p, s)
         \/ \E s \in Ids : Activates(s)
         \/ \E m \in maint : Rewrites(m)
<1>1. \/ points' = points
      \/ \E t \in Threads, i \in OptId : /\ pc[t] \in Writes /\ i \in NewId(t)
                                         /\ points' = ApplyCall(points, CallOf(t, i))
      \/ \E m \in maint : Rewrites(m)
  <2>1. ASSUME NEW t \in Threads, NEW i \in Ids, Upsert(t, i)
        PROVE pc[t] \in Writes /\ i \in NewId(t) /\ points' = ApplyCall(points, CallOf(t, i))
    BY <2>1 DEF Upsert, NewId, Writes
  <2>2. ASSUME NEW t \in Threads, Activate(t) \/ RecoverSupersede(t) \/ RecoverActivate(t)
        PROVE pc[t] \in Writes /\ None \in NewId(t) /\ points' = ApplyCall(points, CallOf(t, None))
    BY <2>2 DEF Activate, RecoverSupersede, RecoverActivate, NewId, Writes
  <2>3. ASSUME NEW t \in Threads, Supersede(t)
        PROVE \/ points' = points
              \/ pc[t] \in Writes /\ None \in NewId(t) /\ points' = ApplyCall(points, CallOf(t, None))
    BY <2>3 DEF Supersede, NewId, Writes
  <2>4. ASSUME NEW t \in Threads, NEW i \in OptId, WriteLostAnswer(t, i)
        PROVE pc[t] \in Writes /\ i \in NewId(t) /\ points' = ApplyCall(points, CallOf(t, i))
    BY <2>4 DEF WriteLostAnswer
  <2>5. ASSUME NEW m \in maint, RebuildWrite(m) PROVE Rewrites(m)
    BY <2>5 DEF RebuildWrite, Rewrites
  <2>6. \A w \in late : FALSE
    BY DEF SInv, Locked
  <2>7. None \in OptId /\ Ids \subseteq OptId
    BY DEF OptId
  <2>8. \/ points' = points
        \/ \E t \in Threads : \/ \E i \in Ids : Upsert(t, i)
                              \/ Activate(t) \/ RecoverSupersede(t) \/ RecoverActivate(t)
                              \/ Supersede(t) \/ \E i \in OptId : WriteLostAnswer(t, i)
        \/ \E m \in maint : RebuildWrite(m)
    BY ZenonT(60), <2>6 DEF Next, Step, StoreAny, StoreBegin, Restart, AcquireGuard, AcquireLock, ReconcileScan,
                RecoverScan, RecoverRetrieve, Search, EmbedFails, CallFails, WriteTimesOut, Crash, RebuildRead
  <2>9. QED
    BY <2>1, <2>2, <2>3, <2>4, <2>5, <2>7, <2>8
<1>2. QED
  BY <1>1, WriteCases

\* What a present record keeps, and how its status may change
Kept(i) == /\ points'[i].key = points[i].key /\ points'[i].version = points[i].version
           /\ points'[i].content = points[i].content /\ points'[i].supersedes = points[i].supersedes
           /\ Committed(i) => points'[i].status \in {"active", "superseded"}
           /\ points[i].status = "superseded" =>
                points'[i].status = "superseded" /\ points'[i].next = points[i].next

\* The fields of every record after each kind of step
LEMMA InsertFields ==
  ASSUME TInv, NEW t \in Threads, NEW i \in Ids, points' = [points EXCEPT ![i] = NewRecord(t)]
  PROVE  points'[i] = NewRecord(t) /\ \A j \in Ids : j # i => points'[j] = points[j]
BY DEF TInv, TypeOK

\* ... of a predecessor superseded
LEMMA SupersedeFields ==
  ASSUME TInv, NEW p \in Ids, NEW s \in Ids, Supersedes(p, s)
  PROVE  /\ points'[p] = [points[p] EXCEPT !.status = "superseded", !.next = s]
         /\ points'[p].status = "superseded" /\ points'[p].next = s
         /\ points'[p].evo = points[p].evo /\ points'[p].prev = points[p].prev
         /\ points'[p].key = points[p].key /\ points'[p].version = points[p].version
         /\ points'[p].content = points[p].content /\ points'[p].supersedes = points[p].supersedes
         /\ \A j \in Ids : j # p => points'[j] = points[j]
BY DEF TInv, TypeOK, Records, Supersedes

\* ... of a staged version activated
LEMMA ActivateFields ==
  ASSUME TInv, NEW s \in Ids, Activates(s)
  PROVE  /\ points'[s].status = "active" /\ points'[s].next = points[s].next
         /\ points'[s].key = points[s].key /\ points'[s].version = points[s].version
         /\ points'[s].content = points[s].content /\ points'[s].supersedes = points[s].supersedes
         /\ \A j \in Ids : j # s => points'[j] = points[j]
BY DEF TInv, TypeOK, Records, Activates

\* ... of extensions written back: those of a staged version as they are
LEMMA RewriteFields ==
  ASSUME TInv, SInv, NEW m \in maint, Rewrites(m)
  PROVE  \A j \in Ids : /\ points'[j].status = points[j].status /\ points'[j].next = points[j].next
                        /\ points'[j].key = points[j].key /\ points'[j].version = points[j].version
                        /\ points'[j].content = points[j].content
                        /\ points'[j].supersedes = points[j].supersedes
                        /\ Staged(j) => points'[j].evo = points[j].evo /\ points'[j].prev = points[j].prev
<1>1. m.id \in Ids
  BY DEF TInv, TypeOK
<1>2. \A j \in Ids : j # m.id => points'[j] = points[j]
  BY <1>1 DEF TInv, TypeOK, Rewrites
<1>3. points'[m.id] = [points[m.id] EXCEPT !.evo = m.evo, !.prev = m.prev]
  BY <1>1 DEF TInv, TypeOK, Rewrites
<1>4. points[m.id] \in Records
  BY <1>1 DEF TInv, TypeOK
<1>5. Staged(m.id) => m.evo = points[m.id].evo /\ m.prev = points[m.id].prev
  BY DEF SInv, PointsOK, RebuildOK
<1>6. /\ points'[m.id].status = points[m.id].status /\ points'[m.id].next = points[m.id].next
      /\ points'[m.id].key = points[m.id].key /\ points'[m.id].version = points[m.id].version
      /\ points'[m.id].content = points[m.id].content
      /\ points'[m.id].supersedes = points[m.id].supersedes
      /\ points'[m.id].evo = m.evo /\ points'[m.id].prev = m.prev
  BY <1>3, <1>4 DEF Records
<1>7. QED
  BY <1>2, <1>5, <1>6

\* History only grows
LEMMA AppendOnly ==
  ASSUME Deployed, TInv, SInv, Next, NEW i \in Ids, IsPresent(i)
  PROVE  Kept(i)
<1>1. CASE points' = points
  BY <1>1 DEF Kept, Committed
<1>2. ASSUME NEW t \in Threads, NEW j \in Ids, Inserts(t, j) \/ Stages(t, j) PROVE Kept(i)
  <2>1. i # j /\ points' = [points EXCEPT ![j] = NewRecord(t)]
    BY <1>2 DEF Inserts, Stages, IsPresent
  <2>2. QED
    BY <2>1, InsertFields DEF Kept, Committed
<1>3. ASSUME NEW p \in Ids, NEW s \in Ids, Supersedes(p, s) PROVE Kept(i)
  <2>1. CASE i = p
    <3>1. points[p].status = "active"
      BY <1>3 DEF Supersedes
    <3>2. QED
      BY <1>3, <2>1, <3>1, SupersedeFields DEF Kept
  <2>2. CASE i # p
    <3>1. points'[i] = points[i]
      BY <1>3, <2>2, SupersedeFields
    <3>2. QED
      BY <3>1 DEF Kept, Committed
  <2>3. QED
    BY <2>1, <2>2
<1>4. ASSUME NEW s \in Ids, Activates(s) PROVE Kept(i)
  BY <1>4, ActivateFields DEF Kept, Committed, Activates, Staged
<1>5. ASSUME NEW m \in maint, Rewrites(m) PROVE Kept(i)
  BY <1>5, RewriteFields DEF Kept, Committed
<1>6. QED
  BY <1>1, <1>2, <1>3, <1>4, <1>5, PointCases

\* EVOLUTION_SPEC: a record keeps its identity, version and content; a committed one is
\* never staged or absent again; a superseded one is never active again nor redirected
THEOREM HistoryIsAppendOnly == ASSUME Deployed PROVE Spec => HistoryAppendOnly
<1> DEFINE A == \A i \in Ids : points[i].status # "absent" =>
       /\ points'[i].key = points[i].key
       /\ points'[i].version = points[i].version
       /\ points'[i].content = points[i].content
       /\ points'[i].supersedes = points[i].supersedes
       /\ Committed(i) => points'[i].status \in {"active", "superseded"}
       /\ points[i].status = "superseded" =>
            points'[i].status = "superseded" /\ points'[i].next = points[i].next
<1>1. TInv /\ SInv /\ [Next]_vars => [A]_vars
  BY AppendOnly DEF IsPresent, Kept
<1>2. QED
  BY <1>1, Inductive, PTL DEF Spec, HistoryAppendOnly

(***************************************************************************)
(* One line of versions for each identity.                                 *)
(***************************************************************************)
\* The version a record supersedes is committed.
LEMMA SuperCommitted ==
  ASSUME TInv, SInv, HistoryOK, NEW i \in Ids, IsPresent(i), points[i].supersedes # None
  PROVE  points[i].supersedes \in Ids /\ Committed(points[i].supersedes)
<1>1. /\ points[i].supersedes \in Ids
      /\ Committed(i) => SuperOf(i).status = "superseded"
      /\ Staged(i) => points[i].prev = points[i].supersedes
  BY DEF HistoryOK, ChainBack
<1>2. Committed(i) \/ Staged(i)
  BY DEF IsPresent, Committed, Staged, TInv, TypeOK, Records, Statuses
<1>3. Staged(i) => Prev(i).status \in {"active", "superseded"}
  BY DEF SInv, PointsOK, StagedOK
<1>4. QED
  BY <1>1, <1>2, <1>3 DEF SuperOf, Prev, Committed

\* The predecessor of a staged version is committed.
LEMMA PrevCommitted ==
  ASSUME SInv, NEW i \in Ids, Staged(i)
  PROVE  points[i].prev \in Ids /\ Committed(points[i].prev) /\ Prev(i).key = points[i].key
BY DEF SInv, PointsOK, StagedOK, Prev, Committed

\* A first version becomes the head of an identity that had none.
LEMMA InsertHeads ==
  ASSUME TInv, SInv, HistoryOK, NEW t \in Threads, NEW i \in Ids, pc[t] = "upsert", Inserts(t, i)
  PROVE  /\ /\ points'[i].status = "active" /\ points'[i].key = loc[t].key /\ points'[i].version = 1
            /\ points'[i].supersedes = None /\ points'[i].next = None
         /\ \A j \in Ids : j # i => points'[j] = points[j]
         /\ points[i].status = "absent"
         /\ \A j \in Ids : Head(j) => points[j].key # loc[t].key
         /\ \A j \in Ids : Committed(j) => points[j].key # loc[t].key
         /\ \A j \in Ids : j # i => /\ Committed(j)' <=> Committed(j)
                                    /\ Staged(j)' <=> Staged(j)
                                    /\ IsPresent(j)' <=> IsPresent(j)
                                    /\ Head(j)' <=> Head(j)
         /\ Committed(i)' /\ Head(i)' /\ ~Staged(i)' /\ ~Committed(i) /\ ~Head(i)
<1> DEFINE k == loc[t].key
<1>1. /\ points'[i].status = "active" /\ points'[i].key = k /\ points'[i].version = 1
      /\ points'[i].supersedes = None /\ points'[i].next = None
  <2>1. points'[i] = NewRecord(t) /\ loc[t].prev = None
    BY InsertFields DEF Inserts
  <2>2. QED
    BY <2>1 DEF NewRecord
<1>2. \A j \in Ids : j # i => points'[j] = points[j]
  BY InsertFields DEF Inserts
<1>3. points[i].status = "absent"
  BY DEF Inserts
<1>4. \A j \in Ids : Head(j) => points[j].key # k
  BY DEF Inserts, SInv, ThreadsOK, ThreadOK, AtUpsert, AtSearch, Head
<1>5. \A j \in Ids : Committed(j) => points[j].key # k
  BY <1>4 DEF HistoryOK, HeadExists
<1>6. \A j \in Ids : j # i => /\ Committed(j)' <=> Committed(j)
                              /\ Staged(j)' <=> Staged(j)
                              /\ IsPresent(j)' <=> IsPresent(j)
                              /\ Head(j)' <=> Head(j)
  <2> SUFFICES ASSUME NEW j \in Ids, j # i
               PROVE /\ Committed(j)' <=> Committed(j)
                     /\ Staged(j)' <=> Staged(j)
                     /\ IsPresent(j)' <=> IsPresent(j)
                     /\ Head(j)' <=> Head(j)
    OBVIOUS
  <2>1. points'[j] = points[j]
    BY <1>2
  <2>2. Staged(j) => points[j].prev \in Ids /\ points[j].prev # i
    BY <1>3, PrevCommitted DEF Committed
  <2>3. Staged(j) => Prev(j)' = Prev(j)
    BY <2>1, <2>2, <1>2 DEF Prev
  <2>4. QED
    BY <2>1, <2>3 DEF Committed, Staged, IsPresent, Head
<1>7. Committed(i)' /\ Head(i)' /\ ~Staged(i)' /\ ~Committed(i) /\ ~Head(i)
  BY <1>1, <1>3 DEF Committed, Head, Staged
<1>13. QED
  BY <1>1, <1>2, <1>3, <1>4, <1>5, <1>6, <1>7

\* A first version of an identity that has none keeps the history.
LEMMA HistoryInsert ==
  ASSUME TInv, SInv, HistoryOK, NEW t \in Threads, NEW i \in Ids, pc[t] = "upsert", Inserts(t, i)
  PROVE  HistoryOK'
<1> DEFINE k == loc[t].key
<1>1. /\ points'[i].status = "active" /\ points'[i].key = k /\ points'[i].version = 1
      /\ points'[i].supersedes = None /\ points'[i].next = None
  BY InsertHeads
<1>2. \A j \in Ids : j # i => points'[j] = points[j]
  BY InsertHeads
<1>3. points[i].status = "absent"
  BY InsertHeads
<1>4. \A j \in Ids : Head(j) => points[j].key # k
  BY InsertHeads
<1>5. \A j \in Ids : Committed(j) => points[j].key # k
  BY InsertHeads
<1>6. \A j \in Ids : j # i => /\ Committed(j)' <=> Committed(j)
                              /\ Staged(j)' <=> Staged(j)
                              /\ IsPresent(j)' <=> IsPresent(j)
                              /\ Head(j)' <=> Head(j)
  BY InsertHeads
<1>7. Committed(i)' /\ Head(i)' /\ ~Staged(i)' /\ ~Committed(i) /\ ~Head(i)
  BY InsertHeads
<1>8. ChainBack'
  <2> SUFFICES ASSUME NEW j \in Ids, IsPresent(j)'
               PROVE \/ points'[j].supersedes = None /\ Committed(j)' /\ points'[j].version = 1
                     \/ /\ points'[j].supersedes \in Ids
                        /\ SuperOf(j)'.key = points'[j].key /\ points'[j].version = SuperOf(j)'.version + 1
                        /\ Committed(j)' => SuperOf(j)'.status = "superseded" /\ SuperOf(j)'.next = j
                        /\ Staged(j)' => points'[j].prev = points'[j].supersedes
    BY DEF ChainBack
  <2>1. CASE j = i
    BY <2>1, <1>1, <1>7
  <2>2. CASE j # i
    <3>1. points'[j] = points[j] /\ IsPresent(j)
      BY <2>2, <1>2, <1>6
    <3>2. points[j].supersedes # None => points[j].supersedes \in Ids /\ points[j].supersedes # i
      BY <3>1, <1>3, SuperCommitted DEF Committed
    <3>3. points[j].supersedes # None => SuperOf(j)' = SuperOf(j)
      BY <3>1, <3>2, <1>2 DEF SuperOf
    <3>4. None \notin Ids
      BY ConstantsAssumption
    <3>5. QED
      BY <2>2, <3>1, <3>3, <3>4, <1>6 DEF HistoryOK, ChainBack
  <2>3. QED
    BY <2>1, <2>2
<1>9. ChainForward'
  <2> SUFFICES ASSUME NEW j \in Ids, points'[j].status = "superseded"
               PROVE /\ points'[j].next \in Ids /\ IsPresent(points[j].next)'
                     /\ points'[j].next = points[j].next
                     /\ points'[points[j].next].supersedes = j
    BY DEF ChainForward, IsPresent
  <2>1. j # i /\ points'[j] = points[j]
    BY <1>1, <1>2
  <2>2. points[j].next \in Ids /\ IsPresent(points[j].next) /\ points[points[j].next].supersedes = j
    BY <2>1 DEF HistoryOK, ChainForward
  <2>3. points[j].next # i
    BY <2>2, <1>3 DEF IsPresent
  <2>4. points'[points[j].next] = points[points[j].next]
    BY <2>2, <2>3, <1>2
  <2>5. QED
    BY <2>1, <2>2, <2>4 DEF IsPresent
<1>10. HeadExists'
  BY <1>1, <1>2, <1>6, <1>7 DEF HistoryOK, HeadExists
<1>11. HeadNewest'
  BY <1>1, <1>2, <1>4, <1>5, <1>6, <1>7 DEF HistoryOK, HeadNewest
<1>12. NoFork'
  BY <1>1, <1>2, <1>5, <1>6, <1>7 DEF HistoryOK, NoFork
<1>13. QED
  BY <1>8, <1>9, <1>10, <1>11, <1>12 DEF HistoryOK

\* A staged version is no head yet, and no other version is disturbed.
LEMMA StageHeads ==
  ASSUME TInv, SInv, HistoryOK, NEW t \in Threads, NEW i \in Ids, pc[t] = "upsert", Stages(t, i)
  PROVE  /\ loc[t].prev \in Ids /\ points[loc[t].prev].status = "active"
         /\ points[loc[t].prev].key = loc[t].key /\ loc[t].prev # None /\ loc[t].prev # i
         /\ /\ points'[i].status = "deprecated" /\ points'[i].key = loc[t].key
            /\ points'[i].version = points[loc[t].prev].version + 1
            /\ points'[i].supersedes = loc[t].prev /\ points'[i].prev = loc[t].prev
         /\ \A j \in Ids : j # i => points'[j] = points[j]
         /\ points[i].status = "absent"
         /\ \A j \in Ids : j # i => /\ Committed(j)' <=> Committed(j)
                                    /\ Staged(j)' <=> Staged(j)
                                    /\ IsPresent(j)' <=> IsPresent(j)
                                    /\ Head(j)' <=> Head(j)
         /\ ~Committed(i)' /\ ~Head(i)' /\ ~Committed(i) /\ ~Head(i)
<1> DEFINE p == loc[t].prev
<1>0. p \in Ids /\ points[p].status = "active" /\ points[p].key = loc[t].key /\ p # None /\ p # i
  BY ConstantsAssumption DEF Stages
<1>1. /\ points'[i].status = "deprecated" /\ points'[i].key = loc[t].key
      /\ points'[i].version = points[p].version + 1
      /\ points'[i].supersedes = p /\ points'[i].prev = p
  <2>1. points'[i] = NewRecord(t)
    BY InsertFields DEF Stages
  <2>2. QED
    BY <1>0, <2>1 DEF NewRecord
<1>2. \A j \in Ids : j # i => points'[j] = points[j]
  BY InsertFields DEF Stages
<1>3. points[i].status = "absent"
  BY DEF Stages
<1>6. \A j \in Ids : j # i => /\ Committed(j)' <=> Committed(j)
                              /\ Staged(j)' <=> Staged(j)
                              /\ IsPresent(j)' <=> IsPresent(j)
                              /\ Head(j)' <=> Head(j)
  <2> SUFFICES ASSUME NEW j \in Ids, j # i
               PROVE /\ Committed(j)' <=> Committed(j)
                     /\ Staged(j)' <=> Staged(j)
                     /\ IsPresent(j)' <=> IsPresent(j)
                     /\ Head(j)' <=> Head(j)
    OBVIOUS
  <2>1. points'[j] = points[j]
    BY <1>2
  <2>2. Staged(j) => points[j].prev \in Ids /\ points[j].prev # i
    BY <1>3, PrevCommitted DEF Committed
  <2>3. Staged(j) => Prev(j)' = Prev(j)
    BY <2>1, <2>2, <1>2 DEF Prev
  <2>4. QED
    BY <2>1, <2>3 DEF Committed, Staged, IsPresent, Head
<1>7. ~Committed(i)' /\ ~Head(i)' /\ ~Committed(i) /\ ~Head(i)
  <2>1. points'[i].status = "deprecated" /\ points'[points'[i].prev].status = "active"
    BY <1>0, <1>1, <1>2
  <2>2. QED
    BY <2>1, <1>3 DEF Committed, Head, Staged, Prev
<1>13. QED
  BY <1>0, <1>1, <1>2, <1>3, <1>6, <1>7

\* A staged version keeps the history: it is no head and not committed.
LEMMA HistoryStage ==
  ASSUME TInv, SInv, HistoryOK, NEW t \in Threads, NEW i \in Ids, pc[t] = "upsert", Stages(t, i)
  PROVE  HistoryOK'
<1> DEFINE p == loc[t].prev
<1>0. p \in Ids /\ points[p].status = "active" /\ points[p].key = loc[t].key /\ p # None /\ p # i
  BY StageHeads
<1>1. /\ points'[i].status = "deprecated" /\ points'[i].key = loc[t].key
      /\ points'[i].version = points[p].version + 1
      /\ points'[i].supersedes = p /\ points'[i].prev = p
  BY StageHeads
<1>2. \A j \in Ids : j # i => points'[j] = points[j]
  BY StageHeads
<1>3. points[i].status = "absent"
  BY StageHeads
<1>6. \A j \in Ids : j # i => /\ Committed(j)' <=> Committed(j)
                              /\ Staged(j)' <=> Staged(j)
                              /\ IsPresent(j)' <=> IsPresent(j)
                              /\ Head(j)' <=> Head(j)
  BY StageHeads
<1>7. ~Committed(i)' /\ ~Head(i)' /\ ~Committed(i) /\ ~Head(i)
  BY StageHeads
<1>8. ChainBack'
  <2> SUFFICES ASSUME NEW j \in Ids, IsPresent(j)'
               PROVE \/ points'[j].supersedes = None /\ Committed(j)' /\ points'[j].version = 1
                     \/ /\ points'[j].supersedes \in Ids
                        /\ SuperOf(j)'.key = points'[j].key /\ points'[j].version = SuperOf(j)'.version + 1
                        /\ Committed(j)' => SuperOf(j)'.status = "superseded" /\ SuperOf(j)'.next = j
                        /\ Staged(j)' => points'[j].prev = points'[j].supersedes
    BY DEF ChainBack
  <2>1. CASE j = i
    <3>1. SuperOf(i)' = points[p]
      BY <1>0, <1>1, <1>2 DEF SuperOf
    <3>2. QED
      BY <2>1, <3>1, <1>0, <1>1, <1>7
  <2>2. CASE j # i
    <3>1. points'[j] = points[j] /\ IsPresent(j)
      BY <2>2, <1>2, <1>6
    <3>2. points[j].supersedes # None => points[j].supersedes \in Ids /\ points[j].supersedes # i
      BY <3>1, <1>3, SuperCommitted DEF Committed
    <3>3. points[j].supersedes # None => SuperOf(j)' = SuperOf(j)
      BY <3>1, <3>2, <1>2 DEF SuperOf
    <3>4. None \notin Ids
      BY ConstantsAssumption
    <3>5. QED
      BY <2>2, <3>1, <3>3, <3>4, <1>6 DEF HistoryOK, ChainBack
  <2>3. QED
    BY <2>1, <2>2
<1>9. ChainForward'
  <2> SUFFICES ASSUME NEW j \in Ids, points'[j].status = "superseded"
               PROVE /\ points'[j].next \in Ids /\ IsPresent(points[j].next)'
                     /\ points'[j].next = points[j].next
                     /\ points'[points[j].next].supersedes = j
    BY DEF ChainForward, IsPresent
  <2>1. j # i /\ points'[j] = points[j]
    BY <1>1, <1>2
  <2>2. points[j].next \in Ids /\ IsPresent(points[j].next) /\ points[points[j].next].supersedes = j
    BY <2>1 DEF HistoryOK, ChainForward
  <2>3. points[j].next # i
    BY <2>2, <1>3 DEF IsPresent
  <2>4. points'[points[j].next] = points[points[j].next]
    BY <2>2, <2>3, <1>2
  <2>5. QED
    BY <2>1, <2>2, <2>4 DEF IsPresent
<1>10. HeadExists'
  <2> SUFFICES ASSUME NEW j \in Ids, Committed(j)'
               PROVE \E h \in Ids : Head(h)' /\ points'[h].key = points'[j].key
    BY DEF HeadExists
  <2>1. j # i /\ Committed(j)
    BY <1>6, <1>7
  <2>2. PICK h \in Ids : Head(h) /\ points[h].key = points[j].key
    BY <2>1 DEF HistoryOK, HeadExists
  <2>3. h # i
    BY <2>2, <1>7
  <2>4. QED
    BY <2>1, <2>2, <2>3, <1>2, <1>6
<1>11. HeadNewest'
  BY <1>2, <1>6, <1>7 DEF HistoryOK, HeadNewest
<1>12. NoFork'
  BY <1>2, <1>6, <1>7 DEF HistoryOK, NoFork
<1>13. QED
  BY <1>8, <1>9, <1>10, <1>11, <1>12 DEF HistoryOK

\* A superseded predecessor leaves the headship to its staged successor.
LEMMA SupersedeHeads ==
  ASSUME TInv, SInv, SInv', HistoryOK, NEW p \in Ids, NEW s \in Ids, Supersedes(p, s)
  PROVE  /\ /\ points[p].status = "active" /\ Staged(s) /\ points[s].prev = p /\ p # s
            /\ points'[p].status = "superseded" /\ points'[p].next = s
            /\ points'[p].key = points[p].key /\ points'[p].version = points[p].version
            /\ points'[p].supersedes = points[p].supersedes
         /\ \A j \in Ids : j # p => points'[j] = points[j]
         /\ points[s].key = points[p].key /\ points[s].supersedes = p /\ IsPresent(s)
            /\ points[s].version = points[p].version + 1
         /\ \A j \in Ids : /\ points'[j].key = points[j].key /\ points'[j].version = points[j].version
                           /\ points'[j].supersedes = points[j].supersedes
                           /\ Committed(j)' <=> Committed(j)
                           /\ Staged(j)' <=> Staged(j)
                           /\ IsPresent(j)' <=> IsPresent(j)
         /\ Head(p) /\ Head(s)'
         /\ \A j \in Ids : Head(j)' /\ points[j].key = points[p].key => j = s
         /\ \A j \in Ids : points[j].key # points[p].key => (Head(j)' <=> Head(j))
<1>1. /\ points[p].status = "active" /\ Staged(s) /\ points[s].prev = p /\ p # s
      /\ points'[p].status = "superseded" /\ points'[p].next = s
      /\ points'[p].key = points[p].key /\ points'[p].version = points[p].version
      /\ points'[p].supersedes = points[p].supersedes
  BY ZenonT(60), SupersedeFields DEF Supersedes, Staged
<1>2. \A j \in Ids : j # p => points'[j] = points[j]
  BY SupersedeFields
<1>3. points[s].key = points[p].key /\ points[s].supersedes = p /\ IsPresent(s)
      /\ points[s].version = points[p].version + 1
  <2>1. IsPresent(s) /\ ~Committed(s)
    BY <1>1 DEF Staged, IsPresent, Committed
  <2>2. QED
    BY <1>1, <2>1 DEF HistoryOK, ChainBack, SuperOf
<1>4. \A j \in Ids : /\ points'[j].key = points[j].key /\ points'[j].version = points[j].version
                     /\ points'[j].supersedes = points[j].supersedes
                     /\ Committed(j)' <=> Committed(j)
                     /\ Staged(j)' <=> Staged(j)
                     /\ IsPresent(j)' <=> IsPresent(j)
  <2>1. Committed(p)' /\ Committed(p) /\ ~Staged(p)' /\ ~Staged(p) /\ IsPresent(p)' /\ IsPresent(p)
    BY <1>1 DEF Committed, Staged, IsPresent
  <2>2. \A j \in Ids : j # p => /\ Committed(j)' <=> Committed(j)
                                /\ Staged(j)' <=> Staged(j)
                                /\ IsPresent(j)' <=> IsPresent(j)
    BY <1>2 DEF Committed, Staged, IsPresent
  <2>3. QED
    BY <1>1, <1>2, <2>1, <2>2
<1>5. Head(p) /\ Head(s)'
  <2>1. Staged(s)' /\ points'[s].prev = p
    BY <1>1, <1>2, <1>4
  <2>2. QED
    BY <1>1, <2>1 DEF Head, Prev
<1>6. \A j \in Ids : Head(j)' /\ points[j].key = points[p].key => j = s
  BY <1>3, <1>4, <1>5 DEF SInv, PointsOK, OneHead
<1>7. \A j \in Ids : points[j].key # points[p].key => (Head(j)' <=> Head(j))
  <2> SUFFICES ASSUME NEW j \in Ids, points[j].key # points[p].key PROVE Head(j)' <=> Head(j)
    OBVIOUS
  <2>1. points'[j] = points[j]
    BY <1>2
  <2>2. Staged(j) => points[j].prev \in Ids /\ points[j].prev # p
    BY PrevCommitted DEF Prev
  <2>3. Staged(j) => Prev(j)' = Prev(j)
    BY <2>1, <2>2, <1>2 DEF Prev
  <2>4. QED
    BY <2>1, <2>3 DEF Staged, Head
<1>13. QED
  BY <1>1, <1>2, <1>3, <1>4, <1>5, <1>6, <1>7

\* The predecessor superseded: its staged successor is the head from then on.
LEMMA HistorySupersede ==
  ASSUME TInv, SInv, SInv', HistoryOK, NEW p \in Ids, NEW s \in Ids, Supersedes(p, s)
  PROVE  HistoryOK'
<1>1. /\ points[p].status = "active" /\ Staged(s) /\ points[s].prev = p /\ p # s
      /\ points'[p].status = "superseded" /\ points'[p].next = s
      /\ points'[p].key = points[p].key /\ points'[p].version = points[p].version
      /\ points'[p].supersedes = points[p].supersedes
  BY SupersedeHeads
<1>2. \A j \in Ids : j # p => points'[j] = points[j]
  BY SupersedeHeads
<1>3. points[s].key = points[p].key /\ points[s].supersedes = p /\ IsPresent(s)
      /\ points[s].version = points[p].version + 1
  BY SupersedeHeads
<1>4. \A j \in Ids : /\ points'[j].key = points[j].key /\ points'[j].version = points[j].version
                     /\ points'[j].supersedes = points[j].supersedes
                     /\ Committed(j)' <=> Committed(j)
                     /\ Staged(j)' <=> Staged(j)
                     /\ IsPresent(j)' <=> IsPresent(j)
  BY SupersedeHeads
<1>5. Head(p) /\ Head(s)'
  BY SupersedeHeads
<1>6. \A j \in Ids : Head(j)' /\ points[j].key = points[p].key => j = s
  BY SupersedeHeads
<1>7. \A j \in Ids : points[j].key # points[p].key => (Head(j)' <=> Head(j))
  BY SupersedeHeads
<1>8. ChainBack'
  <2> SUFFICES ASSUME NEW j \in Ids, IsPresent(j)'
               PROVE \/ points'[j].supersedes = None /\ Committed(j)' /\ points'[j].version = 1
                     \/ /\ points'[j].supersedes \in Ids
                        /\ SuperOf(j)'.key = points'[j].key /\ points'[j].version = SuperOf(j)'.version + 1
                        /\ Committed(j)' => SuperOf(j)'.status = "superseded" /\ SuperOf(j)'.next = j
                        /\ Staged(j)' => points'[j].prev = points'[j].supersedes
    BY DEF ChainBack
  <2>1. CASE points[j].supersedes = None
    <3>1. None \notin Ids
      BY ConstantsAssumption
    <3>2. Committed(j) /\ points[j].version = 1
      BY <2>1, <3>1, <1>4 DEF HistoryOK, ChainBack
    <3>3. QED
      BY <2>1, <3>2, <1>4
  <2>2. CASE points[j].supersedes # None
    <3> DEFINE q == points[j].supersedes
    <3>1. /\ q \in Ids
          /\ points[q].key = points[j].key /\ points[j].version = points[q].version + 1
          /\ Committed(j) => points[q].status = "superseded" /\ points[q].next = j
          /\ Staged(j) => points[j].prev = q
      BY <2>2, <1>4 DEF HistoryOK, ChainBack, SuperOf
    <3>2. points'[j].supersedes = q /\ SuperOf(j)' = points'[q]
      BY <1>4 DEF SuperOf
    <3>3. Committed(j) => q # p
      BY <3>1, <1>1
    <3>4. Staged(j) => points'[j].prev = points[j].prev
      BY <1>1, <1>2 DEF Staged
    <3>5. points'[q].key = points[q].key /\ points'[q].version = points[q].version
      BY <3>1, <1>4
    <3>6. Committed(j) => points'[q] = points[q]
      BY <3>1, <3>3, <1>2
    <3> HIDE DEF q
    <3>7. QED
      BY <3>1, <3>2, <3>4, <3>5, <3>6, <1>4
  <2>3. QED
    BY <2>1, <2>2
<1>9. ChainForward'
  <2> SUFFICES ASSUME NEW j \in Ids, points'[j].status = "superseded"
               PROVE /\ points'[j].next \in Ids /\ points'[points'[j].next].status # "absent"
                     /\ points'[points'[j].next].supersedes = j
    BY DEF ChainForward, IsPresent
  <2>1. CASE j = p
    <3>1. points'[p].next = s /\ points'[s] = points[s]
      BY <1>1, <1>2
    <3>2. QED
      BY <2>1, <3>1, <1>3 DEF IsPresent
  <2>2. CASE j # p
    <3>1. points'[j] = points[j]
      BY <2>2, <1>2
    <3>2. points[j].next \in Ids /\ IsPresent(points[j].next) /\ points[points[j].next].supersedes = j
      BY <3>1 DEF HistoryOK, ChainForward
    <3>3. QED
      BY <3>1, <3>2, <1>4 DEF IsPresent
  <2>3. QED
    BY <2>1, <2>2
<1>10. HeadExists'
  <2> SUFFICES ASSUME NEW j \in Ids, Committed(j)'
               PROVE \E h \in Ids : Head(h)' /\ points'[h].key = points'[j].key
    BY DEF HeadExists
  <2>1. CASE points[j].key = points[p].key
    BY <2>1, <1>3, <1>4, <1>5
  <2>2. CASE points[j].key # points[p].key
    BY <2>2, <1>4, <1>7 DEF HistoryOK, HeadExists
  <2>3. QED
    BY <2>1, <2>2
<1>11. HeadNewest'
  <2> SUFFICES ASSUME NEW i \in Ids, NEW j \in Ids, Committed(i)', Head(j)', points[i].key = points[j].key
               PROVE i = j \/ points[i].version < points[j].version
    BY <1>4 DEF HeadNewest
  <2>0. Committed(i)
    BY <1>4
  <2>1. CASE points[j].key = points[p].key
    <3>1. j = s
      BY <2>1, <1>6
    <3>2. i = p \/ points[i].version < points[p].version
      BY <2>0, <2>1, <1>5 DEF HistoryOK, HeadNewest
    <3>3. points[i].version \in Nat /\ points[p].version \in Nat
      BY DEF TInv, TypeOK, Records
    <3>4. QED
      BY <3>1, <3>2, <3>3, <1>3
  <2>2. CASE points[j].key # points[p].key
    BY <2>0, <2>2, <1>7 DEF HistoryOK, HeadNewest
  <2>3. QED
    BY <2>1, <2>2
<1>12. NoFork'
  BY <1>4 DEF HistoryOK, NoFork
<1>13. QED
  BY <1>8, <1>9, <1>10, <1>11, <1>12 DEF HistoryOK

\* An activated version was the head and still is.
LEMMA ActivateHeads ==
  ASSUME TInv, SInv, SInv', HistoryOK, NEW s \in Ids, Activates(s)
  PROVE  /\ /\ Staged(s) /\ Prev(s).status = "superseded" /\ ~Committed(s)
            /\ points'[s].status = "active" /\ Head(s) /\ Head(s)' /\ Committed(s)' /\ ~Staged(s)'
         /\ \A j \in Ids : j # s => points'[j] = points[j]
         /\ /\ points[s].supersedes \in Ids /\ points[s].prev = points[s].supersedes
            /\ points[s].prev # s /\ Prev(s).next = s
            /\ Prev(s).key = points[s].key /\ points[s].version = Prev(s).version + 1
         /\ \A j \in Ids : /\ points'[j].key = points[j].key /\ points'[j].version = points[j].version
                           /\ points'[j].supersedes = points[j].supersedes
                           /\ IsPresent(j)' <=> IsPresent(j)
                           /\ Head(j)' <=> Head(j)
         /\ \A j \in Ids : j # s => (Committed(j)' <=> Committed(j)) /\ (Staged(j)' <=> Staged(j))
<1>1. /\ Staged(s) /\ Prev(s).status = "superseded" /\ ~Committed(s)
      /\ points'[s].status = "active" /\ Head(s) /\ Head(s)' /\ Committed(s)' /\ ~Staged(s)'
  BY ActivateFields DEF Activates, Staged, Head, Committed
<1>2. \A j \in Ids : j # s => points'[j] = points[j]
  BY ActivateFields
<1>3. /\ points[s].supersedes \in Ids /\ points[s].prev = points[s].supersedes
      /\ points[s].prev # s /\ Prev(s).next = s
      /\ Prev(s).key = points[s].key /\ points[s].version = Prev(s).version + 1
  <2>1. IsPresent(s)
    BY <1>1 DEF Staged, IsPresent
  <2>2. /\ points[s].supersedes \in Ids /\ points[s].prev = points[s].supersedes
        /\ points[s].version = SuperOf(s).version + 1
    BY <1>1, <2>1 DEF HistoryOK, ChainBack
  <2>3. Prev(s).status # "active"
    BY <1>1
  <2>4. Prev(s).next = s /\ Prev(s).key = points[s].key
    BY <1>1, <2>3 DEF SInv, PointsOK, StagedOK
  <2>5. points[s].prev # s
    BY <1>1 DEF Prev, Staged
  <2>6. QED
    BY <2>2, <2>4, <2>5 DEF SuperOf, Prev
<1>4. \A j \in Ids : /\ points'[j].key = points[j].key /\ points'[j].version = points[j].version
                     /\ points'[j].supersedes = points[j].supersedes
                     /\ IsPresent(j)' <=> IsPresent(j)
                     /\ Head(j)' <=> Head(j)
  <2> SUFFICES ASSUME NEW j \in Ids
               PROVE /\ points'[j].key = points[j].key /\ points'[j].version = points[j].version
                     /\ points'[j].supersedes = points[j].supersedes
                     /\ IsPresent(j)' <=> IsPresent(j)
                     /\ Head(j)' <=> Head(j)
    OBVIOUS
  <2>1. CASE j = s
    <3>1. /\ points'[s].key = points[s].key /\ points'[s].version = points[s].version
          /\ points'[s].supersedes = points[s].supersedes
      BY ActivateFields
    <3>2. IsPresent(s)' /\ IsPresent(s)
      BY <1>1 DEF IsPresent, Staged
    <3>3. QED
      BY <2>1, <1>1, <3>1, <3>2
  <2>2. CASE j # s
    <3>1. points'[j] = points[j]
      BY <2>2, <1>2
    <3>2. Staged(j) => points[j].prev \in Ids /\ points[j].prev # s
      BY <1>1, PrevCommitted
    <3>3. Staged(j) => Prev(j)' = Prev(j)
      BY <3>1, <3>2, <1>2 DEF Prev
    <3>4. QED
      BY <3>1, <3>3 DEF Staged, IsPresent, Head
  <2>3. QED
    BY <2>1, <2>2
<1>5. \A j \in Ids : j # s => (Committed(j)' <=> Committed(j)) /\ (Staged(j)' <=> Staged(j))
  BY <1>2 DEF Committed, Staged
<1>13. QED
  BY <1>1, <1>2, <1>3, <1>4, <1>5

\* The staged head activated: the same head, now committed.
LEMMA HistoryActivate ==
  ASSUME TInv, SInv, SInv', HistoryOK, NEW s \in Ids, Activates(s)
  PROVE  HistoryOK'
<1>1. /\ Staged(s) /\ Prev(s).status = "superseded" /\ ~Committed(s)
      /\ points'[s].status = "active" /\ Head(s) /\ Head(s)' /\ Committed(s)' /\ ~Staged(s)'
  BY ActivateHeads
<1>2. \A j \in Ids : j # s => points'[j] = points[j]
  BY ActivateHeads
<1>3. /\ points[s].supersedes \in Ids /\ points[s].prev = points[s].supersedes
      /\ points[s].prev # s /\ Prev(s).next = s
      /\ Prev(s).key = points[s].key /\ points[s].version = Prev(s).version + 1
  BY ActivateHeads
<1>4. \A j \in Ids : /\ points'[j].key = points[j].key /\ points'[j].version = points[j].version
                     /\ points'[j].supersedes = points[j].supersedes
                     /\ IsPresent(j)' <=> IsPresent(j)
                     /\ Head(j)' <=> Head(j)
  BY ActivateHeads
<1>5. \A j \in Ids : j # s => (Committed(j)' <=> Committed(j)) /\ (Staged(j)' <=> Staged(j))
  BY ActivateHeads
<1>8. ChainBack'
  <2> SUFFICES ASSUME NEW j \in Ids, IsPresent(j)'
               PROVE \/ points'[j].supersedes = None /\ Committed(j)' /\ points'[j].version = 1
                     \/ /\ points'[j].supersedes \in Ids
                        /\ SuperOf(j)'.key = points'[j].key /\ points'[j].version = SuperOf(j)'.version + 1
                        /\ Committed(j)' => SuperOf(j)'.status = "superseded" /\ SuperOf(j)'.next = j
                        /\ Staged(j)' => points'[j].prev = points'[j].supersedes
    BY DEF ChainBack
  <2>0. IsPresent(j)
    BY <1>4
  <2>1. CASE j = s
    <3>1. SuperOf(s)' = Prev(s)
      BY <1>2, <1>3, <1>4 DEF SuperOf, Prev
    <3>2. QED
      BY <2>1, <3>1, <1>1, <1>3, <1>4
  <2>2. CASE j # s
    <3>1. points'[j] = points[j]
      BY <2>2, <1>2
    <3>2. points[j].supersedes # None => points[j].supersedes \in Ids /\ points[j].supersedes # s
      BY <2>0, <1>1, SuperCommitted
    <3>3. points[j].supersedes # None => SuperOf(j)' = SuperOf(j)
      BY <3>1, <3>2, <1>2 DEF SuperOf
    <3>4. None \notin Ids
      BY ConstantsAssumption
    <3>5. QED
      BY <2>0, <2>2, <3>1, <3>3, <3>4, <1>5 DEF HistoryOK, ChainBack
  <2>3. QED
    BY <2>1, <2>2
<1>9. ChainForward'
  <2> SUFFICES ASSUME NEW j \in Ids, points'[j].status = "superseded"
               PROVE /\ points'[j].next \in Ids /\ points'[points'[j].next].status # "absent"
                     /\ points'[points'[j].next].supersedes = j
    BY DEF ChainForward, IsPresent
  <2>1. points'[j] = points[j]
    BY <1>1, <1>2
  <2>2. points[j].next \in Ids /\ IsPresent(points[j].next) /\ points[points[j].next].supersedes = j
    BY <2>1 DEF HistoryOK, ChainForward
  <2>3. QED
    BY <2>1, <2>2, <1>4 DEF IsPresent
<1>10. HeadExists'
  <2> SUFFICES ASSUME NEW j \in Ids, Committed(j)'
               PROVE \E h \in Ids : Head(h)' /\ points'[h].key = points'[j].key
    BY DEF HeadExists
  <2>1. CASE j = s
    BY <2>1, <1>1
  <2>2. CASE j # s
    BY <2>2, <1>4, <1>5 DEF HistoryOK, HeadExists
  <2>3. QED
    BY <2>1, <2>2
<1>11. HeadNewest'
  <2> SUFFICES ASSUME NEW i \in Ids, NEW j \in Ids, Committed(i)', Head(j)', points[i].key = points[j].key
               PROVE i = j \/ points[i].version < points[j].version
    BY <1>4 DEF HeadNewest
  <2>1. CASE i = s
    BY <2>1, <1>1, <1>4 DEF SInv, PointsOK, OneHead
  <2>2. CASE i # s
    BY <2>2, <1>4, <1>5 DEF HistoryOK, HeadNewest
  <2>3. QED
    BY <2>1, <2>2
<1>12. NoFork'
  <2> SUFFICES ASSUME NEW i \in Ids, NEW j \in Ids, Committed(i)', Committed(j)', i # j,
                      points[i].key = points[j].key, points[i].version = points[j].version
               PROVE FALSE
    BY <1>4 DEF NoFork
  <2>0. points[i].version \in Nat /\ points[j].version \in Nat
    BY DEF TInv, TypeOK, Records
  <2>1. CASE i = s
    <3>1. Committed(j)
      BY <2>1, <1>5
    <3>2. points[j].version < points[s].version
      BY <2>1, <3>1, <1>1 DEF HistoryOK, HeadNewest
    <3>3. QED
      BY <2>0, <2>1, <3>2
  <2>2. CASE j = s
    <3>1. Committed(i)
      BY <2>2, <1>5
    <3>2. points[i].version < points[s].version
      BY <2>2, <3>1, <1>1 DEF HistoryOK, HeadNewest
    <3>3. QED
      BY <2>0, <2>2, <3>2
  <2>3. CASE i # s /\ j # s
    BY <2>3, <1>5 DEF HistoryOK, NoFork
  <2>4. QED
    BY <2>1, <2>2, <2>3
<1>13. QED
  BY <1>8, <1>9, <1>10, <1>11, <1>12 DEF HistoryOK

\* Extensions written back disturb no head.
LEMMA RewriteHeads ==
  ASSUME TInv, SInv, HistoryOK, NEW m \in maint, Rewrites(m)
  PROVE  /\ \A j \in Ids : /\ points'[j].status = points[j].status /\ points'[j].next = points[j].next
                           /\ points'[j].key = points[j].key /\ points'[j].version = points[j].version
                           /\ points'[j].supersedes = points[j].supersedes
                           /\ Staged(j) => points'[j].prev = points[j].prev
         /\ \A j \in Ids : /\ Committed(j)' <=> Committed(j)
                           /\ Staged(j)' <=> Staged(j)
                           /\ IsPresent(j)' <=> IsPresent(j)
                           /\ Head(j)' <=> Head(j)
<1>1. \A j \in Ids : /\ points'[j].status = points[j].status /\ points'[j].next = points[j].next
                     /\ points'[j].key = points[j].key /\ points'[j].version = points[j].version
                     /\ points'[j].supersedes = points[j].supersedes
                     /\ Staged(j) => points'[j].prev = points[j].prev
  BY RewriteFields
<1>2. \A j \in Ids : /\ Committed(j)' <=> Committed(j)
                     /\ Staged(j)' <=> Staged(j)
                     /\ IsPresent(j)' <=> IsPresent(j)
                     /\ Head(j)' <=> Head(j)
  <2> SUFFICES ASSUME NEW j \in Ids
               PROVE /\ Committed(j)' <=> Committed(j)
                     /\ Staged(j)' <=> Staged(j)
                     /\ IsPresent(j)' <=> IsPresent(j)
                     /\ Head(j)' <=> Head(j)
    OBVIOUS
  <2>1. Staged(j) => points[j].prev \in Ids /\ points'[j].prev = points[j].prev
    BY <1>1, PrevCommitted
  <2>2. Staged(j) => Prev(j)'.status = Prev(j).status
    BY <2>1, <1>1 DEF Prev
  <2>3. QED
    BY <1>1, <2>2 DEF Committed, Staged, IsPresent, Head
<1>13. QED
  BY <1>1, <1>2

\* Extensions written back leave the history as it is.
LEMMA HistoryRewrite ==
  ASSUME TInv, SInv, HistoryOK, NEW m \in maint, Rewrites(m)
  PROVE  HistoryOK'
<1>1. \A j \in Ids : /\ points'[j].status = points[j].status /\ points'[j].next = points[j].next
                     /\ points'[j].key = points[j].key /\ points'[j].version = points[j].version
                     /\ points'[j].supersedes = points[j].supersedes
                     /\ Staged(j) => points'[j].prev = points[j].prev
  BY RewriteHeads
<1>2. \A j \in Ids : /\ Committed(j)' <=> Committed(j)
                     /\ Staged(j)' <=> Staged(j)
                     /\ IsPresent(j)' <=> IsPresent(j)
                     /\ Head(j)' <=> Head(j)
  BY RewriteHeads
<1>3. ChainBack'
  <2> SUFFICES ASSUME NEW j \in Ids, IsPresent(j)'
               PROVE \/ points'[j].supersedes = None /\ Committed(j)' /\ points'[j].version = 1
                     \/ /\ points'[j].supersedes \in Ids
                        /\ SuperOf(j)'.key = points'[j].key /\ points'[j].version = SuperOf(j)'.version + 1
                        /\ Committed(j)' => SuperOf(j)'.status = "superseded" /\ SuperOf(j)'.next = j
                        /\ Staged(j)' => points'[j].prev = points'[j].supersedes
    BY DEF ChainBack
  <2>1. points[j].supersedes \in Ids =>
          /\ SuperOf(j)'.key = SuperOf(j).key /\ SuperOf(j)'.version = SuperOf(j).version
          /\ SuperOf(j)'.status = SuperOf(j).status /\ SuperOf(j)'.next = SuperOf(j).next
    BY <1>1 DEF SuperOf
  <2>2. IsPresent(j)
    BY <1>2
  <2>3. QED
    BY <2>1, <2>2, <1>1, <1>2 DEF HistoryOK, ChainBack
<1>4. ChainForward'
  <2> SUFFICES ASSUME NEW j \in Ids, points'[j].status = "superseded"
               PROVE /\ points'[j].next \in Ids /\ points'[points'[j].next].status # "absent"
                     /\ points'[points'[j].next].supersedes = j
    BY DEF ChainForward, IsPresent
  <2>1. points[j].next \in Ids /\ IsPresent(points[j].next) /\ points[points[j].next].supersedes = j
    BY <1>1 DEF HistoryOK, ChainForward
  <2>2. QED
    BY <1>1, <2>1 DEF IsPresent
<1>5. HeadExists'
  BY <1>1, <1>2 DEF HistoryOK, HeadExists
<1>6. HeadNewest'
  BY <1>1, <1>2 DEF HistoryOK, HeadNewest
<1>7. NoFork'
  BY <1>1, <1>2 DEF HistoryOK, NoFork
<1>8. QED
  BY <1>3, <1>4, <1>5, <1>6, <1>7 DEF HistoryOK

\* No records, no history.
LEMMA HistoryInit == Init => HistoryOK
<1> SUFFICES ASSUME Init PROVE HistoryOK
  OBVIOUS
<1>1. \A i \in Ids : points[i].status = "absent"
  BY DEF Init, Absent
<1>2. \A i \in Ids : ~IsPresent(i) /\ ~Committed(i)
  BY <1>1 DEF IsPresent, Committed
<1>3. QED
  BY <1>1, <1>2 DEF HistoryOK, ChainBack, ChainForward, HeadExists, HeadNewest, NoFork

\* Records as they were, history as it was.
LEMMA HistorySame == ASSUME HistoryOK, points' = points PROVE HistoryOK'
BY DEF HistoryOK, ChainBack, ChainForward, HeadExists, HeadNewest, NoFork,
       IsPresent, Committed, Staged, Prev, SuperOf, Head

\* Every step keeps the history one line for each identity.
LEMMA HistoryStep ==
  ASSUME Deployed, TInv, SInv, HistoryOK, Next
  PROVE  HistoryOK'
<1>1. SInv'
  BY SafetyStep
<1>2. QED
  BY <1>1, PointCases, HistorySame, HistoryInsert, HistoryStage, HistorySupersede,
     HistoryActivate, HistoryRewrite

\* The invariant of the history holds in every behaviour of a proper deployment.
LEMMA HistoryInductive == ASSUME Deployed PROVE Spec => []HInv
<1>1. Init => HistoryOK
  BY HistoryInit
<1>2. TInv /\ SInv /\ HistoryOK /\ [Next]_vars => HistoryOK'
  <2> SUFFICES ASSUME TInv, SInv, HistoryOK, [Next]_vars PROVE HistoryOK'
    OBVIOUS
  <2>1. CASE Next
    BY <2>1, HistoryStep
  <2>2. CASE UNCHANGED vars
    BY <2>2, HistorySame DEF vars
  <2>3. QED
    BY <2>1, <2>2
<1>3. QED
  BY <1>1, <1>2, Inductive, PTL DEF Spec, HInv

(***************************************************************************)
(* No version repeats the one it supersedes.                               *)
(***************************************************************************)
\* ... nor does a call about to write one, when no caller forces it
FreshCall(t) == /\ ~loc[t].forced
                /\ pc[t] = "upsert" /\ loc[t].prev # None =>
                     loc[t].content # points[loc[t].prev].content

\* A thread that did not move knows what it knew: the record it will supersede is present.
LEMMA CallSame ==
  ASSUME Deployed, TInv, SInv, Next, NEW t \in Threads, FreshCall(t),
         pc'[t] = pc[t], loc'[t] = loc[t]
  PROVE  FreshCall(t)'
<1>1. CASE pc[t] = "upsert" /\ loc[t].prev # None
  <2>1. loc[t].prev \in Ids
    BY <1>1 DEF TInv, TypeOK, Locals, OptId
  <2>2. points[loc[t].prev].status = "active"
    BY <1>1 DEF SInv, ThreadsOK, ThreadOK, AtUpsert
  <2>3. points'[loc[t].prev].content = points[loc[t].prev].content
    BY <2>1, <2>2, AppendOnly DEF Kept, IsPresent
  <2>4. QED
    BY <1>1, <2>3 DEF FreshCall
<1>2. CASE ~(pc[t] = "upsert" /\ loc[t].prev # None)
  BY <1>2 DEF FreshCall
<1>3. QED
  BY <1>1, <1>2

\* A thread on its way to another write than an upsert has nothing to know.
LEMMA CallGone ==
  ASSUME NEW t \in Threads, pc'[t] # "upsert", ~loc'[t].forced
  PROVE  FreshCall(t)'
BY DEF FreshCall

\* A thread that leaves is idle and holds no call.
LEMMA CallLeft ==
  ASSUME TInv, NEW t \in Threads, NEW ok, Leave(t, ok)
  PROVE  Others(t) /\ FreshCall(t)'
<1>1. Others(t) /\ pc'[t] = "idle"
  BY LeaveFrame
<1>2. loc'[t] = NoLocals
  BY DEF Leave, TInv, TypeOK
<1>3. ~NoLocals.forced
  BY DEF NoLocals
<1>4. QED
  BY <1>1, <1>2, <1>3, CallGone

\* ... as does one that only moves on, but not to an upsert.
LEMMA CallGoes ==
  ASSUME TInv, NEW t \in Threads, FreshCall(t), NEW l, l # "upsert", Goto(t, l), UNCHANGED loc
  PROVE  Others(t) /\ FreshCall(t)'
<1>1. Others(t) /\ pc'[t] = l
  BY DEF Goto, Others, TInv, TypeOK
<1>2. QED
  BY <1>1, CallGone DEF FreshCall

\* Between recovery and what follows it no thread prepares a write.
LEMMA CallRecovered ==
  ASSUME TInv, NEW t \in Threads, FreshCall(t), AfterRecovery(t)
  PROVE  Others(t) /\ FreshCall(t)'
<1>1. CASE Goto(t, "search") /\ UNCHANGED loc
  BY <1>1, CallGoes
<1>2. ASSUME NEW k \in loc[t].todo, loc' = [loc EXCEPT ![t].key = k, ![t].todo = @ \ {k}], Goto(t, "lock")
      PROVE  Others(t) /\ FreshCall(t)'
  <2>1. Others(t) /\ pc'[t] = "lock"
    BY <1>2 DEF Goto, Others, TInv, TypeOK
  <2>2. loc[t] \in Locals /\ loc'[t] = [loc[t] EXCEPT !.key = k, !.todo = loc[t].todo \ {k}]
    BY <1>2 DEF TInv, TypeOK
  <2>3. loc'[t].forced = loc[t].forced
    BY <2>2 DEF Locals
  <2>4. QED
    BY <2>1, <2>3, CallGone DEF FreshCall
<1>3. CASE Leave(t, TRUE)
  BY <1>3, CallLeft
<1>4. QED
  BY <1>1, <1>2, <1>3 DEF AfterRecovery

\* The lookup is what a call about to write knows: the content differs.
LEMMA CallSearched ==
  ASSUME TInv, NEW t \in Threads, FreshCall(t), Search(t)
  PROVE  Others(t) /\ FreshCall(t)'
<1>1. CASE Leave(t, FALSE) \/ Leave(t, TRUE)
  BY <1>1, CallLeft
<1>2. ASSUME NEW p \in OptId, NEW n \in OptId, Goto(t, "upsert"), points' = points,
             ~(p # None /\ points[p].content = loc[t].content /\ ~loc[t].forced),
             loc' = [loc EXCEPT ![t].prev = p, ![t].staged = None, ![t].prevNext = n]
      PROVE  Others(t) /\ FreshCall(t)'
  <2>1. Others(t)
    BY <1>2 DEF Goto, Others, TInv, TypeOK
  <2>2. loc[t] \in Locals /\ loc'[t] = [loc[t] EXCEPT !.prev = p, !.staged = None, !.prevNext = n]
    BY <1>2 DEF TInv, TypeOK
  <2>3. loc'[t].forced = loc[t].forced /\ loc'[t].prev = p /\ loc'[t].content = loc[t].content
    BY <2>2 DEF Locals
  <2>4. QED
    BY <1>2, <2>1, <2>3 DEF FreshCall
<1>3. \/ Leave(t, FALSE) \/ Leave(t, TRUE)
      \/ \E p \in OptId, n \in OptId :
           /\ Goto(t, "upsert") /\ points' = points
           /\ ~(p # None /\ points[p].content = loc[t].content /\ ~loc[t].forced)
           /\ loc' = [loc EXCEPT ![t].prev = p, ![t].staged = None, ![t].prevNext = n]
  <2>1. \A p \in OptId : (IF p = None THEN None ELSE points[p].next) \in OptId
    BY DEF TInv, TypeOK, Records, OptId
  <2>2. QED
    BY ZenonT(60), <2>1 DEF Search
<1>4. QED
  BY <1>1, <1>2, <1>3

\* A step of a thread leaves every call with new content.
LEMMA CallMoves ==
  ASSUME TInv, NEW t \in Threads, FreshCall(t),
         \/ AcquireGuard(t) \/ AcquireLock(t) \/ Step(t) \/ CallFails(t)
         \/ \E i \in OptId : WriteLostAnswer(t, i) \/ WriteTimesOut(t, i)
  PROVE  Others(t) /\ FreshCall(t)'
<1>1. CASE \E ok \in BOOLEAN : Leave(t, ok)
  BY <1>1, CallLeft
<1>2. CASE \E l \in PCs \ {"upsert"} : Goto(t, l) /\ UNCHANGED loc
  BY <1>2, CallGoes
<1>3. CASE AfterRecovery(t)
  BY <1>3, CallRecovered
<1>4. CASE Search(t)
  BY <1>4, CallSearched
<1>5. ASSUME NEW k, NEW d, loc' = [loc EXCEPT ![t].key = k, ![t].todo = d], Goto(t, "lock")
      PROVE  Others(t) /\ FreshCall(t)'
  <2>1. Others(t) /\ pc'[t] = "lock"
    BY <1>5 DEF Goto, Others, TInv, TypeOK
  <2>2. loc[t] \in Locals /\ loc'[t] = [loc[t] EXCEPT !.key = k, !.todo = d]
    BY <1>5 DEF TInv, TypeOK
  <2>3. loc'[t].forced = loc[t].forced
    BY <2>2 DEF Locals
  <2>4. QED
    BY <2>1, <2>3, CallGone DEF FreshCall
<1>6. ASSUME NEW s, NEW p, NEW l, l \in {"retrieve", "supersede"}, Goto(t, l),
             \/ loc' = [loc EXCEPT ![t].staged = s, ![t].prev = p]
             \/ loc' = [loc EXCEPT ![t].staged = s]
      PROVE  Others(t) /\ FreshCall(t)'
  <2>1. Others(t) /\ pc'[t] = l
    BY <1>6 DEF Goto, Others, TInv, TypeOK
  <2>2. /\ loc[t] \in Locals
        /\ \/ loc'[t] = [loc[t] EXCEPT !.staged = s, !.prev = p]
           \/ loc'[t] = [loc[t] EXCEPT !.staged = s]
    BY <1>6 DEF TInv, TypeOK
  <2>3. loc'[t].forced = loc[t].forced
    BY <2>2 DEF Locals
  <2>4. QED
    BY <1>6, <2>1, <2>3, CallGone DEF FreshCall
<1>7. \/ \E ok \in BOOLEAN : Leave(t, ok)
      \/ \E l \in PCs \ {"upsert"} : Goto(t, l) /\ UNCHANGED loc
      \/ AfterRecovery(t)
      \/ Search(t)
      \/ \E k, d : loc' = [loc EXCEPT ![t].key = k, ![t].todo = d] /\ Goto(t, "lock")
      \/ \E s, p : \E l \in {"retrieve", "supersede"} :
           /\ Goto(t, l)
           /\ \/ loc' = [loc EXCEPT ![t].staged = s, ![t].prev = p]
              \/ loc' = [loc EXCEPT ![t].staged = s]
  <2> DEFINE Left == \E ok \in BOOLEAN : Leave(t, ok)
             Went == \E l \in PCs \ {"upsert"} : Goto(t, l) /\ UNCHANGED loc
             Next1 == \E k, d : loc' = [loc EXCEPT ![t].key = k, ![t].todo = d] /\ Goto(t, "lock")
             Took == \E s, p : \E l \in {"retrieve", "supersede"} :
                       /\ Goto(t, l)
                       /\ \/ loc' = [loc EXCEPT ![t].staged = s, ![t].prev = p]
                          \/ loc' = [loc EXCEPT ![t].staged = s]
  <2>0. \A l \in {"lock", "reconcile", "recover", "r_supersede", "r_activate", "activate"} :
          Goto(t, l) /\ UNCHANGED loc => Went
    BY DEF PCs
  <2>e. TRUE \in BOOLEAN /\ FALSE \in BOOLEAN
    OBVIOUS
  <2>1. CASE AcquireGuard(t) \/ AcquireLock(t)
    BY <2>0, <2>1 DEF AcquireGuard, AcquireLock
  <2>2. CASE ReconcileScan(t)
    <3>1. (\E ok \in BOOLEAN : Leave(t, ok)) \/ Next1
      BY <2>2 DEF ReconcileScan
    <3>2. QED
      BY <3>1
  <2>3. CASE RecoverScan(t)
    <3>1. AfterRecovery(t) \/ Leave(t, FALSE) \/ Took
      BY <2>3 DEF RecoverScan
    <3>2. QED
      BY <3>1, <2>e
  <2>4. CASE RecoverRetrieve(t)
    <3>1. Leave(t, FALSE) \/ \E l \in {"r_supersede", "r_activate"} : Goto(t, l) /\ UNCHANGED loc
      BY <2>4 DEF RecoverRetrieve
    <3>2. QED
      BY <3>1, <2>0, <2>e
  <2>5. CASE RecoverSupersede(t)
    BY <2>0, <2>5 DEF RecoverSupersede
  <2>6. CASE RecoverActivate(t)
    BY <2>6 DEF RecoverActivate
  <2>7. ASSUME NEW i \in Ids, Upsert(t, i) PROVE Left \/ Took
    BY <2>7, <2>e DEF Upsert
  <2>8. CASE Supersede(t)
    <3>1. Leave(t, FALSE) \/ (Goto(t, "activate") /\ UNCHANGED loc)
      BY <2>8 DEF Supersede
    <3>2. QED
      BY <3>1, <2>0, <2>e
  <2>9. CASE Activate(t) \/ EmbedFails(t) \/ CallFails(t)
    BY <2>9, <2>e DEF Activate, EmbedFails, CallFails
  <2>10. ASSUME NEW i \in OptId, WriteLostAnswer(t, i) \/ WriteTimesOut(t, i) PROVE Left
    BY <2>10, <2>e DEF WriteLostAnswer, WriteTimesOut
  <2>11. QED
    BY <2>1, <2>2, <2>3, <2>4, <2>5, <2>6, <2>7, <2>8, <2>9, <2>10 DEF Step
<1>8. QED
  BY <1>1, <1>2, <1>3, <1>4, <1>5, <1>6, <1>7

\* ... which goes for every thread
CallsFresh == \A t \in Threads : FreshCall(t)

\* So does every step, when no caller forces an evolution.
LEMMA CallsStep ==
  ASSUME Deployed, ForceInputs \subseteq {FALSE}, TInv, SInv, CallsFresh, Next
  PROVE  CallsFresh'
<1>1. ASSUME NEW t \in Threads, Others(t), FreshCall(t)' PROVE CallsFresh'
  BY <1>1, CallSame DEF CallsFresh, Others
<1>2. ASSUME pc' = pc, loc' = loc PROVE CallsFresh'
  BY <1>2, CallSame DEF CallsFresh
<1>3. ASSUME NEW t \in Threads, NEW k \in Keys, StoreAny(t, k) PROVE CallsFresh'
  <2>1. PICK c \in Contents, f \in ForceInputs, x \in OptId : StoreBegin(t, k, c, f, x)
    BY <1>3 DEF StoreAny
  <2>2. Others(t) /\ pc'[t] = "guard"
    BY <2>1 DEF StoreBegin, Goto, Others, TInv, TypeOK
  <2>3. loc'[t].forced = f /\ f = FALSE
    BY <2>1 DEF StoreBegin, TInv, TypeOK, NoLocals
  <2>4. QED
    BY <1>1, <2>2, <2>3, CallGone
<1>4. ASSUME NEW t \in Threads, Restart(t) PROVE CallsFresh'
  <2>1. Others(t) /\ pc'[t] = "guard"
    BY <1>4 DEF Restart, Goto, Others, TInv, TypeOK
  <2>2. loc'[t].forced = FALSE
    BY <1>4 DEF Restart, TInv, TypeOK, NoLocals
  <2>3. QED
    BY <1>1, <2>1, <2>2, CallGone
<1>5. ASSUME NEW t \in Threads,
             \/ AcquireGuard(t) \/ AcquireLock(t) \/ Step(t) \/ CallFails(t)
             \/ \E i \in OptId : WriteLostAnswer(t, i) \/ WriteTimesOut(t, i)
      PROVE  CallsFresh'
  BY <1>1, <1>5, CallMoves DEF CallsFresh
<1>6. ASSUME NEW p \in Procs, Crash(p) PROVE CallsFresh'
  <2> SUFFICES ASSUME NEW t \in Threads PROVE FreshCall(t)'
    BY DEF CallsFresh
  <2>1. CASE ProcOf[t] = p
    <3>1. pc'[t] = "idle" /\ loc'[t] = NoLocals
      BY <1>6, <2>1 DEF Crash
    <3>2. ~NoLocals.forced
      BY DEF NoLocals
    <3>3. QED
      BY <3>1, <3>2, CallGone
  <2>2. CASE ProcOf[t] # p
    <3>1. pc'[t] = pc[t] /\ loc'[t] = loc[t]
      BY <1>6, <2>2 DEF Crash
    <3>2. QED
      BY <3>1, CallSame DEF CallsFresh
  <2>3. QED
    BY <2>1, <2>2
<1>7. ASSUME \/ \E w \in late : DeliverLate(w)
             \/ RebuildRead
             \/ \E m \in maint : RebuildWrite(m)
      PROVE  CallsFresh'
  BY <1>2, <1>7 DEF DeliverLate, RebuildRead, RebuildWrite
<1>8. QED
  BY <1>3, <1>4, <1>5, <1>6, <1>7 DEF Next

\* A step writes no version that repeats the one it supersedes.
LEMMA ContentStep ==
  ASSUME Deployed, TInv, SInv, HistoryOK, CallsFresh, NewContent, Next
  PROVE  NewContent'
<1> SUFFICES ASSUME NEW i \in Ids, IsPresent(i)', points'[i].supersedes # None
             PROVE  points'[i].content # SuperOf(i)'.content
  BY DEF NewContent
<1>1. CASE IsPresent(i)
  <2>1. points'[i].supersedes = points[i].supersedes /\ points'[i].content = points[i].content
    BY <1>1, AppendOnly DEF Kept
  <2>2. points[i].supersedes \in Ids /\ IsPresent(points[i].supersedes)
    BY <1>1, <2>1, SuperCommitted DEF Committed, IsPresent
  <2>3. points'[points[i].supersedes].content = points[points[i].supersedes].content
    BY <2>2, AppendOnly DEF Kept
  <2>4. QED
    BY <1>1, <2>1, <2>3 DEF NewContent, SuperOf
<1>2. CASE ~IsPresent(i)
  <2>1. PICK t \in Threads, j \in Ids : pc[t] = "upsert" /\ (Inserts(t, j) \/ Stages(t, j))
    <3>1. points' # points
      BY <1>2 DEF IsPresent
    <3>2. \A p, s \in Ids : ~Supersedes(p, s)
      <4> SUFFICES ASSUME NEW p \in Ids, NEW s \in Ids, Supersedes(p, s) PROVE FALSE
        OBVIOUS
      <4>1. i # p
        BY <1>2 DEF Supersedes, IsPresent
      <4>2. points'[i] = points[i]
        BY <4>1, SupersedeFields
      <4>3. QED
        BY <1>2, <4>2 DEF IsPresent
    <3>3. \A s \in Ids : ~Activates(s)
      <4> SUFFICES ASSUME NEW s \in Ids, Activates(s) PROVE FALSE
        OBVIOUS
      <4>1. i # s
        BY <1>2 DEF Activates, IsPresent, Staged
      <4>2. points'[i] = points[i]
        BY <4>1, ActivateFields
      <4>3. QED
        BY <1>2, <4>2 DEF IsPresent
    <3>4. \A m \in maint : ~Rewrites(m)
      BY <1>2, RewriteFields DEF IsPresent
    <3>5. QED
      BY <3>1, <3>2, <3>3, <3>4, PointCases
  <2>2. points' = [points EXCEPT ![j] = NewRecord(t)]
    BY <2>1 DEF Inserts, Stages
  <2>3. points'[j] = NewRecord(t) /\ \A k \in Ids : k # j => points'[k] = points[k]
    BY <2>2, InsertFields
  <2>4. i = j
    BY <1>2, <2>3 DEF IsPresent
  <2>5. points'[i].content = loc[t].content /\ points'[i].supersedes = loc[t].prev
    BY <2>3, <2>4 DEF NewRecord
  <2>6. loc[t].prev # None /\ loc[t].content # points[loc[t].prev].content
    BY <2>1, <2>5 DEF CallsFresh, FreshCall
  <2>7. loc[t].prev \in Ids /\ IsPresent(loc[t].prev)
    BY <2>1, <2>6 DEF Inserts, Stages, IsPresent
  <2>8. points'[loc[t].prev].content = points[loc[t].prev].content
    BY <2>7, AppendOnly DEF Kept
  <2>9. QED
    BY <2>5, <2>6, <2>8 DEF SuperOf
<1>3. QED
  BY <1>1, <1>2

\* The content invariant holds in every behaviour without forced evolutions.
LEMMA ContentInductive ==
  ASSUME Deployed, ForceInputs \subseteq {FALSE}
  PROVE  Spec => [](CallsFresh /\ NewContent)
<1>1. Init => CallsFresh /\ NewContent
  BY DEF Init, CallsFresh, FreshCall, NewContent, IsPresent, NoLocals, Absent
<1>2. HInv /\ CallsFresh /\ NewContent /\ [Next]_vars => (CallsFresh /\ NewContent)'
  <2> SUFFICES ASSUME TInv, SInv, HistoryOK, CallsFresh, NewContent, [Next]_vars
               PROVE  (CallsFresh /\ NewContent)'
    BY DEF HInv
  <2>1. CASE Next
    BY <2>1, CallsStep, ContentStep
  <2>2. CASE UNCHANGED vars
    BY <2>2 DEF vars, CallsFresh, FreshCall, NewContent, IsPresent, SuperOf
  <2>3. QED
    BY <2>1, <2>2
<1>3. QED
  BY <1>1, <1>2, HistoryInductive, PTL DEF Spec

(***************************************************************************)
(* Theorems.                                                               *)
(***************************************************************************)
\* EVOLUTION_SPEC: the committed versions of an identity form one line, each one more
\* than the version it supersedes and with other content, as long as no caller forces an
\* evolution: a call that failed on the way and is tried again never writes twice.
THEOREM VersionsAreAChain ==
  ASSUME Deployed, ForceInputs \subseteq {FALSE}
  PROVE  Spec => []VersionChain
<1>1. HInv => LinearHistory
  <2> SUFFICES ASSUME TInv, SInv, HistoryOK, NEW i \in Ids, Committed(i)
               PROVE  IF points[i].supersedes = None THEN points[i].version = 1
                      ELSE /\ SuperOf(i).status = "superseded" /\ SuperOf(i).next = i
                           /\ SuperOf(i).key = points[i].key
                           /\ points[i].version = SuperOf(i).version + 1
    BY DEF HInv, LinearHistory, SuperOf
  <2>1. IsPresent(i) /\ None \notin Ids
    BY ConstantsAssumption DEF Committed, IsPresent
  <2>2. QED
    BY <2>1 DEF HistoryOK, ChainBack
<1>2. HInv => NoFork
  BY DEF HInv, HistoryOK
<1>3. NewContent => RetryIdempotent
  BY DEF NewContent, RetryIdempotent, Committed, IsPresent, SuperOf
<1>4. HInv /\ NewContent => VersionChain
  BY <1>1, <1>2, <1>3 DEF VersionChain
<1>5. QED
  BY <1>4, HistoryInductive, ContentInductive, PTL

\* _commit_staged_evolution and _recover_pending: a superseded version always leads to
\* a successor that is committed or will be, whichever of the three writes failed.
THEOREM HeadIsNeverLost == ASSUME Deployed PROVE Spec => []NoLostHead
<1>1. HInv => NoLostHead
  <2> SUFFICES ASSUME TInv, SInv, HistoryOK, NEW i \in Ids, points[i].status = "superseded"
               PROVE  /\ points[i].next # None
                      /\ Committed(points[i].next) \/ IsPending(points[i].next)
    BY DEF HInv, NoLostHead
  <2>1. points[i].next \in Ids /\ IsPresent(points[i].next)
    BY DEF HistoryOK, ChainForward
  <2>2. points[i].next # None
    BY <2>1, ConstantsAssumption
  <2>3. Committed(points[i].next) \/ Staged(points[i].next)
    BY <2>1 DEF IsPresent, Committed, Staged, TInv, TypeOK, Records, Statuses
  <2>4. Staged(points[i].next) => IsPending(points[i].next)
    BY <2>1 DEF SInv, PointsOK, StagedOK, Staged, IsPending
  <2>5. QED
    BY <2>2, <2>3, <2>4
<1>2. QED
  BY <1>1, HistoryInductive, PTL

\* What a step tells a caller is committed by then.
LEMMA AckedStep ==
  ASSUME Deployed, TInv, SInv, Next, NEW i \in acked', i \notin acked
  PROVE  i \in Ids /\ Committed(i)'
<1>1. \E t \in Threads : \/ Search(t)
                         \/ \E j \in Ids : Upsert(t, j)
                         \/ Activate(t)
  BY ZenonT(60) DEF Next, Step, StoreAny, StoreBegin, Restart, AcquireGuard, AcquireLock, ReconcileScan,
         RecoverScan, RecoverRetrieve, RecoverSupersede, RecoverActivate, Supersede, EmbedFails,
         CallFails, WriteLostAnswer, WriteTimesOut, DeliverLate, Crash, RebuildRead, RebuildWrite
<1>2. ASSUME NEW t \in Threads, Search(t) PROVE i \in Ids /\ Committed(i)'
  <2>1. PICK hits \in SearchHits(loc[t].key[1]), p \in OptId :
          /\ {j \in hits : points[j].key[2] = loc[t].key[2]} = (IF p = None THEN {} ELSE {p})
          /\ p # None /\ acked' = acked \cup {p}
    BY <1>2 DEF Search
  <2>2. i = p /\ i \in hits
    BY <2>1
  <2>3. i \in Ids /\ points[i].status = "active"
    BY <2>1, <2>2 DEF SearchHits
  <2>4. points' = points
    BY <1>2 DEF Search
  <2>5. QED
    BY <2>3, <2>4 DEF Committed
<1>3. ASSUME NEW t \in Threads, NEW j \in Ids, Upsert(t, j) PROVE i \in Ids /\ Committed(i)'
  <2>1. i = j /\ loc[t].prev = None /\ pc[t] = "upsert"
    BY <1>3 DEF Upsert
  <2>2. points' = [points EXCEPT ![j] = NewRecord(t)]
    BY <1>3, <2>1 DEF Upsert, CallOf, ApplyCall, UpsertCall
  <2>3. points'[j] = NewRecord(t)
    BY <2>2, InsertFields
  <2>4. QED
    BY <2>1, <2>3 DEF NewRecord, Committed
<1>4. ASSUME NEW t \in Threads, Activate(t) PROVE i \in Ids /\ Committed(i)'
  <2>1. i = loc[t].staged /\ pc[t] = "activate" /\ points' = ApplyCall(points, CallOf(t, None))
    BY <1>4 DEF Activate
  <2>2. i \in Ids /\ Staged(i)
    BY <2>1 DEF TInv, LocalsOK, InHand, SInv, ThreadsOK, ThreadOK, AtStaged
  <2>3. points' = [points EXCEPT ![i].status = "active", ![i].evo = "committed", ![i].prev = None]
    BY <2>1, <2>2 DEF CallOf, ApplyCall, SetPayload, ActivateCall, Staged
  <2>4. points'[i].status = "active"
    BY <2>2, <2>3 DEF TInv, TypeOK, Records
  <2>5. QED
    BY <2>2, <2>4 DEF Committed
<1>5. QED
  BY <1>1, <1>2, <1>3, <1>4

\* A record a caller was told is canonical stays in the history, whatever fails later.
THEOREM AckedStays == ASSUME Deployed PROVE Spec => []AckedDurable
<1>1. Init => AckedDurable
  BY DEF Init, AckedDurable
<1>2. TInv /\ SInv /\ AckedDurable /\ [Next]_vars => AckedDurable'
  <2> SUFFICES ASSUME TInv, SInv, AckedDurable, [Next]_vars, NEW i \in acked'
               PROVE  Committed(i)'
    BY DEF AckedDurable
  <2>1. CASE Next /\ i \in acked
    <3>1. i \in Ids /\ Committed(i)
      BY <2>1 DEF AckedDurable, TInv, TypeOK
    <3>2. QED
      BY <2>1, <3>1, AppendOnly DEF Kept, Committed, IsPresent
  <2>2. CASE Next /\ i \notin acked
    BY <2>2, AckedStep
  <2>3. CASE UNCHANGED vars
    BY <2>3 DEF vars, AckedDurable, Committed
  <2>4. QED
    BY <2>1, <2>2, <2>3
<1>3. QED
  BY <1>1, <1>2, Inductive, PTL DEF Spec

(***************************************************************************)
(* The protocol implements KnowledgeHead, but for its fairness.            *)
(***************************************************************************)
\* What the refinement mapping shows of an identity
Versions(k) == Cardinality(ChainOf(k))
HeadContent(k) == IF HeadsOf(k) = {} THEN None ELSE points[CHOOSE i \in HeadsOf(k) : TRUE].content
Readable(k) == ActiveOf(k) # {}
Shows(k) == Versions(k)' = Versions(k) /\ HeadContent(k)' = HeadContent(k)
KeyStays(k) == Shows(k) /\ (Readable(k)' <=> Readable(k))

\* The chain of an identity is its committed versions and its head.
ChainIs(k) == /\ ChainOf(k) = {i \in Ids : points[i].key = k /\ (Committed(i) \/ Head(i))}
              /\ HeadsOf(k) = {i \in Ids : points[i].key = k /\ Head(i)}
ChainsAre == \A k : ChainIs(k)

\* The definition of the mapping says as much.
LEMMA ChainSets == TInv /\ SInv => ChainsAre
<1> SUFFICES ASSUME TInv, SInv, NEW k PROVE ChainIs(k)
  BY DEF ChainsAre
<1>1. ASSUME NEW i \in Ids PROVE Swapped(i) <=> Staged(i) /\ Prev(i).status = "superseded"
  <2>1. Swapped(i) => Staged(i) /\ Prev(i).next = i
    BY DEF Swapped, IsPending, Staged, Prev
  <2>2. Staged(i) => /\ points[i].evo = "pending" /\ points[i].prev \in Ids
                     /\ \/ Prev(i).status = "active"
                        \/ Prev(i).status = "superseded" /\ Prev(i).next = i
    BY DEF SInv, PointsOK, StagedOK
  <2>3. Staged(i) /\ Prev(i).status = "active" => Prev(i).next = None
    BY <2>2 DEF SInv, PointsOK, ActiveOpen, Prev
  <2>4. None \notin Ids
    BY ConstantsAssumption
  <2>5. Staged(i) /\ Prev(i).status = "superseded" => Swapped(i)
    BY <2>2, <2>4 DEF Swapped, IsPending, Staged, Prev
  <2>6. QED
    BY <2>1, <2>2, <2>3, <2>4, <2>5
<1>2. \A i \in Ids : Committed(i) \/ Swapped(i) <=> Committed(i) \/ Head(i)
  BY <1>1 DEF Head, Committed
<1>3. \A i \in Ids : (Committed(i) \/ Swapped(i)) /\ points[i].status # "superseded" <=> Head(i)
  BY <1>1 DEF Head, Committed, Staged
<1>4. QED
  BY <1>2, <1>3 DEF ChainIs, ChainOf, HeadsOf

\* An identity shows what it showed when its chain and its head stay.
LEMMA ShowsSame ==
  ASSUME TInv, SInv, TInv', SInv', NEW k,
         \A j \in Ids : points'[j].key = k /\ (Committed(j)' \/ Head(j)')
                          <=> points[j].key = k /\ (Committed(j) \/ Head(j)),
         \A j \in Ids : points'[j].key = k /\ Head(j)' <=> points[j].key = k /\ Head(j),
         \A j \in Ids : points[j].key = k /\ Head(j) => points'[j].content = points[j].content
  PROVE  Shows(k)
<1>1. ChainIs(k)
  BY ChainSets DEF ChainsAre
<1>2. (TInv /\ SInv => ChainsAre)'
  BY ChainSets, PTL
<1>3. ChainIs(k)'
  BY <1>2 DEF ChainsAre
<1>4. ChainOf(k)' = ChainOf(k) /\ HeadsOf(k)' = HeadsOf(k)
  BY <1>1, <1>3 DEF ChainIs
<1>5. CASE HeadsOf(k) = {}
  BY <1>4, <1>5 DEF Shows, Versions, HeadContent
<1>6. CASE HeadsOf(k) # {}
  <2>1. (CHOOSE i \in HeadsOf(k) : TRUE) \in HeadsOf(k)
    BY <1>6
  <2>2. PICK h \in HeadsOf(k) : h = CHOOSE i \in HeadsOf(k) : TRUE
    BY <2>1
  <2>3. points'[h].content = points[h].content
    BY <1>1, <2>2 DEF ChainIs
  <2>4. HeadContent(k) = points[h].content /\ HeadContent(k)' = points'[h].content
    BY <1>4, <1>6, <2>2 DEF HeadContent
  <2>5. QED
    BY <1>4, <2>3, <2>4 DEF Shows, Versions
<1>7. QED
  BY <1>5, <1>6

\* ... and reads as it did when its active versions stay.
LEMMA ReadsSame ==
  ASSUME NEW k, \A j \in Ids : points'[j].key = k /\ points'[j].status = "active"
                                 <=> points[j].key = k /\ points[j].status = "active"
  PROVE  Readable(k)' <=> Readable(k)
<1>1. ActiveOf(k)' = ActiveOf(k)
  BY DEF ActiveOf
<1>2. QED
  BY <1>1 DEF Readable

\* What an identity shows is its one head
ShownAs(h) == Head(h) => /\ HeadContent(points[h].key) = points[h].content
                         /\ h \in ChainOf(points[h].key) /\ points[h].content \in Contents
                         /\ Readable(points[h].key) <=> points[h].status = "active"
HeadsShow == \A h \in Ids : ShownAs(h)

\* ... because there is no other.
LEMMA ShowsHead == TInv /\ SInv => HeadsShow
<1> SUFFICES ASSUME TInv, SInv, NEW h \in Ids, Head(h)
             PROVE  /\ HeadContent(points[h].key) = points[h].content
                    /\ h \in ChainOf(points[h].key) /\ points[h].content \in Contents
                    /\ Readable(points[h].key) <=> points[h].status = "active"
  BY DEF HeadsShow, ShownAs
<1> DEFINE k == points[h].key
<1>1. HeadsOf(k) = {h} /\ h \in ChainOf(k)
  <2>1. ChainIs(k)
    BY ChainSets DEF ChainsAre
  <2>2. QED
    BY <2>1 DEF ChainIs, SInv, PointsOK, OneHead
<1>2. (CHOOSE i \in {h} : TRUE) = h
  OBVIOUS
<1>3. HeadContent(k) = points[h].content
  BY <1>1, <1>2 DEF HeadContent
<1>4. points[h].content \in Contents
  BY DEF TInv, TypeOK, Records
<1>5. \A j \in ActiveOf(k) : j = h
  BY DEF ActiveOf, Head, SInv, PointsOK, OneHead
<1>6. points[h].status = "active" => h \in ActiveOf(k)
  BY DEF ActiveOf
<1>7. Readable(k) <=> points[h].status = "active"
  BY <1>5, <1>6 DEF Readable, ActiveOf
<1>8. QED
  BY <1>1, <1>3, <1>4, <1>7

\* The mapping, by what it shows
VersionMap == [k \in Keys |-> Versions(k)]
ContentMap == [k \in Keys |-> HeadContent(k)]
ReadableMap == [k \in Keys |-> Readable(k)]

\* Steps of KnowledgeHead, from what each identity shows: none
LEMMA HeadStays == ASSUME \A k \in Keys : KeyStays(k) PROVE UNCHANGED Abstract!hvars
BY DEF Abstract!hvars, KeyStays, Shows, Versions, HeadContent, Readable

\* ... a change of one identity
LEMMA MapsChange ==
  ASSUME NEW k \in Keys, \A x \in Keys : x # k => KeyStays(x)
  PROVE  /\ VersionMap' = [VersionMap EXCEPT ![k] = Versions(k)']
         /\ ContentMap' = [ContentMap EXCEPT ![k] = HeadContent(k)']
         /\ ReadableMap' = [ReadableMap EXCEPT ![k] = Readable(k)']
<1>1. VersionMap' = [VersionMap EXCEPT ![k] = Versions(k)']
  BY DEF VersionMap, KeyStays, Shows
<1>2. ContentMap' = [ContentMap EXCEPT ![k] = HeadContent(k)']
  BY DEF ContentMap, KeyStays, Shows
<1>3. ReadableMap' = [ReadableMap EXCEPT ![k] = Readable(k)']
  <2>1. \A x \in Keys : Readable(x) \in BOOLEAN /\ Readable(x)' \in BOOLEAN
    BY DEF Readable
  <2>2. \A x \in Keys : x # k => Readable(x)' = Readable(x)
    BY <2>1 DEF KeyStays
  <2>3. QED
    BY <2>2 DEF ReadableMap
<1>4. QED
  BY <1>1, <1>2, <1>3

\* ... the first version
LEMMA HeadInserted ==
  ASSUME NEW k \in Keys, \A x \in Keys : x # k => KeyStays(x),
         Versions(k) = 0, Versions(k)' = 1, HeadContent(k)' \in Contents, Readable(k)'
  PROVE  Abstract!HeadNext
<1>1. Readable(k)' = TRUE
  BY DEF Readable
<1>2. /\ VersionMap[k] = 0
      /\ VersionMap' = [VersionMap EXCEPT ![k] = 1]
      /\ \E c \in Contents : ContentMap' = [ContentMap EXCEPT ![k] = c]
      /\ ReadableMap' = [ReadableMap EXCEPT ![k] = TRUE]
  <2>1. VersionMap[k] = 0
    BY DEF VersionMap
  <2>2. QED
    BY <1>1, <2>1, MapsChange
<1>3. Abstract!Insert(k)
  BY <1>2 DEF Abstract!Insert, VersionMap, ContentMap, ReadableMap, Versions, HeadContent, Readable
<1>4. QED
  BY <1>3 DEF Abstract!HeadNext

\* ... the next one, not yet readable
LEMMA HeadAdvanced ==
  ASSUME NEW k \in Keys, \A x \in Keys : x # k => KeyStays(x),
         Readable(k), Versions(k)' = Versions(k) + 1, HeadContent(k)' \in Contents, ~Readable(k)'
  PROVE  Abstract!HeadNext
<1>1. Readable(k)' = FALSE
  BY DEF Readable
<1>2. /\ ReadableMap[k]
      /\ VersionMap' = [VersionMap EXCEPT ![k] = VersionMap[k] + 1]
      /\ \E c \in Contents : ContentMap' = [ContentMap EXCEPT ![k] = c]
      /\ ReadableMap' = [ReadableMap EXCEPT ![k] = FALSE]
  <2>1. VersionMap[k] = Versions(k)
    BY DEF VersionMap
  <2>2. ReadableMap[k]
    BY DEF ReadableMap
  <2>3. VersionMap' = [VersionMap EXCEPT ![k] = VersionMap[k] + 1]
    BY <2>1, MapsChange
  <2>4. QED
    BY <1>1, <2>2, <2>3, MapsChange
<1>3. Abstract!Advance(k)
  BY <1>2 DEF Abstract!Advance, VersionMap, ContentMap, ReadableMap, Versions, HeadContent, Readable
<1>4. QED
  BY <1>3 DEF Abstract!HeadNext

\* ... which becomes readable
LEMMA HeadRevealed ==
  ASSUME NEW k \in Keys, \A x \in Keys : x # k => KeyStays(x),
         Versions(k) > 0, Shows(k), ~Readable(k), Readable(k)'
  PROVE  Abstract!HeadNext
<1>1. Readable(k)' = TRUE
  BY DEF Readable
<1>2. /\ VersionMap[k] > 0 /\ ~ReadableMap[k]
      /\ VersionMap' = VersionMap /\ ContentMap' = ContentMap
      /\ ReadableMap' = [ReadableMap EXCEPT ![k] = TRUE]
  <2>1. VersionMap[k] > 0
    BY DEF VersionMap
  <2>2. ~ReadableMap[k]
    BY DEF ReadableMap
  <2>3. \A x \in Keys : Shows(x)
    BY DEF KeyStays
  <2>4. VersionMap' = VersionMap /\ ContentMap' = ContentMap
    BY <2>3 DEF Shows, VersionMap, ContentMap
  <2>5. QED
    BY <1>1, <2>1, <2>2, <2>4, MapsChange
<1>3. Abstract!Reveal(k)
  BY <1>2 DEF Abstract!Reveal, VersionMap, ContentMap, ReadableMap, Versions, HeadContent, Readable
<1>4. QED
  BY <1>3 DEF Abstract!HeadNext

\* What is true of chains and heads before a step is true after it.
LEMMA MapsNext ==
  ASSUME TInv, SInv, TInv', SInv'
  PROVE  ChainsAre /\ ChainsAre' /\ HeadsShow /\ HeadsShow'
<1>1. (TInv /\ SInv => ChainsAre)'
  BY ChainSets, PTL
<1>2. (TInv /\ SInv => HeadsShow)'
  BY ShowsHead, PTL
<1>3. QED
  BY <1>1, <1>2, ChainSets, ShowsHead

\* Every step of the service is a step of KnowledgeHead or shows nothing: an upsert of a
\* first version inserts
LEMMA MapInsert ==
  ASSUME TInv, SInv, TInv', SInv', HistoryOK, NEW t \in Threads, NEW i \in Ids,
         pc[t] = "upsert", Inserts(t, i)
  PROVE  Abstract!HeadNext
<1>0. PICK k \in Keys : k = loc[t].key
  BY DEF TInv, TypeOK, Locals
<1>1. /\ points'[i].status = "active" /\ points'[i].key = k /\ points[i].status = "absent"
      /\ \A j \in Ids : j # i => points'[j] = points[j]
      /\ \A j \in Ids : Head(j) => points[j].key # k
      /\ \A j \in Ids : Committed(j) => points[j].key # k
      /\ \A j \in Ids : j # i => (Committed(j)' <=> Committed(j)) /\ (Head(j)' <=> Head(j))
      /\ Committed(i)' /\ Head(i)' /\ ~Committed(i) /\ ~Head(i)
  BY <1>0, InsertHeads
<1>2. ASSUME NEW x \in Keys, x # k PROVE KeyStays(x)
  <2>1. \A j \in Ids : points'[j].key = x /\ (Committed(j)' \/ Head(j)')
                          <=> points[j].key = x /\ (Committed(j) \/ Head(j))
    BY <1>1, <1>2
  <2>2. \A j \in Ids : points'[j].key = x /\ Head(j)' <=> points[j].key = x /\ Head(j)
    BY <1>1, <1>2
  <2>3. \A j \in Ids : points[j].key = x /\ Head(j) => points'[j].content = points[j].content
    BY <1>1
  <2>4. \A j \in Ids : points'[j].key = x /\ points'[j].status = "active"
                         <=> points[j].key = x /\ points[j].status = "active"
    BY <1>1, <1>2
  <2>5. QED
    BY <2>1, <2>2, <2>3, <2>4, ShowsSame, ReadsSame DEF KeyStays
<1>3. Versions(k) = 0
  <2>1. ChainOf(k) = {}
    BY <1>1, MapsNext DEF ChainsAre, ChainIs
  <2>2. QED
    BY <2>1, FS_EmptySet DEF Versions
<1>4. Versions(k)' = 1
  <2>1. ChainIs(k)'
    BY MapsNext DEF ChainsAre
  <2>2. ChainOf(k)' = {i}
    BY <1>1, <2>1 DEF ChainIs
  <2>3. Cardinality({i}) = 1
    BY FS_Singleton
  <2>4. QED
    BY <2>2, <2>3 DEF Versions
<1>5. HeadContent(k)' \in Contents /\ Readable(k)'
  <2>1. ShownAs(i)'
    BY MapsNext DEF HeadsShow
  <2>2. QED
    BY <1>1, <2>1 DEF ShownAs
<1>6. QED
  BY <1>0, <1>2, <1>3, <1>4, <1>5, HeadInserted

\* ... staging shows nothing
LEMMA MapStage ==
  ASSUME TInv, SInv, TInv', SInv', HistoryOK, NEW t \in Threads, NEW i \in Ids,
         pc[t] = "upsert", Stages(t, i), NEW x \in Keys
  PROVE  KeyStays(x)
<1>1. /\ points'[i].status = "deprecated" /\ points[i].status = "absent"
      /\ \A j \in Ids : j # i => points'[j] = points[j]
      /\ \A j \in Ids : j # i => (Committed(j)' <=> Committed(j)) /\ (Head(j)' <=> Head(j))
      /\ ~Committed(i)' /\ ~Head(i)' /\ ~Committed(i) /\ ~Head(i)
  BY StageHeads
<1>2. \A j \in Ids : points'[j].key = x /\ (Committed(j)' \/ Head(j)')
                        <=> points[j].key = x /\ (Committed(j) \/ Head(j))
  BY <1>1
<1>3. \A j \in Ids : points'[j].key = x /\ Head(j)' <=> points[j].key = x /\ Head(j)
  BY <1>1
<1>4. \A j \in Ids : points[j].key = x /\ Head(j) => points'[j].content = points[j].content
  BY <1>1
<1>5. \A j \in Ids : points'[j].key = x /\ points'[j].status = "active"
                       <=> points[j].key = x /\ points[j].status = "active"
  BY <1>1
<1>6. QED
  BY <1>2, <1>3, <1>4, <1>5, ShowsSame, ReadsSame DEF KeyStays

\* ... superseding advances
LEMMA MapSupersede ==
  ASSUME TInv, SInv, TInv', SInv', HistoryOK, NEW p \in Ids, NEW s \in Ids, Supersedes(p, s)
  PROVE  Abstract!HeadNext
<1>0. PICK k \in Keys : k = points[p].key
  BY DEF TInv, TypeOK, Records
<1>1. /\ points[p].status = "active" /\ Staged(s) /\ p # s
      /\ points'[p].status = "superseded" /\ points'[s].status = "deprecated"
      /\ points[s].key = k
      /\ \A j \in Ids : j # p => points'[j] = points[j]
      /\ \A j \in Ids : points'[j].key = points[j].key /\ (Committed(j)' <=> Committed(j))
      /\ Head(p) /\ Head(s)'
      /\ \A j \in Ids : Head(j)' /\ points[j].key = k => j = s
      /\ \A j \in Ids : points[j].key # k => (Head(j)' <=> Head(j))
  <2>1. points'[s] = points[s] /\ points[s].status = "deprecated"
    BY SupersedeHeads DEF Staged
  <2>2. QED
    BY <1>0, <2>1, SupersedeHeads
<1>2. \A j \in Ids : Head(j) /\ points[j].key = k => j = p
  BY <1>0, <1>1 DEF SInv, PointsOK, OneHead
<1>3. ASSUME NEW x \in Keys, x # k PROVE KeyStays(x)
  <2>1. \A j \in Ids : points'[j].key = x /\ (Committed(j)' \/ Head(j)')
                          <=> points[j].key = x /\ (Committed(j) \/ Head(j))
    BY <1>1, <1>3
  <2>2. \A j \in Ids : points'[j].key = x /\ Head(j)' <=> points[j].key = x /\ Head(j)
    BY <1>1, <1>3
  <2>3. \A j \in Ids : points[j].key = x /\ Head(j) => points'[j].content = points[j].content
    <3>1. points[p].key = k
      BY <1>0
    <3>2. QED
      BY <1>1, <1>3, <3>1
  <2>4. \A j \in Ids : points'[j].key = x /\ points'[j].status = "active"
                         <=> points[j].key = x /\ points[j].status = "active"
    <3>1. points[p].key = k
      BY <1>0
    <3>2. QED
      BY <1>1, <1>3, <3>1
  <2>5. QED
    BY <2>1, <2>2, <2>3, <2>4, ShowsSame, ReadsSame DEF KeyStays
<1>4. Readable(k)
  <2>1. ShownAs(p)
    BY MapsNext DEF HeadsShow
  <2>2. QED
    BY <1>0, <1>1, <2>1 DEF ShownAs
<1>5. Versions(k)' = Versions(k) + 1
  <2>1. ChainIs(k) /\ ChainIs(k)'
    BY MapsNext DEF ChainsAre
  <2>2. Committed(p) /\ points[p].key = k
    BY <1>0, <1>1 DEF Committed
  <2>3. ~Committed(s) /\ ~Head(s)
    BY <1>1, <1>2 DEF Committed, Staged
  <2>4. s \notin ChainOf(k)
    BY <2>1, <2>3 DEF ChainIs
  <2>5. ChainOf(k)' = ChainOf(k) \cup {s}
    BY <1>1, <1>2, <2>1, <2>2 DEF ChainIs
  <2>6. IsFiniteSet(ChainOf(k))
    BY FS_Subset, ConstantsAssumption DEF ChainOf
  <2>7. Cardinality(ChainOf(k) \cup {s}) = Cardinality(ChainOf(k)) + 1
    BY <2>4, <2>6, FS_AddElement
  <2>8. QED
    BY <2>5, <2>7 DEF Versions
<1>6. HeadContent(k)' \in Contents /\ ~Readable(k)'
  <2>1. ShownAs(s)'
    BY MapsNext DEF HeadsShow
  <2>2. points'[s].key = k
    BY <1>1
  <2>3. QED
    BY <1>1, <2>1, <2>2 DEF ShownAs
<1>7. QED
  BY <1>0, <1>3, <1>4, <1>5, <1>6, HeadAdvanced

\* ... activating reveals
LEMMA MapActivate ==
  ASSUME TInv, SInv, TInv', SInv', HistoryOK, NEW s \in Ids, Activates(s)
  PROVE  Abstract!HeadNext
<1>0. PICK k \in Keys : k = points[s].key
  BY DEF TInv, TypeOK, Records
<1>1. /\ points[s].status = "deprecated" /\ points'[s].status = "active"
      /\ points'[s].key = k
      /\ Head(s) /\ Head(s)'
      /\ \A j \in Ids : j # s => points'[j] = points[j]
      /\ \A j \in Ids : points'[j].key = points[j].key /\ (Head(j)' <=> Head(j))
      /\ \A j \in Ids : j # s => (Committed(j)' <=> Committed(j))
  BY <1>0, ActivateHeads DEF Staged
<1>2. points'[s].content = points[s].content
  BY ActivateFields
<1>3. ASSUME NEW x PROVE Shows(x)
  <2>1. \A j \in Ids : points'[j].key = x /\ (Committed(j)' \/ Head(j)')
                          <=> points[j].key = x /\ (Committed(j) \/ Head(j))
    BY <1>1
  <2>2. \A j \in Ids : points'[j].key = x /\ Head(j)' <=> points[j].key = x /\ Head(j)
    BY <1>1
  <2>3. \A j \in Ids : points[j].key = x /\ Head(j) => points'[j].content = points[j].content
    BY <1>1, <1>2
  <2>4. QED
    BY <2>1, <2>2, <2>3, ShowsSame
<1>4. ASSUME NEW x \in Keys, x # k PROVE KeyStays(x)
  <2>1. \A j \in Ids : points'[j].key = x /\ points'[j].status = "active"
                         <=> points[j].key = x /\ points[j].status = "active"
    BY <1>0, <1>1, <1>4
  <2>2. QED
    BY <1>3, <2>1, ReadsSame DEF KeyStays
<1>5. ~Readable(k) /\ Readable(k)' /\ s \in ChainOf(k)
  <2>1. ShownAs(s) /\ ShownAs(s)'
    BY MapsNext DEF HeadsShow
  <2>2. ~Readable(k) /\ s \in ChainOf(k)
    BY <1>0, <1>1, <2>1 DEF ShownAs
  <2>3. Readable(k)'
    BY <1>1, <2>1 DEF ShownAs
  <2>4. QED
    BY <2>2, <2>3
<1>6. Versions(k) > 0
  <2>1. IsFiniteSet(ChainOf(k))
    BY FS_Subset, ConstantsAssumption DEF ChainOf
  <2>2. Cardinality(ChainOf(k)) \in Nat /\ Cardinality(ChainOf(k)) # 0
    BY <1>5, <2>1, FS_EmptySet, FS_CardinalityType
  <2>3. QED
    BY <2>2 DEF Versions
<1>7. QED
  BY <1>0, <1>3, <1>4, <1>5, <1>6, HeadRevealed

\* ... extensions written back show nothing
LEMMA MapRewrite ==
  ASSUME TInv, SInv, TInv', SInv', HistoryOK, NEW m \in maint, Rewrites(m), NEW x \in Keys
  PROVE  KeyStays(x)
<1>1. \A j \in Ids : /\ points'[j].status = points[j].status /\ points'[j].key = points[j].key
                     /\ points'[j].content = points[j].content
  BY RewriteFields
<1>2. \A j \in Ids : (Committed(j)' <=> Committed(j)) /\ (Head(j)' <=> Head(j))
  BY RewriteHeads
<1>3. Shows(x)
  <2>1. \A j \in Ids : points'[j].key = x /\ (Committed(j)' \/ Head(j)')
                          <=> points[j].key = x /\ (Committed(j) \/ Head(j))
    BY <1>1, <1>2
  <2>2. \A j \in Ids : points'[j].key = x /\ Head(j)' <=> points[j].key = x /\ Head(j)
    BY <1>1, <1>2
  <2>3. QED
    BY <1>1, <2>1, <2>2, ShowsSame
<1>4. Readable(x)' <=> Readable(x)
  BY <1>1, ReadsSame
<1>5. QED
  BY <1>3, <1>4 DEF KeyStays

\* ... and neither does any step that leaves the records alone.
LEMMA MapSame == ASSUME points' = points PROVE UNCHANGED Abstract!hvars
<1>1. \A k \in Keys : /\ ChainOf(k)' = ChainOf(k) /\ HeadsOf(k)' = HeadsOf(k)
                      /\ ActiveOf(k)' = ActiveOf(k)
  BY DEF ChainOf, HeadsOf, ActiveOf, Committed, Swapped, IsPending
<1>2. ASSUME NEW k \in Keys PROVE KeyStays(k)
  <2>1. Versions(k)' = Versions(k) /\ (Readable(k)' <=> Readable(k))
    BY <1>1 DEF Versions, Readable
  <2>2. HeadContent(k)' = HeadContent(k)
    <3>1. CASE HeadsOf(k) = {}
      BY <1>1, <3>1 DEF HeadContent
    <3>2. CASE HeadsOf(k) # {}
      <4>1. PICK h \in HeadsOf(k) : h = CHOOSE i \in HeadsOf(k) : TRUE
        BY <3>2
      <4>2. HeadContent(k) = points[h].content /\ HeadContent(k)' = points'[h].content
        BY <1>1, <3>2, <4>1 DEF HeadContent
      <4>3. QED
        BY <4>2
    <3>3. QED
      BY <3>1, <3>2
  <2>3. QED
    BY <2>1, <2>2 DEF KeyStays, Shows
<1>3. QED
  BY <1>2, HeadStays

\* The three-write protocol, with its failures, crashes and recoveries, implements the
\* abstract head: an identity's head moves one version at a time, never back, and what is
\* read of it is the head. That a hidden head comes back needs fairness and is not part of it.
THEOREM ImplementsHead == ASSUME Deployed PROVE Spec => Abstract!HeadSafety
<1>1. Init => Abstract!HeadInit
  <2> SUFFICES ASSUME Init PROVE Abstract!HeadInit
    OBVIOUS
  <2>1. \A k : ChainOf(k) = {} /\ HeadsOf(k) = {} /\ ActiveOf(k) = {}
    BY DEF Init, Absent, ChainOf, HeadsOf, ActiveOf, Committed, Swapped, IsPending
  <2>2. Cardinality({}) = 0
    BY FS_EmptySet
  <2>3. QED
    BY <2>1, <2>2 DEF Abstract!HeadInit
<1>2. HInv /\ HInv' /\ [Next]_vars => [Abstract!HeadNext]_(Abstract!hvars)
  <2> SUFFICES ASSUME TInv, SInv, HistoryOK, TInv', SInv', [Next]_vars
               PROVE  Abstract!HeadNext \/ UNCHANGED Abstract!hvars
    BY DEF HInv
  <2>1. CASE Next
    BY <2>1, PointCases, MapInsert, MapStage, MapSupersede, MapActivate, MapRewrite, MapSame, HeadStays
  <2>2. CASE UNCHANGED vars
    BY <2>2, MapSame DEF vars
  <2>3. QED
    BY <2>1, <2>2
<1>3. QED
  BY <1>1, <1>2, HistoryInductive, PTL DEF Spec, Abstract!HeadSafety
=============================================================================
