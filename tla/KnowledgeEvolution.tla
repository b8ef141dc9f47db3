------------------------- MODULE KnowledgeEvolution -------------------------
(***************************************************************************)
(* KnowledgeEvolutionService (knowledge/evolution.py): versioned canonical *)
(* Knowledge kept in a Qdrant collection that has no transactions.  A new  *)
(* version is written in three storage calls (stage as deprecated+pending, *)
(* supersede the predecessor, activate) under a cross-process file lock    *)
(* and an in-process lock per identity; whoever next holds the locks for   *)
(* that identity, or the next process start, completes what a failed call  *)
(* or a crash left behind.                                                 *)
(*                                                                         *)
(* A key is an entity (domain, topic, type, name and the tenancy           *)
(* partition) together with a context.  Storage filters compare entities   *)
(* exactly as they were spelled; the in-process locks and the duplicate    *)
(* test of the start-up reconciliation compare them trimmed and in lower   *)
(* case.                                                                   *)
(***************************************************************************)
EXTENDS Integers, FiniteSets

CONSTANTS
  Entities, Contexts,   \* canonical identities and their context scopes
  Trimmed, Folded,      \* [Entities -> Entities]: strip(), strip().lower()
  Ids,                  \* record UUIDs (bounds the number of versions written)
  Contents,             \* normalized contents, told apart by content_hash
  Threads, Procs,       \* request/worker threads and the processes they run in
  ProcOf,               \* [Threads -> Procs]
  None,                 \* no id / no thread
  ProcessLock,          \* knowledge_evolution_lock_file is configured
  SearchLimit,          \* the limit=10 of the lookup search
  MaxPending,           \* max_pending of reconcile_pending
  ForceInputs,          \* values of "forced" the callers use
  Rebuild,              \* relation index rebuild runs beside the writers
  LateWrites,           \* a timed out write may still land later
  MaxFaults, MaxCrashes \* bounds: failed storage calls, process crashes

ASSUME ConstantsAssumption ==
  /\ Trimmed \in [Entities -> Entities] /\ Folded \in [Entities -> Entities]
  /\ ProcOf \in [Threads -> Procs]
  /\ None \notin Ids \cup Threads
  /\ IsFiniteSet(Ids) /\ IsFiniteSet(Contexts)
  /\ Entities # {} /\ Contexts # {} /\ Contents # {}
  /\ ProcessLock \in BOOLEAN /\ Rebuild \in BOOLEAN /\ LateWrites \in BOOLEAN
  /\ SearchLimit \in Nat \ {0} /\ MaxPending \in Nat \ {0}
  /\ ForceInputs \subseteq BOOLEAN
  /\ MaxFaults \in Nat /\ MaxCrashes \in Nat

VARIABLES
  points,   \* the Knowledge collection: id -> record
  proc,     \* process -> down | starting | up
  guard,    \* holder of the flock on the lock file
  lock,     \* <<process, key>> -> holder of the in-process identity lock
  pc, loc,  \* program counter and locals of each thread
  maint,    \* extensions the index rebuild has read and not yet written back
  late,     \* writes whose client timed out and that may still be applied
  acked,    \* ids a caller was told are the canonical record
  faults, crashes

vars == <<points, proc, guard, lock, pc, loc, maint, late, acked, faults, crashes>>

Keys == Entities \X Contexts

\* _identity_key: what names a lock, and what reconcile_pending tells apart
IdentityKey(k) == <<Folded[k[1]], k[2]>>

OptId == Ids \cup {None}
Statuses == {"absent", "active", "superseded", "deprecated"}

\* The payload fields the protocol reads and writes.  evo and prev are the
\* _evolution_state and _evolution_previous_id extensions.
Records == [status: Statuses, key: Keys, version: Nat, content: Contents,
            supersedes: OptId, next: OptId,
            evo: {"none", "pending", "committed"}, prev: OptId]

Absent == [status |-> "absent", key |-> CHOOSE k \in Keys : TRUE, version |-> 0,
           content |-> CHOOSE c \in Contents : TRUE, supersedes |-> None,
           next |-> None, evo |-> "none", prev |-> None]

PCs == {"idle", "guard", "reconcile", "lock", "recover", "retrieve", "r_supersede",
        "r_activate", "search", "upsert", "supersede", "activate"}

Locals == [op: {"store", "reconcile"}, key: Keys, content: Contents, forced: BOOLEAN,
           expected: OptId, staged: OptId, prev: OptId, prevNext: OptId,
           todo: SUBSET Keys]

NoLocals == [op |-> "store", key |-> CHOOSE k \in Keys : TRUE,
             content |-> CHOOSE c \in Contents : TRUE, forced |-> FALSE,
             expected |-> None, staged |-> None, prev |-> None, prevNext |-> None,
             todo |-> {}]

Present == {i \in Ids : points[i].status # "absent"}
ActiveOf(k) == {i \in Ids : points[i].status = "active" /\ points[i].key = k}

\* _pending_filter, with the exact context and partition applied to the result
PendingOf(k) == {i \in Ids : /\ points[i].status = "deprecated"
                             /\ points[i].evo = "pending"
                             /\ points[i].key = k}

(***************************************************************************)
(* Storage calls.  upsert replaces the point; set_payload merges fields and *)
(* does nothing when the point is not there.                                *)
(***************************************************************************)
UpsertCall(i, r) == [kind |-> "upsert", id |-> i, rec |-> r]
\* Wrong variant: the predecessor is not linked to its successor
SupersedeUnlinked(i, s) == [kind |-> "supersede", id |-> i, next |-> None]
SupersedeCall(i, s) == [kind |-> "supersede", id |-> i, next |-> s]
ActivateCall(i) == [kind |-> "activate", id |-> i]

Calls == [kind: {"upsert"}, id: Ids, rec: Records]
           \cup [kind: {"supersede"}, id: Ids, next: OptId]
           \cup [kind: {"activate"}, id: Ids]

SetPayload(pts, w) ==
  IF pts[w.id].status = "absent" THEN pts
  ELSE IF w.kind = "supersede"
  THEN [pts EXCEPT ![w.id].status = "superseded", ![w.id].next = w.next]
  ELSE [pts EXCEPT ![w.id].status = "active", ![w.id].evo = "committed",
                   ![w.id].prev = None]

ApplyCall(pts, w) ==
  IF w.kind = "upsert" THEN [pts EXCEPT ![w.id] = w.rec] ELSE SetPayload(pts, w)

(***************************************************************************)
(* Locks.  flock excludes every other open handle, so it also serializes   *)
(* the threads of one process.                                             *)
(***************************************************************************)
LockOf(t) == <<ProcOf[t], IdentityKey(loc[t].key)>>

ReleaseAll(t) ==
  /\ guard' = IF guard = t THEN None ELSE guard
  /\ lock' = [x \in Procs \X Keys |-> IF lock[x] = t THEN None ELSE lock[x]]

\* Leaving the with blocks, by return or by exception.  A reconcile_pending
\* that raises fails build_runtime and with it the process.
Leave(t, ok) ==
  /\ ReleaseAll(t)
  /\ pc' = [pc EXCEPT ![t] = "idle"]
  /\ loc' = [loc EXCEPT ![t] = NoLocals]
  /\ proc' = IF loc[t].op = "reconcile"
             THEN [proc EXCEPT ![ProcOf[t]] = IF ok THEN "up" ELSE "down"]
             ELSE proc

Goto(t, l) == pc' = [pc EXCEPT ![t] = l]

\* store(): everything before the locks is validation of the caller's input.
\* A relation review passes the id it read as expected_previous_id.
StoreBegin(t, k, c, f, x) ==
  /\ proc[ProcOf[t]] = "up"
  /\ pc[t] = "idle"
  /\ x \in {None} \cup ActiveOf(k)
  /\ Goto(t, "guard")
  /\ loc' = [loc EXCEPT ![t] = [NoLocals EXCEPT !.key = k, !.content = c,
                                                !.forced = f, !.expected = x]]
  /\ UNCHANGED <<points, proc, guard, lock, maint, late, acked, faults, crashes>>

\* build_runtime calls reconcile_pending before the process serves anything.
Restart(t) ==
  /\ proc[ProcOf[t]] = "down"
  /\ pc[t] = "idle"
  /\ proc' = [proc EXCEPT ![ProcOf[t]] = "starting"]
  /\ Goto(t, "guard")
  /\ loc' = [loc EXCEPT ![t] = [NoLocals EXCEPT !.op = "reconcile"]]
  /\ UNCHANGED <<points, guard, lock, maint, late, acked, faults, crashes>>

\* Wrong variant: a shared lock, any number of holders
AcquireGuardShared(t) ==
  /\ pc[t] = "guard"
  /\ guard' = t
  /\ Goto(t, IF loc[t].op = "store" THEN "lock" ELSE "reconcile")
  /\ UNCHANGED <<points, proc, lock, loc, maint, late, acked, faults, crashes>>

\* _process_guard
AcquireGuard(t) ==
  /\ pc[t] = "guard"
  /\ ProcessLock => guard = None
  /\ guard' = IF ProcessLock THEN t ELSE guard
  /\ Goto(t, IF loc[t].op = "store" THEN "lock" ELSE "reconcile")
  /\ UNCHANGED <<points, proc, lock, loc, maint, late, acked, faults, crashes>>

\* Wrong variant: any pending record refuses the start
ReconcileRefuses(t) ==
  /\ pc[t] = "reconcile"
  /\ Leave(t, \A i \in Ids : points[i].status # "deprecated" \/ points[i].evo # "pending")
  /\ UNCHANGED <<points, maint, late, acked, faults, crashes>>

\* The scan of reconcile_pending: refuse before touching anything when there
\* are too many pendings or two of one identity key, else recover each in turn,
\* under the trimmed spelling of its entity.
ReconcileScan(t) ==
  LET pending == {i \in Ids : points[i].status = "deprecated" /\ points[i].evo = "pending"}
      keys == {<<Trimmed[points[i].key[1]], points[i].key[2]>> : i \in pending}
      refused == \/ Cardinality(pending) > MaxPending
                 \/ \E i, j \in pending :
                      i # j /\ IdentityKey(points[i].key) = IdentityKey(points[j].key)
  IN /\ pc[t] = "reconcile"
     /\ \/ /\ refused \/ keys = {}
           /\ Leave(t, ~refused)
        \/ /\ ~refused
           /\ \E k \in keys :
                loc' = [loc EXCEPT ![t].key = k, ![t].todo = keys \ {k}]
           /\ Goto(t, "lock")
           /\ UNCHANGED <<guard, lock, proc>>
     /\ UNCHANGED <<points, maint, late, acked, faults, crashes>>

\* Wrong variant: _lock_for hands every caller a lock of its own
AcquireOwnLock(t) ==
  /\ pc[t] = "lock"
  /\ lock' = [lock EXCEPT ![LockOf(t)] = t]
  /\ Goto(t, "recover")
  /\ UNCHANGED <<points, proc, guard, loc, maint, late, acked, faults, crashes>>

\* with self._lock_for(identity)
AcquireLock(t) ==
  /\ pc[t] = "lock"
  /\ lock[LockOf(t)] = None
  /\ lock' = [lock EXCEPT ![LockOf(t)] = t]
  /\ Goto(t, "recover")
  /\ UNCHANGED <<points, proc, guard, loc, maint, late, acked, faults, crashes>>

\* What follows _recover_pending: the rest of store, or the next identity of
\* reconcile_pending (its identity lock released), or the end of it.
AfterRecovery(t) ==
  \/ /\ loc[t].op = "store"
     /\ Goto(t, "search")
     /\ UNCHANGED <<proc, guard, lock, loc>>
  \/ /\ loc[t].op = "reconcile"
     /\ loc[t].todo # {}
     /\ \E k \in loc[t].todo :
          loc' = [loc EXCEPT ![t].key = k, ![t].todo = @ \ {k}]
     /\ lock' = [lock EXCEPT ![LockOf(t)] = None]
     /\ Goto(t, "lock")
     /\ UNCHANGED <<proc, guard>>
  \/ /\ loc[t].op = "reconcile"
     /\ loc[t].todo = {}
     /\ Leave(t, TRUE)

\* Wrong variant: an abandoned evolution is left for somebody else
RecoverNothing(t) ==
  /\ pc[t] = "recover"
  /\ AfterRecovery(t)
  /\ UNCHANGED <<points, maint, late, acked, faults, crashes>>

\* _recover_pending: the scroll for pending versions of this identity
RecoverScan(t) ==
  /\ pc[t] = "recover"
  /\ \/ /\ PendingOf(loc[t].key) = {}
        /\ AfterRecovery(t)
     \/ /\ Cardinality(PendingOf(loc[t].key)) > 1
        /\ Leave(t, FALSE)
     \/ \E s \in PendingOf(loc[t].key) :
        /\ PendingOf(loc[t].key) = {s}
        /\ IF points[s].prev = None
           THEN Leave(t, FALSE)
           ELSE /\ Goto(t, "retrieve")
                /\ loc' = [loc EXCEPT ![t].staged = s, ![t].prev = points[s].prev]
                /\ UNCHANGED <<proc, guard, lock>>
  /\ UNCHANGED <<points, maint, late, acked, faults, crashes>>

\* _recover_pending: the predecessor decides which writes are still missing
RecoverRetrieve(t) ==
  LET p == points[loc[t].prev]
      s == loc[t].staged
      sameScope == p.status # "absent" /\ p.key[1] = loc[t].key[1]
      supersede == sameScope /\ p.status = "active" /\ p.next \in {None, s}
      activate == sameScope /\ p.status = "superseded" /\ p.next = s
  IN /\ pc[t] = "retrieve"
     /\ \/ supersede /\ Goto(t, "r_supersede") /\ UNCHANGED <<proc, guard, lock, loc>>
        \/ activate /\ Goto(t, "r_activate") /\ UNCHANGED <<proc, guard, lock, loc>>
        \/ ~supersede /\ ~activate /\ Leave(t, FALSE)
     /\ UNCHANGED <<points, maint, late, acked, faults, crashes>>

\* The vector search ranks by similarity to "topic entity_name" and keeps
\* SearchLimit hits among the active records of the entity, of any context.
SearchHits(e) ==
  LET matching == {i \in Ids : points[i].status = "active" /\ points[i].key[1] = e}
  IN {hits \in SUBSET matching :
        IF Cardinality(matching) <= SearchLimit THEN hits = matching
        ELSE Cardinality(hits) = SearchLimit}

\* Wrong variant: equal content is not recognised, a retry is a new version
SearchNoDedup(t) ==
  /\ pc[t] = "search"
  /\ \E hits \in SearchHits(loc[t].key[1]), p \in OptId :
     /\ {i \in hits : points[i].key[2] = loc[t].key[2]} = (IF p = None THEN {} ELSE {p})
     /\ loc' = [loc EXCEPT ![t].prev = p, ![t].staged = None, ![t].prevNext = None]
  /\ Goto(t, "upsert")
  /\ UNCHANGED <<points, proc, guard, lock, maint, late, acked, faults, crashes>>

\* store(): the decision between conflict, no_change, insert_new and evolve.
\* The new record's id is fresh; its payload is built here and written by the
\* upsert that follows.
Search(t) ==
  /\ pc[t] = "search"
  /\ \E hits \in SearchHits(loc[t].key[1]) :
     LET exact == {i \in hits : points[i].key[2] = loc[t].key[2]}
         Previous(p) == exact = (IF p = None THEN {} ELSE {p})
         NoChange(p) == p # None /\ points[p].content = loc[t].content /\ ~loc[t].forced
         Stale(p) == loc[t].expected \notin {None, p}
     IN \/ /\ Cardinality(exact) > 1
           /\ Leave(t, FALSE)
           /\ UNCHANGED acked
        \/ \E p \in OptId :
           /\ Previous(p)
           /\ \/ /\ Stale(p)
                 /\ Leave(t, FALSE)
                 /\ UNCHANGED acked
              \/ /\ ~Stale(p) /\ NoChange(p)
                 /\ Leave(t, TRUE)
                 /\ acked' = acked \cup {p}
              \/ /\ ~Stale(p) /\ ~NoChange(p)
                 /\ Goto(t, "upsert")
                 /\ loc' = [loc EXCEPT ![t].prev = p, ![t].staged = None,
                                       ![t].prevNext = IF p = None THEN None ELSE points[p].next]
                 /\ UNCHANGED <<proc, guard, lock, acked>>
  /\ UNCHANGED <<points, maint, late, faults, crashes>>

NewRecordAs(t, status, version, evo) ==
  [status |-> status, key |-> loc[t].key, version |-> version,
   content |-> loc[t].content, supersedes |-> loc[t].prev, next |-> None,
   evo |-> evo, prev |-> IF evo = "pending" THEN loc[t].prev ELSE None]

VersionFrom(t, d) == IF loc[t].prev = None THEN 1 ELSE points[loc[t].prev].version + d

\* Wrong variants: the version goes down, stays the same or starts over; the
\* staged record has no recovery marker; it is active from the start
NewRecordCountsDown(t) ==
  IF loc[t].prev = None THEN NewRecordAs(t, "active", 1, "none")
  ELSE NewRecordAs(t, "deprecated", VersionFrom(t, -1), "pending")
NewRecordSameVersion(t) ==
  IF loc[t].prev = None THEN NewRecordAs(t, "active", 1, "none")
  ELSE NewRecordAs(t, "deprecated", VersionFrom(t, 0), "pending")
NewRecordUnmarked(t) ==
  NewRecordAs(t, IF loc[t].prev = None THEN "active" ELSE "deprecated",
              VersionFrom(t, 1), "none")
NewRecordActive(t) == NewRecordAs(t, "active", VersionFrom(t, 1), "none")

\* The payload written by store(): staged when there is a predecessor
NewRecord(t) ==
  LET p == loc[t].prev
  IN [status |-> IF p = None THEN "active" ELSE "deprecated",
      key |-> loc[t].key,
      version |-> IF p = None THEN 1 ELSE points[p].version + 1,
      content |-> loc[t].content,
      supersedes |-> p,
      next |-> None,
      evo |-> IF p = None THEN "none" ELSE "pending",
      prev |-> p]

FreshIds == {i \in Ids : /\ points[i].status = "absent"
                         /\ \A t \in Threads : loc[t].staged # i
                         /\ \A w \in late : w.id # i}

\* The storage write a thread is about to make; i is the id a new record gets.
CallOf(t, i) ==
  CASE pc[t] = "upsert" -> UpsertCall(i, NewRecord(t))
    [] pc[t] \in {"supersede", "r_supersede"} -> SupersedeCall(loc[t].prev, loc[t].staged)
    [] OTHER -> ActivateCall(loc[t].staged)

NewId(t) == IF pc[t] = "upsert" THEN FreshIds ELSE {None}

\* Wrong variant: the staged version is returned as if it were committed
UpsertReturns(t, i) ==
  /\ pc[t] = "upsert"
  /\ i \in FreshIds
  /\ points' = ApplyCall(points, CallOf(t, i))
  /\ Leave(t, TRUE)
  /\ acked' = acked \cup {i}
  /\ UNCHANGED <<maint, late, faults, crashes>>

\* store(): upsert; an insert_new is complete with it
Upsert(t, i) ==
  /\ pc[t] = "upsert"
  /\ i \in FreshIds
  /\ points' = ApplyCall(points, CallOf(t, i))
  /\ IF loc[t].prev = None
     THEN /\ Leave(t, TRUE)
          /\ acked' = acked \cup {i}
     ELSE /\ Goto(t, "supersede")
          /\ loc' = [loc EXCEPT ![t].staged = i]
          /\ UNCHANGED <<proc, guard, lock, acked>>
  /\ UNCHANGED <<maint, late, faults, crashes>>

\* _commit_staged_evolution: check the predecessor as it was read, supersede it
SupersedeOk(t) == loc[t].prevNext \in {None, loc[t].staged}

Supersede(t) ==
  /\ pc[t] = "supersede"
  /\ \/ /\ SupersedeOk(t)
        /\ points' = ApplyCall(points, CallOf(t, None))
        /\ Goto(t, "activate")
        /\ UNCHANGED <<proc, guard, lock, loc>>
     \/ /\ ~SupersedeOk(t)
        /\ Leave(t, FALSE)
        /\ UNCHANGED points
  /\ UNCHANGED <<maint, late, acked, faults, crashes>>

\* _activate_staged from store(), which then returns evolve
Activate(t) ==
  /\ pc[t] = "activate"
  /\ points' = ApplyCall(points, CallOf(t, None))
  /\ Leave(t, TRUE)
  /\ acked' = acked \cup {loc[t].staged}
  /\ UNCHANGED <<maint, late, faults, crashes>>

\* _recover_pending: the two writes that complete an abandoned evolution
RecoverSupersede(t) ==
  /\ pc[t] = "r_supersede"
  /\ points' = ApplyCall(points, CallOf(t, None))
  /\ Goto(t, "r_activate")
  /\ UNCHANGED <<proc, guard, lock, loc, maint, late, acked, faults, crashes>>

\* Wrong variant: rolls the predecessor back instead of the successor forward
RecoverRollback(t) ==
  /\ pc[t] = "r_activate"
  /\ points' = ApplyCall(points, ActivateCall(loc[t].prev))
  /\ AfterRecovery(t)
  /\ UNCHANGED <<maint, late, acked, faults, crashes>>

RecoverActivate(t) ==
  /\ pc[t] = "r_activate"
  /\ points' = ApplyCall(points, CallOf(t, None))
  /\ AfterRecovery(t)
  /\ UNCHANGED <<maint, late, acked, faults, crashes>>

Reads == {"reconcile", "recover", "retrieve", "search"}
Writes == {"upsert", "supersede", "activate", "r_supersede", "r_activate"}

\* embed() raises: before the lookup search, or before the upsert
EmbedFails(t) ==
  /\ pc[t] \in {"search", "upsert"}
  /\ Leave(t, FALSE)
  /\ UNCHANGED <<points, maint, late, acked, faults, crashes>>

\* A storage call raises without effect
CallFails(t) ==
  /\ pc[t] \in Reads \cup Writes
  /\ faults < MaxFaults
  /\ faults' = faults + 1
  /\ Leave(t, FALSE)
  /\ UNCHANGED <<points, maint, late, acked, crashes>>

\* A write is applied and its answer is lost: the caller sees StorageError
WriteLostAnswer(t, i) ==
  /\ pc[t] \in Writes
  /\ pc[t] = "supersede" => SupersedeOk(t)
  /\ i \in NewId(t)
  /\ faults < MaxFaults
  /\ faults' = faults + 1
  /\ points' = ApplyCall(points, CallOf(t, i))
  /\ Leave(t, FALSE)
  /\ UNCHANGED <<maint, late, acked, crashes>>

\* A write times out at the client (timeout_seconds) and is still queued at
\* the server, which applies it whenever it gets to it
WriteTimesOut(t, i) ==
  /\ LateWrites
  /\ pc[t] \in Writes
  /\ pc[t] = "supersede" => SupersedeOk(t)
  /\ i \in NewId(t)
  /\ faults < MaxFaults
  /\ faults' = faults + 1
  /\ late' = late \cup {CallOf(t, i)}
  /\ Leave(t, FALSE)
  /\ UNCHANGED <<points, maint, acked, crashes>>

DeliverLate(w) ==
  /\ w \in late
  /\ points' = ApplyCall(points, w)
  /\ late' = late \ {w}
  /\ UNCHANGED <<proc, guard, lock, pc, loc, maint, acked, faults, crashes>>

\* The process dies: the kernel drops its flock, its threads and locks are gone
Crash(p) ==
  /\ proc[p] # "down"
  /\ crashes < MaxCrashes
  /\ crashes' = crashes + 1
  /\ proc' = [proc EXCEPT ![p] = "down"]
  /\ pc' = [t \in Threads |-> IF ProcOf[t] = p THEN "idle" ELSE pc[t]]
  /\ loc' = [t \in Threads |-> IF ProcOf[t] = p THEN NoLocals ELSE loc[t]]
  /\ guard' = IF guard # None /\ ProcOf[guard] = p THEN None ELSE guard
  /\ lock' = [x \in Procs \X Keys |-> IF x[1] = p THEN None ELSE lock[x]]
  /\ UNCHANGED <<points, maint, late, acked, faults>>

\* RelationIndex.rebuild reads a page of records and then writes every record's
\* whole extensions map back, under no lock of the evolution service
RebuildRead ==
  /\ Rebuild
  /\ maint = {} /\ Present # {}
  /\ maint' = {[id |-> i, evo |-> points[i].evo, prev |-> points[i].prev] : i \in Present}
  /\ UNCHANGED <<points, proc, guard, lock, pc, loc, late, acked, faults, crashes>>

\* Wrong variant: the predecessor id does not survive the rewrite
RebuildStripped(m) ==
  /\ m \in maint
  /\ points' = [points EXCEPT ![m.id].evo = m.evo, ![m.id].prev = None]
  /\ maint' = maint \ {m}
  /\ UNCHANGED <<proc, guard, lock, pc, loc, late, acked, faults, crashes>>

RebuildWrite(m) ==
  /\ m \in maint
  /\ points' = [points EXCEPT ![m.id].evo = m.evo, ![m.id].prev = m.prev]
  /\ maint' = maint \ {m}
  /\ UNCHANGED <<proc, guard, lock, pc, loc, late, acked, faults, crashes>>

Init ==
  /\ points = [i \in Ids |-> Absent]
  /\ proc = [p \in Procs |-> "down"]
  /\ guard = None
  /\ lock = [x \in Procs \X Keys |-> None]
  /\ pc = [t \in Threads |-> "idle"]
  /\ loc = [t \in Threads |-> NoLocals]
  /\ maint = {} /\ late = {} /\ acked = {}
  /\ faults = 0 /\ crashes = 0

\* The steps a running thread takes by itself once it has the locks
Step(t) ==
  \/ ReconcileScan(t) \/ RecoverScan(t) \/ RecoverRetrieve(t)
  \/ RecoverSupersede(t) \/ RecoverActivate(t)
  \/ Search(t) \/ (\E i \in Ids : Upsert(t, i)) \/ Supersede(t) \/ Activate(t)
  \/ EmbedFails(t)

StoreAny(t, k) ==
  \E c \in Contents, f \in ForceInputs, x \in OptId : StoreBegin(t, k, c, f, x)

Next ==
  \/ \E t \in Threads :
       \/ \E k \in Keys : StoreAny(t, k)
       \/ Restart(t) \/ AcquireGuard(t) \/ AcquireLock(t) \/ Step(t)
       \/ CallFails(t)
       \/ \E i \in OptId : WriteLostAnswer(t, i) \/ WriteTimesOut(t, i)
  \/ \E w \in late : DeliverLate(w)
  \/ \E p \in Procs : Crash(p)
  \/ RebuildRead
  \/ \E m \in maint : RebuildWrite(m)

Spec == Init /\ [][Next]_vars

\* Running threads progress, docker restarts a stopped process
\* (restart: unless-stopped), and waiters eventually get a lock that keeps being
\* released.  Nothing is assumed of callers.
Fairness ==
  /\ \A t \in Threads : WF_vars(Step(t))
  /\ \A t \in Threads : SF_vars(AcquireGuard(t)) /\ SF_vars(AcquireLock(t))
  /\ \A p \in Procs : WF_vars(\E t \in Threads : ProcOf[t] = p /\ Restart(t))

FairSpec == Spec /\ Fairness

(***************************************************************************)
(* Properties.                                                             *)
(***************************************************************************)

\* The collection stays a map from ids to well-formed records, every lock is free
\* or held by a thread, and every thread is at a known place with typed locals,
\* whatever failed, crashed or arrived late.
TypeOK ==
  /\ points \in [Ids -> Records]
  /\ proc \in [Procs -> {"down", "starting", "up"}]
  /\ guard \in Threads \cup {None}
  /\ lock \in [Procs \X Keys -> Threads \cup {None}]
  /\ pc \in [Threads -> PCs]
  /\ loc \in [Threads -> Locals]
  /\ maint \subseteq [id: Ids, evo: {"none", "pending", "committed"}, prev: OptId]
  /\ late \subseteq Calls
  /\ acked \subseteq Ids
  /\ faults \in 0..MaxFaults /\ crashes \in 0..MaxCrashes

\* EVOLUTION_SPEC: at most one version of an identity and context is active,
\* whatever calls failed and whichever process died between two writes.
AtMostOneActive ==
  \A i, j \in Ids : points[i].status = "active" /\ points[j].status = "active"
                      /\ points[i].key = points[j].key => i = j

Committed(i) == points[i].status \in {"active", "superseded"}
IsPending(i) == points[i].status = "deprecated" /\ points[i].evo = "pending"

\* "The pending staged record remains recoverable" (_commit_staged_evolution):
\* of every identity at most one version is staged, and its predecessor is in
\* one of the two states _recover_pending accepts.  Otherwise every later store
\* of the identity, and every process start, would raise ConflictError.
PendingRecoverable ==
  \A i \in Ids : IsPending(i) =>
    /\ \A j \in Ids : IsPending(j) /\ points[j].key = points[i].key => j = i
    /\ points[i].prev # None
    /\ LET p == points[points[i].prev]
       IN /\ p.key = points[i].key
          /\ \/ p.status = "active" /\ p.next = None
             \/ p.status = "superseded" /\ p.next = i

\* The committed versions of an identity form one chain: version 1 has no
\* predecessor, every other one is one more than the record it supersedes, and
\* that record points forward to it.
LinearHistory ==
  \A i \in Ids : Committed(i) =>
    IF points[i].supersedes = None THEN points[i].version = 1
    ELSE LET p == points[points[i].supersedes]
         IN /\ p.status = "superseded" /\ p.next = i
            /\ p.key = points[i].key
            /\ points[i].version = p.version + 1

\* Two committed versions of one identity never have the same number
\* (a fork of the history would).
NoFork ==
  \A i, j \in Ids : Committed(i) /\ Committed(j) /\ points[i].key = points[j].key
                      /\ points[i].version = points[j].version => i = j

\* Canonical knowledge is never lost: every superseded record leads to a
\* successor that is committed or is staged and will be activated.
NoLostHead ==
  \A i \in Ids : points[i].status = "superseded" =>
    /\ points[i].next # None
    /\ Committed(points[i].next) \/ IsPending(points[i].next)

\* A record a caller was told is canonical stays in the history.
AckedDurable == \A i \in acked : Committed(i)

\* A caller that retries a store whose first attempt raised does not write the
\* same content a second time (meaningful when no caller forces evolution).
RetryIdempotent ==
  \A i \in Ids : Committed(i) /\ points[i].supersedes # None =>
    points[i].content # points[points[i].supersedes].content

\* The committed versions of an identity form one line, without fork or
\* repetition, whoever stored them, failed on the way or tried again.
VersionChain == LinearHistory /\ NoFork /\ RetryIdempotent

\* History is append only: a record keeps its identity, version and content, a
\* committed record never goes back to staged or absent, and a superseded one is
\* never active again nor redirected to another successor.
HistoryAppendOnly ==
  [][\A i \in Ids : points[i].status # "absent" =>
       /\ points'[i].key = points[i].key
       /\ points'[i].version = points[i].version
       /\ points'[i].content = points[i].content
       /\ points'[i].supersedes = points[i].supersedes
       /\ Committed(i) => points'[i].status \in {"active", "superseded"}
       /\ points[i].status = "superseded" =>
            points'[i].status = "superseded" /\ points'[i].next = points[i].next]_vars

\* The premise of "a later store call completes activation": callers come back to
\* the identity k.  The code cannot make them, so no fairness states it; it is the
\* condition under which the properties below promise anything about k.
StoresKeepComing(k) == []<><<\E t \in Threads : StoreAny(t, k)>>_vars

\* "A later store call completes activation": a staged version does not stay
\* staged when stores of its identity keep coming and failures stop.
PendingResolved ==
  \A k \in Keys : StoresKeepComing(k) =>
    \A i \in Ids : IsPending(i) /\ points[i].key = k ~> points[i].status = "active"

\* A process that died comes back, without any help of a caller: it recovers what
\* it finds staged, and startup reconciliation is never refused for good.  (Where
\* entities are spelled in one way.  Two staged versions whose entities differ in
\* spelling only can each be recovered, but reconcile_pending takes them for one
\* identity and raises, at every start.)
StartupCompletes == \A p \in Procs : proc[p] = "down" ~> proc[p] = "up"

\* Recovery comes to an end: of a process that died, always, and of a staged
\* version when its identity is stored to again and again.
RecoveryCompletes == PendingResolved /\ StartupCompletes

(***************************************************************************)
(* Refinement of KnowledgeHead.                                            *)
(***************************************************************************)
\* A staged version counts from the moment its predecessor points to it.
Swapped(i) == /\ IsPending(i)
              /\ points[i].prev # None /\ points[points[i].prev].next = i
ChainOf(k) == {i \in Ids : points[i].key = k /\ (Committed(i) \/ Swapped(i))}
HeadsOf(k) == {i \in ChainOf(k) : points[i].status # "superseded"}

Abstract == INSTANCE KnowledgeHead WITH
  NoContent <- None,
  version <- [k \in Keys |-> Cardinality(ChainOf(k))],
  content <- [k \in Keys |-> IF HeadsOf(k) = {} THEN None
                             ELSE points[CHOOSE i \in HeadsOf(k) : TRUE].content],
  readable <- [k \in Keys |-> ActiveOf(k) # {}]

\* Every behaviour of the three-write protocol with its failures, crashes and
\* recoveries is a behaviour of the abstract head; and where callers come back to
\* an identity, a head that was hidden is shown again.
RefinesHead ==
  /\ Abstract!HeadSafety
  /\ \A k \in Keys : StoresKeepComing(k) => Abstract!HeadReturns(k)
=============================================================================
