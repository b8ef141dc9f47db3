--------------------------- MODULE RelationGraph ----------------------------
(* Typed relations between Knowledge entities (relations/): proposal, review  *)
(* and admission of assertions through Knowledge Evolution, bounded           *)
(* traversal and recall of reviewed paths, and the projection rollout.  An    *)
(* assertion lives in one immutable version of its source and is anchored to  *)
(* one version of its target; a recall reads the store several times while    *)
(* versions change.                                                           *)
EXTENDS Naturals, Sequences, FiniteSets, SequencesExt, FiniteSetsExt, TLC

CONSTANTS
  Entities, Episodes,
  Writers, Reviewers,  \* writing principals; those that hold admin_review
  InitialStores,       \* the stores to start from
  Assertions,          \* entity -> the assertions a caller may propose for it
  Requests,            \* a sequence of [seeds, policy]; a policy: depth, nodes, edges, paths,
                       \* calls, dir, past, context
  PageSize,            \* points of one physical page
  DreamLimit,          \* items a dream takes from one expansion
  None,
  MaxTime, MaxRecalls,
  MaxEvents            \* bound on writes, lifecycle decisions, ticks, crashes and rollouts begun

ASSUME RelationAssumption ==
  /\ Reviewers \subseteq Writers /\ None \notin Writers
  /\ Episodes \cap (Entities \X Nat) = {} /\ DreamLimit \in Nat
  /\ \A n \in DOMAIN Requests : Requests[n] \in
       [seeds : SUBSET (Entities \X Nat),
        policy : [depth : 1..3, nodes : 1..128, edges : 1..256, paths : 1..512, calls : 1..32,
                  dir : {"out", "in", "both"}, past : BOOLEAN, context : Nat]]
  /\ \A e \in Entities : Assertions[e] \subseteq
       [kind : {"causes", "contradicts"}, target : Entities \ {e}, anchor : Nat,
        proof : Episodes \cup (Entities \X Nat), until : Nat \cup {None}]

VARIABLES
  store,     \* <<entity, version>> -> record
  episode,   \* episode -> is it eligible for ordinary recall
  clock,
  writer,    \* writer -> the call it executes
  lock,      \* entity -> the writer that holds its identity lock
  recall,    \* the recall being executed
  answer,    \* what the recall that just ended returned
  rollout,   \* the operator's rollout: phase, checkpoint, scan, todo; and its history: which
             \* records it ever put back to pending, and which before this run; has one
             \* succeeded with no write half done
  count      \* events and recalls so far, against their bounds

vars == <<store, episode, clock, writer, lock, recall, answer, rollout, count>>

RecordIds == Entities \X (Nat \ {0})
Kinds     == {"causes", "contradicts"}
Statuses  == {"proposed", "accepted", "rejected"}
Idle      == [pc |-> "idle"]
NoAnswer  == [kind |-> "none"]

(* The caller of the last recall has its answer: it is kept for one state.    *)
AnswerTaken == answer' = NoAnswer

-----------------------------------------------------------------------------
(* An assertion: kind, target entity, the version of the target it is         *)
(* anchored to, its proof (a record or an episode), status and end of         *)
(* validity.  A contradiction has the same identity from both ends.           *)
RelationId(owner, edge) ==
  <<edge.kind, IF edge.kind = "contradicts" THEN {owner, edge.target} ELSE <<owner, edge.target>> >>

(* A proposal carries no status but the default one.                          *)
Proposed(x) == [kind |-> x.kind, target |-> x.target, anchor |-> x.anchor, proof |-> x.proof,
                status |-> "proposed", until |-> x.until]

(* project_relations: the projection is computed from the bundle.             *)
Project(edges) == [targets |-> {x.target : x \in {y \in edges : y.status = "accepted"}},
                   digest |-> edges]

Projected(r) == r.index = Project(r.edges)

Visible(r) == r.ordinary

(* eligible(): visible, created by then, and a committed version.             *)
Eligible(r, at) ==
  /\ Visible(r) /\ r.created <= at
  /\ r.status \in {"active", "superseded"} /\ r.evo # "pending"

InForce(x, at) == x.status = "accepted" /\ (x.until = None \/ at < x.until)

(* head_map: the active version, or in the past the highest committed one.    *)
HeadsOf(S, e, at, past) ==
  LET group == {i \in DOMAIN S : i[1] = e /\ S[i].created <= at /\ S[i].evo # "pending"}
      top   == Max({i[2] : i \in group})
  IN IF ~past THEN {i \in group : S[i].status = "active"}
     ELSE {i \in group : i[2] = top /\ S[i].status \in {"active", "superseded"}}

IsHead(S, i, at, past) == HeadsOf(S, i[1], at, past) = {i} /\ Eligible(S[i], at)

ActiveOf(S, e) == {i \in DOMAIN S : i[1] = e /\ S[i].status = "active"}
PendingOf(S, e) == {i \in DOMAIN S : i[1] = e /\ S[i].status = "deprecated" /\ S[i].evo = "pending"}

(* The stores to start from are as the evolution service writes them: of an   *)
(* entity every version but the last is superseded, but that a version not    *)
(* yet activated may follow the active one (evolution.py, models.py).         *)
Edges == [kind : Kinds, target : Entities, anchor : Nat, proof : Episodes \cup (Entities \X Nat),
          status : Statuses, until : Nat \cup {None}]

\* No two assertions of one identity (RelationBundle)
BundleOK(e, edges) ==
  /\ IsFiniteSet(edges) /\ edges \subseteq {x \in Edges : x.target # e}
  /\ \A x, y \in edges : RelationId(e, x) = RelationId(e, y) => x = y

StoreRecord == [status : {"active", "superseded", "deprecated"}, evo : {"none", "pending", "committed"},
                ordinary : BOOLEAN, edges : SUBSET Edges,
                index : {None} \cup [targets : SUBSET Entities, digest : SUBSET Edges],
                created : Nat, updated : Nat, previous : RecordIds \cup {None}]

OneLine(S) ==
  /\ \A i, j \in DOMAIN S : i[1] = j[1] /\ i[2] < j[2] =>
       \/ S[i].status = "superseded"
       \/ S[i].status = "active" /\ S[j].status = "deprecated"
  /\ \A j \in DOMAIN S : S[j].status = "deprecated" =>
       /\ S[j].evo = "pending"
       /\ S[j].previous \in DOMAIN S /\ S[j].previous[1] = j[1] /\ S[j].previous[2] < j[2]
       /\ \A i \in DOMAIN S : i[1] = j[1] /\ S[i].status = "active" => i = S[j].previous

ASSUME StoresAssumption ==
  \A S \in InitialStores :
    /\ IsFiniteSet(DOMAIN S) /\ DOMAIN S \subseteq RecordIds
    /\ \A i \in DOMAIN S :
         /\ S[i] \in StoreRecord /\ BundleOK(i[1], S[i].edges)
         /\ S[i].index = None \/ Projected(S[i])
    /\ OneLine(S)

-----------------------------------------------------------------------------
(* Writing: knowledge_store, propose and review.  All end in                  *)
(* KnowledgeEvolutionService.store, under the lock of the identity.           *)

(* _source: one read of the version the caller names, which must be current.  *)
SourceUsable(i) ==
  i \in DOMAIN store /\ store[i].status = "active" /\ Visible(store[i])

Replacing(i, x) == TRUE

(* A proposal cannot replace an assertion of the same identity.               *)
NotReplacing(i, x) ==
  \A y \in store[i].edges : RelationId(i[1], y) = RelationId(i[1], x) => y = x

ProposeRead(w, i, x) ==
  /\ writer[w].pc = "idle" /\ count.events < MaxEvents
  /\ SourceUsable(i)
  /\ NotReplacing(i, x)
  /\ writer' = [writer EXCEPT ![w] =
       [pc |-> "admit", entity |-> i[1], expected |-> i, named |-> {RelationId(i[1], x)},
        bundle |-> store[i].edges \cup {x}]]
  /\ count' = [count EXCEPT !.events = @ + 1]
  /\ UNCHANGED <<store, episode, clock, lock, recall, rollout>>
  /\ AnswerTaken

ReviewRead(w, i, x, status) ==
  /\ writer[w].pc = "idle" /\ count.events < MaxEvents
  /\ w \in Reviewers
  /\ SourceUsable(i)
  /\ x \in store[i].edges
  /\ writer' = [writer EXCEPT ![w] =
       [pc |-> "admit", entity |-> i[1], expected |-> i, named |-> {RelationId(i[1], x)},
        bundle |-> (store[i].edges \ {x}) \cup {[x EXCEPT !.status = status]}]]
  /\ count' = [count EXCEPT !.events = @ + 1]
  /\ UNCHANGED <<store, episode, clock, lock, recall, rollout>>
  /\ AnswerTaken

(* knowledge_store with new content and no relations: no version expected.    *)
ContentStore(w, e) ==
  /\ writer[w].pc = "idle" /\ count.events < MaxEvents
  /\ writer' = [writer EXCEPT ![w] =
       [pc |-> "enter", entity |-> e, expected |-> None, named |-> {}, bundle |-> {}]]
  /\ count' = [count EXCEPT !.events = @ + 1]
  /\ UNCHANGED <<store, episode, clock, lock, recall, rollout>>
  /\ AnswerTaken

(* What a call is about, and the two writes it makes with a staged version.   *)
Call(c, pc) ==
  [pc |-> pc, entity |-> c.entity, expected |-> c.expected, named |-> c.named, bundle |-> c.bundle]

Completing(c, pc, staged, record, then) ==
  [pc |-> pc, entity |-> c.entity, expected |-> c.expected, named |-> c.named, bundle |-> c.bundle,
   staged |-> staged, previous |-> record.previous, image |-> record, then |-> then]

(* admit_relations: an assertion not rejected needs an active recallable      *)
(* anchor and recallable proof; a rejected one only that they exist.          *)
ProofRecallable(p) == IF p \in Episodes THEN episode[p] ELSE store[p].ordinary
Admissible(w, bundle) ==
  /\ w \notin Reviewers => \A x \in bundle : x.status = "proposed"
  /\ \A x \in bundle :
       /\ <<x.target, x.anchor>> \in DOMAIN store
       /\ x.proof \in Episodes \cup DOMAIN store
       /\ x.status = "rejected" \/
            LET t == store[<<x.target, x.anchor>>]
            IN t.status = "active" /\ t.ordinary /\ ProofRecallable(x.proof)

Admit(w) ==
  /\ writer[w].pc = "admit"
  /\ writer' = [writer EXCEPT ![w] =
       IF Admissible(w, @.bundle) THEN Call(@, "enter") ELSE Idle]
  /\ UNCHANGED <<store, episode, clock, lock, recall, rollout, count>>
  /\ AnswerTaken

(* Under the lock a pending version is completed first (_recover_pending).    *)
Enter(w) ==
  LET e == writer[w].entity IN
  /\ writer[w].pc = "enter" /\ lock[e] \in {None, w}
  /\ lock' = [lock EXCEPT ![e] = w]
  /\ writer' = [writer EXCEPT ![w] =
       IF PendingOf(store, e) = {} THEN Call(@, "stage")
       ELSE LET s == CHOOSE i \in PendingOf(store, e) : TRUE
            IN Completing(@, IF store[store[s].previous].status = "active" THEN "supersede" ELSE "activate",
                          s, store[s], "enter")]
  /\ UNCHANGED <<store, episode, clock, recall, rollout, count>>
  /\ AnswerTaken

CurrentAnyVersion(w, previous) == TRUE

(* expected_previous_id: the version read must still be the active one.       *)
CurrentAsExpected(w, previous) == writer[w].expected \in {None, previous}

(* Changing reviewed assertions needs admin_review, also by leaving them out. *)
MayChange(w, previous) ==
  \/ w \in Reviewers
  \/ writer[w].bundle = store[previous].edges
  \/ \A x \in store[previous].edges : x.status = "proposed"

Leaves(w) == /\ lock' = [lock EXCEPT ![writer[w].entity] = None]
             /\ writer' = [writer EXCEPT ![w] = Idle]

(* The bundle unchanged with the same content is NO_CHANGE; else the next     *)
(* version is staged, with its projection.                                    *)
Stage(w) ==
  LET e == writer[w].entity
      previous == CHOOSE i \in ActiveOf(store, e) : TRUE
      staged == <<e, previous[2] + 1>>
      record == [status |-> "deprecated", evo |-> "pending", ordinary |-> TRUE,
                 edges |-> writer[w].bundle, index |-> Project(writer[w].bundle),
                 created |-> clock + 1, updated |-> 0, previous |-> previous]
      unchanged == writer[w].expected # None /\ writer[w].bundle = store[previous].edges
  IN
  /\ writer[w].pc = "stage" /\ clock < MaxTime
  /\ IF Cardinality(ActiveOf(store, e)) = 1 /\ CurrentAsExpected(w, previous)
          /\ MayChange(w, previous) /\ ~unchanged
     THEN /\ store' = [i \in DOMAIN store \cup {staged} |-> IF i = staged THEN record ELSE store[i]]
          /\ clock' = clock + 1
          /\ writer' = [writer EXCEPT ![w] = Completing(@, "supersede", staged, record, "done")]
          /\ UNCHANGED lock
     ELSE Leaves(w) /\ UNCHANGED <<store, clock>>
  /\ UNCHANGED <<episode, recall, rollout, count>>
  /\ AnswerTaken

Superseded(r) == [r EXCEPT !.status = "superseded", !.updated = r.updated + 1]

Supersede(w) ==
  /\ writer[w].pc = "supersede"
  /\ store' = [store EXCEPT ![writer[w].previous] = Superseded(store[writer[w].previous])]
  /\ writer' = [writer EXCEPT ![w].pc = "activate"]
  /\ UNCHANGED <<episode, clock, lock, recall, rollout, count>>
  /\ AnswerTaken

(* _activate_staged writes the extensions it staged, or recovery read.        *)
Activated(r, image) ==
  [r EXCEPT !.status = "active", !.evo = "committed", !.updated = r.updated + 1,
            !.edges = image.edges, !.index = image.index]

Activate(w) ==
  LET i == writer[w].staged IN
  /\ writer[w].pc = "activate"
  /\ store' = [store EXCEPT ![i] = Activated(store[i], writer[w].image)]
  /\ IF writer[w].then = "enter"
     THEN /\ writer' = [writer EXCEPT ![w] = Call(@, "enter")]
          /\ UNCHANGED lock
     ELSE Leaves(w)
  /\ UNCHANGED <<episode, clock, recall, rollout, count>>
  /\ AnswerTaken

(* The process of a writer dies; its locks are released with it.              *)
Crash(w) ==
  /\ writer[w].pc # "idle" /\ count.events < MaxEvents
  /\ writer' = [writer EXCEPT ![w] = Idle]
  /\ lock' = [e \in Entities |-> IF lock[e] = w THEN None ELSE lock[e]]
  /\ count' = [count EXCEPT !.events = @ + 1]
  /\ UNCHANGED <<store, episode, clock, recall, rollout>>
  /\ AnswerTaken

(* A lifecycle decision hides a record or shows it again, or hides an episode.*)
Switched(r) == [r EXCEPT !.ordinary = ~r.ordinary, !.updated = r.updated + 1]

Flip ==
  /\ count.events < MaxEvents
  /\ \/ \E i \in DOMAIN store :
          /\ store' = [store EXCEPT ![i] = Switched(store[i])]
          /\ UNCHANGED episode
     \/ \E p \in {q \in Episodes : episode[q]} :
          episode' = [episode EXCEPT ![p] = FALSE] /\ UNCHANGED store
  /\ count' = [count EXCEPT !.events = @ + 1]
  /\ UNCHANGED <<clock, writer, lock, recall, rollout>>
  /\ AnswerTaken

Tick ==
  /\ clock < MaxTime /\ count.events < MaxEvents
  /\ clock' = clock + 1
  /\ count' = [count EXCEPT !.events = @ + 1]
  /\ UNCHANGED <<store, episode, writer, lock, recall, rollout>>
  /\ AnswerTaken

-----------------------------------------------------------------------------
(* A recall: traversal level by level, then hydration of every record of the  *)
(* paths.  Each read is one storage call, charged to the budget.              *)
Ends(path) == Last(path.nodes)

Seed(i) == [nodes |-> <<i[1]>>, recs |-> <<i>>, steps |-> <<>>]

Readable(i, at, past) == store[i].created <= at /\ (past \/ store[i].status = "active")

Policy(q) == Requests[q].policy

RecallBegin(q, at) ==
  /\ recall.pc = "idle" /\ count.recalls < MaxRecalls
  /\ Cardinality(Requests[q].seeds) <= Policy(q).nodes
  /\ recall' = [pc |-> "ready", req |-> q, at |-> at, seeds |-> Requests[q].seeds, used |-> 0, level |-> 0,
                frontier |-> <<>>, paths |-> <<>>, nodes |-> {}, edges |-> {}, reasons |-> {},
                claims |-> {}, known |-> <<>>, basis |-> <<>>, start |-> <<store, episode>>]
  /\ answer' = NoAnswer
  /\ count' = [count EXCEPT !.recalls = @ + 1]
  /\ UNCHANGED <<store, episode, clock, writer, lock, rollout>>

(* ReadBudget.charge and the page limit: the reason a read ends the phase.    *)
Limits(rows) == (IF recall.used >= Policy(recall.req).calls THEN {"storage_calls"} ELSE {})
  \cup (IF recall.used < Policy(recall.req).calls /\ Cardinality(rows) > PageSize
        THEN {"candidate_capacity"} ELSE {})

Charged == [recall EXCEPT !.used = IF @ < Policy(recall.req).calls THEN @ + 1 ELSE @]

ReadOnly == UNCHANGED <<store, episode, clock, writer, lock, rollout, count>>

Refuse == recall' = Idle /\ answer' = [kind |-> "error"]

(* TraversalLimit keeps the paths of completed levels.                        *)
Cut(rows, pc) == recall' = [Charged EXCEPT !.pc = pc, !.reasons = @ \cup Limits(rows)]

(* require_ready: no record of the scope lacks its projection.                *)
Ready ==
  /\ recall.pc = "ready"
  /\ IF Limits({}) # {} THEN Cut({}, "hydrate") /\ UNCHANGED answer
     ELSE IF \E i \in DOMAIN store : store[i].index = None THEN Refuse
     ELSE recall' = [Charged EXCEPT !.pc = "seeds"] /\ UNCHANGED answer
  /\ ReadOnly

ReadSeeds ==
  LET rows == {i \in recall.seeds \cap DOMAIN store : Readable(i, recall.at, Policy(recall.req).past)} IN
  /\ recall.pc = "seeds"
  /\ IF Limits(rows) # {} THEN Cut(rows, "hydrate") /\ UNCHANGED answer
     ELSE IF rows # recall.seeds \/ \E i \in rows : ~Eligible(store[i], recall.at) \/ ~Projected(store[i])
     THEN Refuse
     ELSE /\ recall' = [Charged EXCEPT !.pc = "owners", !.nodes = {i[1] : i \in rows},
                          !.frontier = LET s == SetToSeq(rows) IN [n \in DOMAIN s |-> Seed(s[n])]]
          /\ UNCHANGED answer
  /\ ReadOnly

Follows(p, dir) == p.dir \in {dir, "both"}

(* The assertion leads from one of the keys in a direction asked for.         *)
Leads(p, keys, owner, x) ==
  \/ owner \in keys /\ (Follows(p, "out") \/ x.kind = "contradicts")
  \/ x.target \in keys /\ (Follows(p, "in") \/ x.kind = "contradicts")

ReadOwners ==
  LET keys == {Ends(recall.frontier[n]) : n \in DOMAIN recall.frontier}
      rows == {i \in DOMAIN store : /\ Readable(i, recall.at, Policy(recall.req).past)
                                    /\ store[i].index # None
                                    /\ i[1] \in keys \/ store[i].index.targets \cap keys # {}}
      claims == {<<i, x>> : i \in {j \in rows : Eligible(store[j], recall.at)},
                            x \in UNION {store[j].edges : j \in rows}}
  IN
  /\ recall.pc = "owners"
  /\ IF Limits(rows) # {} THEN Cut(rows, "hydrate") /\ UNCHANGED answer
     ELSE IF \E i \in rows : ~Projected(store[i]) THEN Refuse
     ELSE /\ recall' = [Charged EXCEPT !.pc = "heads",
               !.claims = {c \in claims : /\ c[2] \in store[c[1]].edges
                                          /\ InForce(c[2], recall.at)
                                          /\ Leads(Policy(recall.req), keys, c[1][1], c[2])}]
          /\ UNCHANGED answer
  /\ ReadOnly

Proofs(claims) == {c[2].proof : c \in claims}

HeadKeys == {Ends(recall.frontier[n]) : n \in DOMAIN recall.frontier}
  \cup {c[1][1] : c \in recall.claims} \cup {c[2].target : c \in recall.claims}

(* A claim holds when the owner and the anchor are the heads of their         *)
(* entities and the proof is eligible, as far as the reads of this level say. *)
Holds(known, shown, c) ==
  LET at == recall.at  past == Policy(recall.req).past  anchor == <<c[2].target, c[2].anchor>> IN
  /\ IsHead(known, c[1], at, past)
  /\ anchor \in DOMAIN known /\ IsHead(known, anchor, at, past)
  /\ IF c[2].proof \in Episodes THEN c[2].proof \in shown
     ELSE c[2].proof \in DOMAIN known /\ Eligible(known[c[2].proof], at)

(* The transitions of a claim, in the directions asked for.                   *)
Transitions(p, c) ==
  LET owner == c[1]  x == c[2]
      step(dir) == [owner |-> owner, edge |-> x, dir |-> dir]
      sym == x.kind = "contradicts"
  IN (IF Follows(p, "out") \/ sym
      THEN {[from |-> owner[1], to |-> <<x.target, x.anchor>>, step |-> step("out")]} ELSE {})
     \cup (IF Follows(p, "in") \/ sym
           THEN {[from |-> x.target, to |-> owner, step |-> step("in")]} ELSE {})

Extended(path, t) == [nodes |-> Append(path.nodes, t.to[1]), recs |-> Append(path.recs, t.to),
                      steps |-> Append(path.steps, t.step)]

AlongAny(path, t) == TRUE

(* No entity twice on one path.                                               *)
Along(path, t) == t.to[1] \notin ToSet(path.nodes)

(* One transition against the budgets, in the order of the code.              *)
Take(acc, path, t) ==
  LET p == Policy(recall.req)
      rel == RelationId(t.step.owner[1], t.step.edge)
      full == CASE t.to[1] \notin acc.nodes /\ Cardinality(acc.nodes) >= p.nodes -> {"nodes"}
                [] rel \notin acc.edges /\ Cardinality(acc.edges) >= p.edges -> {"edges"}
                [] Len(acc.paths) >= p.paths -> {"paths"}
                [] OTHER -> {}
  IN IF ~Along(path, t) THEN acc
     ELSE IF full # {} THEN [acc EXCEPT !.reasons = @ \cup full]
     ELSE [nodes |-> acc.nodes \cup {t.to[1]}, edges |-> acc.edges \cup {rel},
           paths |-> Append(acc.paths, Extended(path, t)), reasons |-> acc.reasons,
           next |-> Append(acc.next, Extended(path, t))]

TakeAll(acc, path, steps) == FoldLeft(LAMBDA a, t : Take(a, path, t), acc, SetToSeq(steps))

(* A path of the frontier whose last record is no longer the head is left.    *)
FromPath(acc, path, known, steps) ==
  IF ~IsHead(known, Last(path.recs), recall.at, Policy(recall.req).past) THEN acc
  ELSE TakeAll(acc, path, {t \in steps : t.from = Ends(path)})

Expanded(known, shown) ==
  LET steps == UNION {Transitions(Policy(recall.req), c) : c \in {d \in recall.claims : Holds(known, shown, d)}}
  IN FoldLeft(LAMBDA acc, path : FromPath(acc, path, known, steps),
              [nodes |-> recall.nodes, edges |-> recall.edges, paths |-> recall.paths,
               reasons |-> recall.reasons, next |-> <<>>], recall.frontier)

(* The level is done: extend the frontier, or stop at the last level.         *)
NextLevel(rc, known, shown) ==
  LET x == Expanded(known, shown)
      last == rc.level + 1 = Policy(rc.req).depth
  IN [rc EXCEPT !.nodes = x.nodes, !.edges = x.edges, !.paths = x.paths, !.frontier = x.next,
                !.level = @ + 1, !.claims = {}, !.known = <<>>,
                !.reasons = x.reasons \cup (IF last /\ x.next # <<>> THEN {"depth"} ELSE {}),
                !.pc = IF last \/ x.next = <<>> THEN "hydrate" ELSE "owners"]

ReadHeads ==
  LET rows == {i \in DOMAIN store : store[i].created <= recall.at
                                    /\ \/ i[1] \in HeadKeys /\ store[i].index # None
                                       \/ i \in Proofs(recall.claims)}
      known == [i \in rows |-> store[i]]
      several == \E e \in HeadKeys :
        Cardinality(HeadsOf(known, e, recall.at, Policy(recall.req).past)) > 1
  IN
  /\ recall.pc = "heads"
  /\ IF Limits(rows) # {} THEN Cut(rows, "hydrate") /\ UNCHANGED answer
     ELSE IF several \/ \E i \in rows : i[1] \in HeadKeys /\ ~Projected(store[i]) THEN Refuse
     ELSE /\ recall' = IF Proofs(recall.claims) \cap Episodes # {}
                       THEN [Charged EXCEPT !.pc = "proofs", !.known = known]
                       ELSE NextLevel(Charged, known, {})
          /\ UNCHANGED answer
  /\ ReadOnly

(* Episode proofs are read after the heads.                                   *)
ReadProofs ==
  LET rows == Proofs(recall.claims) \cap Episodes IN
  /\ recall.pc = "proofs"
  /\ IF Limits(rows) # {} THEN Cut(rows, "hydrate")
     ELSE recall' = NextLevel(Charged, recall.known, {p \in rows : episode[p]})
  /\ UNCHANGED answer
  /\ ReadOnly

-----------------------------------------------------------------------------
(* Hydration and packing (recall.py).                                         *)
PathProofs(path) == {path.steps[n].edge.proof : n \in DOMAIN path.steps}
PathRefs(path) == ToSet(path.recs) \cup PathProofs(path)
                    \cup {path.steps[n].owner : n \in DOMAIN path.steps}
AllRefs(paths) == UNION {PathRefs(paths[n]) : n \in DOMAIN paths}

(* visible(endpoint=True): in the present only an active version.             *)
Endpoint(r, at, past) == Eligible(r, at) /\ (past \/ r.status = "active")

RevalidatedNot(path, known, shown, at, past) == TRUE

(* The owner is still current and still makes the assertion.                  *)
Confirmed(s, known, at, past) ==
  /\ Endpoint(known[s.owner], at, past)
  /\ s.edge \in known[s.owner].edges /\ InForce(s.edge, at)

Revalidated(path, known, shown, at, past) ==
  /\ \A i \in ToSet(path.recs) : Endpoint(known[i], at, past)
  /\ \A n \in DOMAIN path.steps :
       LET s == path.steps[n] IN
       /\ Confirmed(s, known, at, past)
       /\ IF s.edge.proof \in Episodes THEN s.edge.proof \in shown
          ELSE Eligible(known[s.edge.proof], at)

(* verify_projection of an owner, reached when the steps before it held.      *)
Inconsistent(path, known, at, past) ==
  /\ \A i \in ToSet(path.recs) : Endpoint(known[i], at, past)
  /\ \E n \in DOMAIN path.steps :
       /\ \A k \in 1..(n - 1) : Confirmed(path.steps[k], known, at, past)
       /\ Endpoint(known[path.steps[n].owner], at, past) /\ ~Projected(known[path.steps[n].owner])

(* A whole path with all its records, or nothing of it.                       *)
Pack(acc, path, known, shown, at, p) ==
  LET records == acc.records \cup PathRefs(path) IN
  IF ~Revalidated(path, known, shown, at, p.past)
  THEN [acc EXCEPT !.reasons = @ \cup {"revalidation"}]
  ELSE IF Len(acc.paths) + 1 + Cardinality(records) > p.context
  THEN [acc EXCEPT !.reasons = @ \cup {"context_tokens"}]
  ELSE [paths |-> Append(acc.paths, path), records |-> records, reasons |-> acc.reasons]

Packed(paths, known, shown, at, p) ==
  FoldLeft(LAMBDA acc, path : Pack(acc, path, known, shown, at, p),
           [paths |-> <<>>, records |-> {}, reasons |-> {}], paths)

KeepFilled(acc, path, seeds) ==
  LET items == (ToSet(path.recs) \cup PathProofs(path)) \ seeds
  IN IF Cardinality(acc) >= DreamLimit THEN acc
     ELSE acc \cup CHOOSE T \in SUBSET items :
            Cardinality(acc \cup T) = Min({Cardinality(acc \cup items), DreamLimit})

(* DreamRelationRecall.expand: whole paths while their items fit.             *)
Keep(acc, path, seeds) ==
  LET items == (acc \cup ToSet(path.recs) \cup PathProofs(path)) \ seeds
  IN IF Cardinality(items) > DreamLimit THEN acc ELSE items

DreamItems(paths, seeds) == FoldLeft(LAMBDA acc, path : Keep(acc, path, seeds), {}, paths)

Return(rc, paths, shown) ==
  LET p == Policy(rc.req)
      packed == Packed(paths, rc.known, shown, rc.at, p)
  IN IF \E n \in DOMAIN paths : Inconsistent(paths[n], rc.known, rc.at, p.past) THEN Refuse
     ELSE /\ answer' = [kind |-> "paths", paths |-> ToSet(packed.paths), records |-> packed.records,
                        reasons |-> rc.reasons \cup packed.reasons, seeds |-> rc.seeds, req |-> rc.req,
                        at |-> rc.at, basis |-> rc.basis, used |-> rc.used,
                        items |-> DreamItems(packed.paths, rc.seeds),
                        start |-> rc.start, calm |-> rc.start = <<store, episode>>]
          /\ recall' = Idle

Hydrate ==
  LET rows == AllRefs(recall.paths) \ Episodes
      episodes == AllRefs(recall.paths) \cap Episodes
  IN
  /\ recall.pc = "hydrate"
  /\ IF rows = {} THEN Return(recall, <<>>, {})
     ELSE IF Limits(rows) # {}
     THEN Return([Charged EXCEPT !.reasons = @ \cup Limits(rows)], <<>>, {})
     ELSE LET rc == [Charged EXCEPT !.known = [i \in rows |-> store[i]], !.basis = store]
          IN IF episodes = {} THEN Return(rc, rc.paths, {})
             ELSE recall' = [rc EXCEPT !.pc = "hydrate_episodes"] /\ UNCHANGED answer
  /\ ReadOnly

HydrateEpisodes ==
  LET rows == AllRefs(recall.paths) \cap Episodes IN
  /\ recall.pc = "hydrate_episodes"
  /\ IF Limits(rows) # {}
     THEN Return([Charged EXCEPT !.reasons = @ \cup Limits(rows)], <<>>, {})
     ELSE Return(Charged, recall.paths, {p \in rows : episode[p]})
  /\ ReadOnly

-----------------------------------------------------------------------------
(* The projection rollout (maintenance.py, scripts/relations_rollout.py).     *)
(* The operator promises that writers are quiet; nothing enforces it.         *)

(* source_hash: every field of every record but the projection.               *)
Source(S) == [i \in DOMAIN S |-> [S[i] EXCEPT !.index = None]]

Census(S) == \A i \in DOMAIN S : S[i].index = None \/ Projected(S[i])

NoRollout == [phase |-> "idle", checkpoint |-> <<>>, scan |-> <<>>, todo |-> {},
              undone |-> {}, before |-> {}, complete |-> FALSE]

Ended(phase) == [rollout EXCEPT !.phase = phase, !.scan = <<>>, !.todo = {}]

CheckpointBegin ==
  /\ rollout.phase \in {"idle", "applied", "conflict"}
  /\ count.events < MaxEvents /\ Census(store)
  /\ rollout' = [rollout EXCEPT !.phase = "snapshot", !.scan = Source(store)]
  /\ count' = [count EXCEPT !.events = @ + 1]
  /\ UNCHANGED <<store, episode, clock, writer, lock, recall>>
  /\ AnswerTaken

(* The census after the snapshots must be the one before them.                *)
CheckpointEnd ==
  /\ rollout.phase = "snapshot"
  /\ rollout' = IF Source(store) = rollout.scan
                THEN [Ended("checkpoint") EXCEPT !.checkpoint = rollout.scan]
                ELSE Ended("idle")
  /\ UNCHANGED <<store, episode, clock, writer, lock, recall, count>>
  /\ AnswerTaken

ApplyScan ==
  /\ rollout.phase \in {"checkpoint", "applied", "conflict"} /\ Census(store)
  /\ rollout' = IF Source(store) = rollout.checkpoint
                THEN [rollout EXCEPT !.phase = "write", !.scan = store, !.before = rollout.undone,
                                     !.todo = {i \in DOMAIN store : store[i].index = None}]
                ELSE Ended("idle")
  /\ UNCHANGED <<store, episode, clock, writer, lock, recall, count>>
  /\ AnswerTaken

(* set_payload replaces the extensions (assertions, evolution state and       *)
(* projection) by those of the scan.                                          *)
Rewritten(r, old) ==
  [r EXCEPT !.edges = old.edges, !.evo = old.evo, !.previous = old.previous, !.index = Project(old.edges)]

ApplyWrite(i) ==
  LET r == rollout.scan[i] IN
  /\ rollout.phase = "write" /\ i \in rollout.todo
  /\ store' = [store EXCEPT ![i] = Rewritten(store[i], r)]
  /\ rollout' = [rollout EXCEPT !.todo = @ \ {i},
       !.undone = @ \cup {x \in {i} : r.evo = "pending" /\ store[i].evo # "pending"}]
  /\ UNCHANGED <<episode, clock, writer, lock, recall, count>>
  /\ AnswerTaken

VerifiedAnyway == TRUE

Verified == /\ Source(store) = Source(rollout.scan)
            /\ \A i \in DOMAIN store : store[i].index # None

ApplyVerify ==
  /\ rollout.phase = "write" /\ rollout.todo = {}
  /\ rollout' = IF Verified
       THEN [Ended("applied") EXCEPT
               !.complete = @ \/ \A w \in Writers : writer[w].pc \in {"idle", "admit", "enter"}]
       ELSE Ended("conflict")
  /\ UNCHANGED <<store, episode, clock, writer, lock, recall, count>>
  /\ AnswerTaken

(* The operator's process dies between two writes; the checkpoint remains.    *)
ApplyInterrupted ==
  /\ rollout.phase = "write" /\ count.events < MaxEvents
  /\ rollout' = Ended("checkpoint")
  /\ count' = [count EXCEPT !.events = @ + 1]
  /\ UNCHANGED <<store, episode, clock, writer, lock, recall>>
  /\ AnswerTaken

-----------------------------------------------------------------------------
Init ==
  /\ store \in InitialStores
  /\ episode = [p \in Episodes |-> TRUE]
  /\ clock = 1
  /\ writer = [w \in Writers |-> Idle]
  /\ lock = [e \in Entities |-> None]
  /\ recall = Idle /\ answer = NoAnswer
  /\ rollout = NoRollout
  /\ count = [events |-> 0, recalls |-> 0]

Write(w) ==
  \/ \E i \in DOMAIN store : \E x \in Assertions[i[1]] : ProposeRead(w, i, Proposed(x))
  \/ \E i \in DOMAIN store : \E x \in store[i].edges, s \in {"accepted", "rejected"} : ReviewRead(w, i, x, s)
  \/ \E e \in Entities : ContentStore(w, e)
  \/ Admit(w) \/ Enter(w) \/ Stage(w) \/ Supersede(w) \/ Activate(w) \/ Crash(w)

Recall ==
  \/ \E q \in DOMAIN Requests : \E at \in IF Policy(q).past THEN 0..clock ELSE {clock} :
       RecallBegin(q, at)
  \/ Ready \/ ReadSeeds \/ ReadOwners \/ ReadHeads \/ ReadProofs \/ Hydrate \/ HydrateEpisodes

Rollout ==
  \/ CheckpointBegin \/ CheckpointEnd \/ ApplyScan \/ ApplyVerify \/ ApplyInterrupted
  \/ \E i \in DOMAIN store : ApplyWrite(i)

Next == Recall \/ Rollout \/ Flip \/ Tick \/ \E w \in Writers : Write(w)

Spec == Init /\ [][Next]_vars

-----------------------------------------------------------------------------
(* Types, the bundles' identities, one current version of an entity, and the  *)
(* calls a recall is charged (models.py, traversal.py).                       *)
RelationTypeOK ==
  /\ DOMAIN store \subseteq RecordIds
  /\ \A i \in DOMAIN store :
       store[i] \in StoreRecord /\ BundleOK(i[1], store[i].edges)
  /\ \A e \in Entities : Cardinality(ActiveOf(store, e)) <= 1 /\ lock[e] \in Writers \cup {None}
  /\ answer.kind = "paths" => answer.used <= Policy(answer.req).calls

(* A step of a path as it stood at one moment.                                *)
Hop(S, at, s) ==
  LET anchor == <<s.edge.target, s.edge.anchor>> IN
  /\ s.owner \in DOMAIN S /\ anchor \in DOMAIN S
  /\ IsHead(S, s.owner, at, FALSE) /\ IsHead(S, anchor, at, FALSE)
  /\ s.edge \in S[s.owner].edges /\ InForce(s.edge, at)

(* Every path that a recall of the present returned was a chain of reviewed   *)
(* assertions, each from the current version of its owner to the current      *)
(* version of its target, at one moment: the read of the records returned.    *)
(* Stale anchors are never redirected (traversal.py, recall.py).              *)
PathsHeld ==
  answer.kind = "paths" /\ ~Policy(answer.req).past =>
    \A path \in answer.paths :
      /\ \A n \in DOMAIN path.steps : Hop(answer.basis, answer.at, path.steps[n])
      /\ path.recs[1] \in answer.seeds
      /\ PathRefs(path) \subseteq answer.records

(* The paths there are, defined without reads, budgets and levels.            *)
AllPaths(S, shown, seeds, at, p) ==
  LET claims == {c \in {<<i, x>> : i \in DOMAIN S, x \in UNION {S[j].edges : j \in DOMAIN S}} :
                   /\ c[2] \in S[c[1]].edges /\ InForce(c[2], at)
                   /\ IsHead(S, c[1], at, p.past)
                   /\ <<c[2].target, c[2].anchor>> \in DOMAIN S
                   /\ IsHead(S, <<c[2].target, c[2].anchor>>, at, p.past)
                   /\ IF c[2].proof \in Episodes THEN shown[c[2].proof]
                      ELSE Eligible(S[c[2].proof], at)}
      steps == UNION {Transitions(p, c) : c \in claims}
      P[n \in 0..p.depth] ==
        IF n = 0 THEN {Seed(i) : i \in {j \in seeds : IsHead(S, j, at, p.past)}}
        ELSE P[n - 1] \cup
             {Extended(q.path, q.t) : q \in
               {q \in [path : P[n - 1], t : steps] :
                  /\ Len(q.path.steps) = n - 1 /\ q.t.from = Ends(q.path)
                  /\ \A k \in DOMAIN q.path.nodes : q.path.nodes[k] # q.t.to[1]}}
  IN {path \in P[p.depth] : path.steps # <<>>}

(* When nothing changed meanwhile, a recall that reports no limit but the     *)
(* depth returns every path, and one that reports limits returns only paths.  *)
PathsComplete ==
  answer.kind = "paths" /\ answer.calm =>
    LET all == AllPaths(answer.start[1], answer.start[2], answer.seeds, answer.at, Policy(answer.req)) IN
    /\ answer.paths \subseteq all
    /\ answer.reasons \subseteq {"depth"} => answer.paths = all
    /\ "depth" \notin answer.reasons /\ answer.reasons = {} =>
         \A path \in all : Len(path.steps) < Policy(answer.req).depth

(* A dream gets a record through relations only with every record of a path   *)
(* that justifies it (dream.py packs whole paths).                            *)
DreamWholePaths ==
  answer.kind = "paths" =>
    /\ Cardinality(answer.items) <= DreamLimit
    /\ \A i \in answer.items : \E path \in answer.paths :
         /\ i \in PathRefs(path)
         /\ PathRefs(path) \subseteq answer.items \cup answer.seeds

(* A reviewed assertion leaves the current version of its owner, or changes,  *)
(* only through a write that named it or that dropped the bundle with the     *)
(* content, and only by a reviewer: no racing proposal or review of another   *)
(* assertion takes it back (expected_previous_id).                            *)
ReviewedKept ==
  [][\A w \in Writers :
       LET i == writer[w].staged  e == writer[w].entity IN
       writer[w].pc = "activate" /\ writer'[w] = Idle /\ lock'[e] = None /\ lock[e] = w
         /\ writer[w].then = "done" /\ store'[i].status = "active" =>
         \A x \in store[writer[w].previous].edges :
           x.status # "proposed" /\ x \notin store'[i].edges =>
             /\ w \in Reviewers
             /\ writer[w].expected = None \/ RelationId(e, x) \in writer[w].named]_vars

(* Once a rollout reported success, with no write half done at that moment,   *)
(* every record has its exact projection for good, so recall is available.  A *)
(* rollout that put a version that went active meanwhile back to pending, by  *)
(* the extensions of its older scan, does not report success                  *)
(* (maintenance.py compares the source of its scan with the one at its end).  *)
RolloutSound ==
  /\ rollout.complete => \A i \in DOMAIN store : Projected(store[i])
  /\ rollout.phase = "applied" => rollout.undone = rollout.before

(* The paths of a recall, and the part of them a dream is given, are whole    *)
(* paths and were there at one moment, whatever was written between reads.    *)
PathsSound == RelationTypeOK /\ PathsHeld /\ DreamWholePaths
=============================================================================
