------------------------ MODULE RelationGraph_proof -------------------------
(***************************************************************************)
(* Theorems about RelationGraph, in three parts.                           *)
(*   - Folds: what a step keeps is what the whole fold keeps.              *)
(*   - Writing: the assertions of a version never change, a reviewed one   *)
(*     leaves the current version only by a review that named it, an       *)
(*     entity has one current version, and a rollout that reports success  *)
(*     is sound, whatever writers do meanwhile.                            *)
(*   - Reading: the paths a recall holds, and those a dream takes, are     *)
(*     whole chains of current assertions.                                 *)
(***************************************************************************)
EXTENDS RelationGraph, Integers, FiniteSetTheorems, WellFoundedInduction, TLAPS

-----------------------------------------------------------------------------
(***************************************************************************)
(* Folds.                                                                  *)
(***************************************************************************)

\* A set of numbers that is not empty has a least one
LEMMA LeastNat ==
  ASSUME NEW T \in SUBSET Nat, T # {}
  PROVE  \E m \in T : \A k \in T : m <= k
  <1> DEFINE Less == {ss \in Nat \X Nat : ss[1] < ss[2]}
  <1>0. OpToRel(<, Nat) = Less
    BY DEF OpToRel
  <1>1. IsWellFoundedOn(Less, Nat)
    BY <1>0, NatLessThanWellFounded
  <1>2. \E x \in T : \A y \in T : ~ (<<y, x>> \in Less)
    <2> HIDE DEF Less
    <2> QED BY <1>1, WFMin
  <1>3. ASSUME NEW x \in Nat, NEW y \in Nat, y < x
        PROVE  <<y, x>> \in Less
    <2>1. <<y, x>> \in Nat \X Nat
      OBVIOUS
    <2>2. <<y, x>>[1] < <<y, x>>[2]
      BY <1>3
    <2> QED BY <2>1, <2>2
  <1>4. PICK x \in T : \A y \in T : ~ (<<y, x>> \in Less)
    BY <1>2
  <1>5. \A k \in T : ~ (k < x)
    <2> HIDE DEF Less
    <2> QED BY <1>3, <1>4
  <1> QED BY <1>5

\* A bounded set of numbers contains its maximum
LEMMA MaxOf ==
  ASSUME NEW n \in Nat, NEW S \in SUBSET (1..n), S # {}
  PROVE  Max(S) \in S
  <1> DEFINE T == {n - x : x \in S}
  <1>0. \A x \in S : x \in Nat /\ n - x \in Nat
    OBVIOUS
  <1>1. T \in SUBSET Nat /\ T # {}
    BY <1>0
  <1> HIDE DEF T
  <1>2. PICK m \in T : \A k \in T : m <= k
    BY <1>1, LeastNat
  <1>3. PICK x \in S : m = n - x
    BY <1>2 DEF T
  <1>4. \A y \in S : x >= y
    <2>1. ASSUME NEW y \in S PROVE x >= y
      <3>1. n - y \in T
        BY DEF T
      <3> QED BY <1>2, <1>3, <3>1
    <2> QED BY <2>1
  <1> QED BY <1>4 DEF Max

\* Without its greatest element a set lies below it
LEMMA SmallerSet ==
  ASSUME NEW n \in Nat, NEW S \in SUBSET (1..n), S # {}
  PROVE  /\ Max(S) \in 1..n /\ S \ {Max(S)} \in SUBSET (1..n)
         /\ Cardinality(S) \in Nat /\ Cardinality(S \ {Max(S)}) = Cardinality(S) - 1
         /\ Cardinality(S) \in 1..n
  <1>0. 1 \in Int /\ n \in Int
    OBVIOUS
  <1>1. Max(S) \in S
    BY MaxOf
  <1>1a. IsFiniteSet(1..n) /\ Cardinality(1..n) = IF 1 > n THEN 0 ELSE n - 1 + 1
    BY <1>0, FS_Interval
  <1>1b. Cardinality(1..n) = n
    BY <1>1a
  <1>2. IsFiniteSet(S) /\ Cardinality(S) <= n
    BY <1>1a, <1>1b, FS_Subset
  <1>3. Cardinality(S \ {Max(S)}) = Cardinality(S) - 1
    BY <1>1, <1>2, FS_RemoveElement
  <1>4. Cardinality(S) \in Nat /\ Cardinality(S) # 0
    BY <1>2, FS_CardinalityType, FS_EmptySet
  <1>5. Max(S) \in 1..n
    BY <1>1
  <1>6. Cardinality(S) \in 1..n
    BY <1>2, <1>4
  <1> QED BY <1>3, <1>4, <1>5, <1>6

\* A set of the first n numbers is finite, and has at most n elements
LEMMA CardBound ==
  ASSUME NEW n \in Nat, NEW S \in SUBSET (1..n)
  PROVE  Cardinality(S) \in Nat /\ Cardinality(S) <= n /\ (S = {} <=> Cardinality(S) = 0)
  <1>1. CASE S = {}
    BY <1>1, FS_EmptySet
  <1>2. CASE S # {}
    <2>1. Cardinality(S) \in 1..n
      BY <1>2, SmallerSet
    <2>2. Cardinality(S) \in Nat /\ Cardinality(S) <= n /\ Cardinality(S) # 0
      BY <2>1
    <2> QED BY <1>2, <2>2
  <1> QED BY <1>1, <1>2

\* What holds of the empty set and is kept when the greatest element is added
LEMMA FoldTyped ==
  ASSUME NEW n \in Nat, NEW A, NEW it, it[{}] \in A,
         \A S \in SUBSET (1..n) : S # {} /\ it[S \ {Max(S)}] \in A => it[S] \in A
  PROVE  \A S \in SUBSET (1..n) : it[S] \in A
  <1> DEFINE Bad == {S \in SUBSET (1..n) : it[S] \notin A}
             T == {Cardinality(S) : S \in Bad}
  <1> SUFFICES ASSUME Bad # {} PROVE FALSE
    OBVIOUS
  <1>1. \A S \in Bad : S \in SUBSET (1..n) /\ S # {} /\ it[S] \notin A
    OBVIOUS
  <1>2. T # {} /\ T \in SUBSET Nat
    <2>1. ASSUME NEW S \in Bad PROVE Cardinality(S) \in Nat
      <3>1. S \in SUBSET (1..n)
        OBVIOUS
      <3> QED BY <3>1, CardBound
    <2> QED BY <2>1
  <1> HIDE DEF T
  <1>3. PICK m \in T : \A k \in T : m <= k
    BY <1>2, LeastNat
  <1>4. PICK S \in Bad : m = Cardinality(S)
    BY <1>3 DEF T
  <1>5. /\ S \ {Max(S)} \in SUBSET (1..n) /\ Cardinality(S) \in Nat
        /\ Cardinality(S \ {Max(S)}) = Cardinality(S) - 1
    BY <1>1, <1>4, SmallerSet
  <1>6. S \ {Max(S)} \in Bad
    BY <1>1, <1>4, <1>5
  <1>7. Cardinality(S) - 1 \in T
    BY <1>5, <1>6 DEF T
  <1> QED BY <1>3, <1>4, <1>5, <1>7

\* The value of a fold on each set of indices, the greatest taken last
FoldsTo(it, n, A, base, G) ==
  /\ it \in [SUBSET (1..n) -> A]
  /\ \A S \in SUBSET (1..n) : it[S] = IF S = {} THEN base ELSE G[<<Max(S), it[S \ {Max(S)}]>>]

\* A fold from the greatest element down is defined for every set of positions
LEMMA FoldExists ==
  ASSUME NEW n \in Nat, NEW A, NEW base \in A, NEW G \in [(1..n) \X A -> A]
  PROVE  \E it : FoldsTo(it, n, A, base, G)
  <1> DEFINE D(m) == {S \in SUBSET (1..n) : Cardinality(S) <= m}
             E(m) == \E f \in [D(m) -> A] :
                       f = [S \in D(m) |-> IF S = {} THEN base ELSE G[<<Max(S), f[S \ {Max(S)}]>>]]
             T == {m \in Nat : ~E(m)}
  <1>0. D(n) = SUBSET (1..n)
    <2>1. \A S \in SUBSET (1..n) : Cardinality(S) <= n
      BY CardBound
    <2> QED BY <2>1
  <1>1. \A m \in Nat : E(m)
    <2> SUFFICES ASSUME T # {} PROVE FALSE
      OBVIOUS
    <2> HIDE DEF E
    <2>1. PICK m \in T : \A k \in T : m <= k
      BY LeastNat
    <2>2. m \in Nat /\ ~E(m)
      OBVIOUS
    <2>3. CASE m = 0
      <3>1. D(0) = {{}}
        <4>1. ASSUME NEW S \in D(0) PROVE S = {}
          <5>1. S \in SUBSET (1..n) /\ Cardinality(S) <= 0
            OBVIOUS
          <5> QED BY <5>1, CardBound
        <4>2. {} \in D(0)
          BY FS_EmptySet
        <4> QED BY <4>1, <4>2
      <3>2. [S \in D(0) |-> base] \in [D(0) -> A]
        OBVIOUS
      <3>3. E(0)
        BY <3>1, <3>2 DEF E
      <3> QED BY <2>2, <2>3, <3>3
    <2>4. CASE m # 0
      <3> DEFINE p == m - 1
      <3>1. p \in Nat /\ E(p) /\ m = p + 1
        BY <2>1, <2>2, <2>4
      <3> HIDE DEF p
      <3>2. PICK f \in [D(p) -> A] :
              f = [S \in D(p) |-> IF S = {} THEN base ELSE G[<<Max(S), f[S \ {Max(S)}]>>]]
        BY <3>1 DEF E
      <3> DEFINE g == [S \in D(m) |-> IF S = {} THEN base ELSE G[<<Max(S), f[S \ {Max(S)}]>>]]
      <3>3. \A S \in D(m) : S # {} => S \ {Max(S)} \in D(p) /\ Max(S) \in 1..n
        <4>1. ASSUME NEW S \in D(m), S # {} PROVE S \ {Max(S)} \in D(p) /\ Max(S) \in 1..n
          <5>1. S \in SUBSET (1..n) /\ Cardinality(S) <= m
            OBVIOUS
          <5>2. /\ Max(S) \in 1..n /\ S \ {Max(S)} \in SUBSET (1..n)
                /\ Cardinality(S) \in Nat /\ Cardinality(S \ {Max(S)}) = Cardinality(S) - 1
            BY <4>1, <5>1, SmallerSet
          <5>3. Cardinality(S \ {Max(S)}) <= p
            BY <3>1, <5>1, <5>2
          <5> QED BY <5>2, <5>3
        <4> QED BY <4>1
      <3>4. \A S \in D(p) : S \in D(m) /\ g[S] = f[S]
        <4>1. \A S \in D(p) : S \in D(m)
          <5>1. ASSUME NEW S \in D(p) PROVE S \in D(m)
            <6>1. S \in SUBSET (1..n) /\ Cardinality(S) <= p
              OBVIOUS
            <6>2. Cardinality(S) <= m
              BY <3>1, <6>1, CardBound
            <6> QED BY <6>1, <6>2
          <5> QED BY <5>1
        <4> QED BY <3>2, <4>1
      <3>5. g \in [D(m) -> A]
        BY <3>2, <3>3
      <3>6. g = [S \in D(m) |-> IF S = {} THEN base ELSE G[<<Max(S), g[S \ {Max(S)}]>>]]
        <4> SUFFICES ASSUME NEW S \in D(m)
                     PROVE  g[S] = IF S = {} THEN base ELSE G[<<Max(S), g[S \ {Max(S)}]>>]
          OBVIOUS
        <4>1. CASE S = {}
          BY <4>1
        <4>2. CASE S # {}
          <5>1. g[S \ {Max(S)}] = f[S \ {Max(S)}]
            BY <3>3, <3>4, <4>2
          <5> QED BY <4>2, <5>1
        <4> QED BY <4>1, <4>2
      <3> HIDE DEF g
      <3>7. E(m)
        BY <3>5, <3>6 DEF E
      <3> QED BY <2>2, <3>7
    <2> QED BY <2>3, <2>4
  <1>2. E(n)
    BY <1>1
  <1>3. PICK f \in [D(n) -> A] :
          f = [S \in D(n) |-> IF S = {} THEN base ELSE G[<<Max(S), f[S \ {Max(S)}]>>]]
    BY <1>2
  <1>4. \A S \in D(n) : f[S] = IF S = {} THEN base ELSE G[<<Max(S), f[S \ {Max(S)}]>>]
    BY <1>3
  <1> HIDE DEF D
  <1> QED BY <1>0, <1>4 DEF FoldsTo

-----------------------------------------------------------------------------
(***************************************************************************)
(* Writing.                                                                *)
(***************************************************************************)

IsRec(f, D) == f = [k \in D |-> f[k]]

CallFields == {"pc", "entity", "expected", "named", "bundle"}
HeldFields == CallFields \cup {"staged", "previous", "image", "then"}
RolloutFields == {"phase", "checkpoint", "scan", "todo", "undone", "before", "complete"}

RecordOK(e, r) ==
  /\ r \in StoreRecord /\ BundleOK(e, r.edges)
  /\ r.index = None \/ Projected(r)

StoreOK ==
  /\ IsFiniteSet(DOMAIN store) /\ DOMAIN store \subseteq RecordIds
  /\ \A i \in DOMAIN store : RecordOK(i[1], store[i])

\* What a caller read of the version it replaces: it left out only what it named
ReadOK(c) ==
  /\ c.entity \in Entities /\ BundleOK(c.entity, c.bundle)
  /\ \/ c.expected = None
     \/ /\ c.expected \in DOMAIN store
        /\ \A x \in store[c.expected].edges : x \notin c.bundle => RelationId(c.entity, x) \in c.named

\* The two shapes of a call: before it has a staged version in its hands, and then
CallOK(w) ==
  LET c == writer[w] IN
  \/ c = Idle
  \/ IsRec(c, CallFields) /\ c.pc \in {"admit", "enter", "stage"} /\ ReadOK(c)
  \/ /\ IsRec(c, HeldFields) /\ c.pc \in {"supersede", "activate"} /\ ReadOK(c)
     /\ c.then \in {"enter", "done"} /\ RecordOK(c.entity, c.image)

Holding(w) == writer[w].pc \in {"stage", "supersede", "activate"}

LocksOK ==
  /\ \A e \in Entities : lock[e] \in Writers \cup {None}
  /\ \A w \in Writers : Holding(w) => lock[writer[w].entity] = w

\* A write changes reviewed assertions only if it may
AllowedOK(w) ==
  LET c == writer[w] IN
  /\ c.image.edges = c.bundle /\ c.expected \in {None, c.previous}
  /\ \/ w \in Reviewers \/ c.bundle = store[c.previous].edges
     \/ \A x \in store[c.previous].edges : x.status = "proposed"

\* What the holder of an entity's lock knows of its versions
KnowsOK(w) ==
  LET c == writer[w] IN
  /\ c.pc = "stage" => \A i \in DOMAIN store : i[1] = c.entity => store[i].status # "deprecated"
  /\ c.pc \in {"supersede", "activate"} =>
       /\ c.staged \in DOMAIN store /\ c.staged[1] = c.entity
       /\ store[c.staged].status = "deprecated"
       /\ c.previous = store[c.staged].previous /\ c.image.edges = store[c.staged].edges
       /\ c.then = "done" => AllowedOK(w)
  /\ c.pc = "supersede" => store[c.previous].status = "active"
  /\ c.pc = "activate" => \A i \in DOMAIN store : i[1] = c.entity => store[i].status # "active"

TypeInv ==
  /\ StoreOK /\ DOMAIN writer = Writers /\ DOMAIN lock = Entities /\ clock \in Nat
  /\ \A w \in Writers : CallOK(w)

LineInv == LocksOK /\ OneLine(store) /\ \A w \in Writers : KnowsOK(w)

\* What the rollout scanned against what the store holds now
ScanOK(i) ==
  LET old == rollout.scan[i] IN
  /\ i \in DOMAIN store /\ RecordOK(i[1], old)
  /\ old.edges = store[i].edges /\ old.previous = store[i].previous
  /\ old.updated <= store[i].updated
  /\ store[i].evo = "pending" => old.evo = "pending"
  /\ old.evo = "pending" /\ store[i].evo # "pending" => old.updated < store[i].updated
  /\ i \in rollout.undone \ rollout.before => old.updated < store[i].updated

RolloutOK ==
  /\ IsRec(rollout, RolloutFields)
  /\ rollout.before \subseteq rollout.undone
  /\ rollout.phase = "write" =>
       /\ rollout.todo \subseteq DOMAIN rollout.scan
       /\ rollout.undone \ rollout.before \subseteq DOMAIN rollout.scan
       /\ \A i \in DOMAIN rollout.scan : ScanOK(i)
  /\ rollout.phase = "applied" => rollout.undone = rollout.before
  /\ rollout.complete =>
       /\ \A i \in DOMAIN store : Projected(store[i])
       /\ \A w \in Writers : writer[w].pc \in {"supersede", "activate"} => Projected(writer[w].image)

RelInv == TypeInv /\ LineInv /\ RolloutOK

\* No step takes a version away, changes its assertions or makes it a staged one, and
\* the one that commits it touches it
Grows == \A i \in DOMAIN store :
  /\ i \in DOMAIN store'
  /\ store'[i].edges = store[i].edges /\ store'[i].previous = store[i].previous
  /\ store[i].updated <= store'[i].updated
  /\ store'[i].status = "deprecated" => store[i].status = "deprecated"
  /\ store[i].evo = "pending" /\ store'[i].evo # "pending" => store[i].updated < store'[i].updated

\* The versions of the entity a writer holds are as they were
Calm(w) == Holding(w) =>
  \A i \in DOMAIN store' : i[1] = writer[w].entity =>
    i \in DOMAIN store /\ store'[i].status = store[i].status

-----------------------------------------------------------------------------
(* What a recall has in its hands.                                         *)

RecallFields == {"pc", "req", "at", "seeds", "used", "level", "frontier", "paths", "nodes", "edges",
                 "reasons", "claims", "known", "basis", "start"}

Reasons == {"nodes", "edges", "paths", "depth", "storage_calls", "candidate_capacity",
            "revalidation", "context_tokens"}

RelationIds == (Kinds \X (SUBSET Entities)) \cup (Kinds \X (Entities \X Entities))

Anchor(x) == <<x.target, x.anchor>>

Steps(D) == [owner : D, edge : Edges, dir : {"out", "in"}]

\* A path over the records D from a seed: both records of a step are on it
PathSet(D, seeds) ==
  {p \in [nodes : Seq(Entities), recs : Seq(D), steps : Seq(Steps(D))] :
     /\ p.nodes # <<>> /\ p.recs # <<>> /\ p.recs[1] \in seeds /\ Last(p.nodes) = Last(p.recs)[1]
     /\ \A n \in DOMAIN p.steps :
          p.steps[n].owner \in ToSet(p.recs) /\ Anchor(p.steps[n].edge) \in ToSet(p.recs)}

Recalling(r) ==
  /\ IsRec(r, RecallFields) /\ r.req \in DOMAIN Requests /\ r.at \in Nat
  /\ r.used \in Nat /\ r.used <= Policy(r.req).calls
  /\ r.seeds = Requests[r.req].seeds
  /\ r.nodes \in SUBSET Entities /\ r.edges \in SUBSET RelationIds /\ r.reasons \in SUBSET Reasons
  /\ r.frontier \in Seq(PathSet(DOMAIN store, r.seeds)) /\ r.paths \in Seq(PathSet(DOMAIN store, r.seeds))
  /\ IsFiniteSet(r.claims) /\ r.claims \in SUBSET ((DOMAIN store) \X Edges)
  /\ r.pc # "idle"
  /\ r.pc = "proofs" => DOMAIN r.known \subseteq DOMAIN store

\* The records read to hydrate its paths, and the store they were read from
Hydrated(r) ==
  /\ OneLine(r.basis) /\ DOMAIN r.basis \subseteq RecordIds
  /\ r.paths \in Seq(PathSet(DOMAIN r.basis, r.seeds))
  /\ r.known = [i \in AllRefs(r.paths) \ Episodes |-> r.basis[i]]

RecallOK ==
  /\ recall = Idle \/ Recalling(recall)
  /\ recall.pc = "hydrate_episodes" => Hydrated(recall)

AnswerOK ==
  /\ answer.kind = "paths" => answer.used <= Policy(answer.req).calls
  /\ PathsHeld /\ DreamWholePaths

-----------------------------------------------------------------------------
(* A writer that does nothing itself.                                      *)

\* A call keeps its shape while the store grows
LEMMA CallKept ==
  ASSUME NEW w, CallOK(w), Grows, writer'[w] = writer[w]
  PROVE  CallOK(w)'
  <1> DEFINE c == writer[w]
  <1>1. ReadOK(c) => ReadOK(c)'
    BY DEF ReadOK, Grows
  <1> QED BY <1>1 DEF CallOK, ReadOK

\* What a lock holder knows lasts while nobody else writes its entity
LEMMA KnowsKept ==
  ASSUME NEW w, KnowsOK(w), OneLine(store), Grows, Calm(w), writer'[w] = writer[w]
  PROVE  KnowsOK(w)'
  <1> DEFINE c == writer[w]
  <1>0. c' = c
    OBVIOUS
  <1>1. CASE c.pc = "stage"
    <2>1. \A i \in DOMAIN store' : i[1] = c.entity => store'[i].status # "deprecated"
      BY <1>1 DEF KnowsOK, Calm, Holding
    <2> QED BY <2>1, <1>1 DEF KnowsOK
  <1>2. CASE c.pc \in {"supersede", "activate"}
    <2>1. c.staged \in DOMAIN store /\ c.staged[1] = c.entity /\ store[c.staged].status = "deprecated"
      BY <1>2 DEF KnowsOK
    <2>2. c.previous \in DOMAIN store /\ c.previous[1] = c.entity
      BY <1>2, <2>1 DEF KnowsOK, OneLine
    <2>3. /\ c.staged \in DOMAIN store' /\ store'[c.staged].status = "deprecated"
          /\ store'[c.staged].edges = store[c.staged].edges
          /\ store'[c.staged].previous = store[c.staged].previous
          /\ c.previous \in DOMAIN store' /\ store'[c.previous].edges = store[c.previous].edges
          /\ store'[c.previous].status = store[c.previous].status
      BY <1>2, <2>1, <2>2 DEF Grows, Calm, Holding
    <2>4. c.then = "done" => AllowedOK(w)'
      BY <1>2, <2>3 DEF KnowsOK, AllowedOK
    <2>5. c.pc = "activate" =>
            \A i \in DOMAIN store' : i[1] = c.entity => store'[i].status # "active"
      BY <1>2 DEF KnowsOK, Calm, Holding
    <2> QED BY <1>2, <2>1, <2>3, <2>4, <2>5 DEF KnowsOK
  <1>3. CASE c.pc \notin {"stage", "supersede", "activate"}
    BY <1>3 DEF KnowsOK
  <1> QED BY <1>1, <1>2, <1>3

\* What a rollout scanned of a record stays good while the store grows
LEMMA ScanKept ==
  ASSUME NEW i, ScanOK(i), Grows, StoreOK, StoreOK', UNCHANGED rollout,
         store'[i].evo = "pending" => store[i].evo = "pending"
  PROVE  ScanOK(i)'
  <1>1. /\ i \in DOMAIN store /\ i \in DOMAIN store'
        /\ store[i].updated \in Nat /\ store'[i].updated \in Nat /\ rollout.scan[i].updated \in Nat
    BY DEF ScanOK, Grows, StoreOK, RecordOK, StoreRecord
  <1> QED BY <1>1 DEF ScanOK, Grows

\* The store and the rollout are as they were, and one writer changed its call
LEMMA QuietStep ==
  ASSUME RelInv, NEW w \in Writers, NEW c, UNCHANGED <<store, clock, rollout>>,
         writer' = [writer EXCEPT ![w] = c], CallOK(w)', KnowsOK(w)',
         DOMAIN lock' = Entities, LocksOK',
         rollout.complete /\ c.pc \in {"supersede", "activate"} => Projected(c.image)
  PROVE  RelInv' /\ Grows
  <1>1. /\ DOMAIN writer' = Writers /\ writer'[w] = c
        /\ \A v \in Writers \ {w} : writer'[v] = writer[v]
    BY DEF RelInv, TypeInv
  <1>2. Grows
    BY DEF Grows, RelInv, TypeInv, StoreOK, RecordOK, StoreRecord
  <1>3. \A v \in Writers : Calm(v)
    BY DEF Calm
  <1>4. \A v \in Writers : CallOK(v)'
    <2>1. ASSUME NEW v \in Writers \ {w} PROVE CallOK(v)'
      BY <1>1, <1>2, CallKept DEF RelInv, TypeInv
    <2> QED BY <2>1
  <1>5. \A v \in Writers : KnowsOK(v)'
    <2>1. ASSUME NEW v \in Writers \ {w} PROVE KnowsOK(v)'
      BY <1>1, <1>2, <1>3, KnowsKept DEF RelInv, LineInv
    <2> QED BY <2>1
  <1>6. TypeInv'
    BY <1>1, <1>4 DEF RelInv, TypeInv, StoreOK
  <1>7. LineInv'
    BY <1>5 DEF RelInv, LineInv, OneLine
  <1>8. RolloutOK'
    <2>1. \A v \in Writers : rollout.complete /\ writer'[v].pc \in {"supersede", "activate"}
            => Projected(writer'[v].image)
      BY <1>1 DEF RelInv, RolloutOK
    <2>2. \A i : ScanOK(i) => ScanOK(i)'
      BY DEF ScanOK
    <2> QED BY <2>1, <2>2 DEF RelInv, RolloutOK
  <1> QED BY <1>2, <1>6, <1>7, <1>8 DEF RelInv

\* A proposal is a well-formed set of assertions
LEMMA ProposedOK ==
  ASSUME NEW e \in Entities, NEW x \in Assertions[e]
  PROVE  Proposed(x) \in Edges /\ Proposed(x).target # e
  <1>1. x \in [kind : {"causes", "contradicts"}, target : Entities \ {e}, anchor : Nat,
               proof : Episodes \cup (Entities \X Nat), until : Nat \cup {None}]
    BY RelationAssumption
  <1> QED BY <1>1 DEF Proposed, Edges, Kinds, Statuses

\* The writers, one lemma for each action
LEMMA ProposeReadKeeps ==
  ASSUME RelInv, NEW w \in Writers, NEW i \in DOMAIN store, NEW a \in Assertions[i[1]],
         ProposeRead(w, i, Proposed(a))
  PROVE  RelInv' /\ Grows
  <1> DEFINE x == Proposed(a)
             c == [pc |-> "admit", entity |-> i[1], expected |-> i, named |-> {RelationId(i[1], x)},
                   bundle |-> store[i].edges \cup {x}]
  <1>1. UNCHANGED <<store, clock, rollout, lock>> /\ writer' = [writer EXCEPT ![w] = c]
    BY DEF ProposeRead
  <1>2. i[1] \in Entities /\ BundleOK(i[1], store[i].edges)
    BY DEF RelInv, TypeInv, StoreOK, RecordIds, RecordOK
  <1>3. x \in Edges /\ x.target # i[1]
    BY <1>2, ProposedOK
  <1>4. BundleOK(i[1], c.bundle)
    <2>1. IsFiniteSet(c.bundle)
      BY <1>2, FS_AddElement DEF BundleOK
    <2>2. \A y \in store[i].edges : RelationId(i[1], y) = RelationId(i[1], x) => y = x
      BY DEF ProposeRead, NotReplacing
    <2> QED BY <1>2, <1>3, <2>1, <2>2 DEF BundleOK
  <1>5. writer'[w] = c
    BY <1>1 DEF RelInv, TypeInv
  <1>6. CallOK(w)' /\ KnowsOK(w)'
    <2>0. /\ c.entity = i[1] /\ c.expected = i /\ c.named = {RelationId(i[1], x)} /\ c.bundle = store[i].edges \cup {x}
          /\ \A z \in store[i].edges : z \notin c.bundle => RelationId(i[1], z) \in c.named
      OBVIOUS
    <2>1. ReadOK(writer[w])'
      <3> HIDE DEF c
      <3>1. store' = store /\ writer'[w] = c
        BY <1>1, <1>5
      <3> QED BY <1>2, <1>4, <2>0, <3>1 DEF ReadOK
    <2>2. IsRec(c, CallFields) /\ c.pc = "admit"
      BY DEF IsRec, CallFields
    <2>3. IsRec(writer[w], CallFields)' /\ writer'[w].pc = "admit"
      BY <1>5, <2>2 DEF IsRec, CallFields
    <2> QED BY <2>1, <2>3 DEF CallOK, KnowsOK
  <1>7. LocksOK'
    BY <1>1, <1>5 DEF RelInv, TypeInv, LineInv, LocksOK, Holding
  <1>8. c.pc = "admit" /\ DOMAIN lock' = Entities
    BY <1>1 DEF RelInv, TypeInv
  <1> HIDE DEF c
  <1> QED BY <1>1, <1>6, <1>7, <1>8, QuietStep

LEMMA ReviewReadKeeps ==
  ASSUME RelInv, NEW w \in Writers, NEW i \in DOMAIN store, NEW x \in store[i].edges,
         NEW status \in {"accepted", "rejected"}, ReviewRead(w, i, x, status)
  PROVE  RelInv' /\ Grows
  <1> DEFINE y == [x EXCEPT !.status = status]
             c == [pc |-> "admit", entity |-> i[1], expected |-> i, named |-> {RelationId(i[1], x)},
                   bundle |-> (store[i].edges \ {x}) \cup {y}]
  <1>1. UNCHANGED <<store, clock, rollout, lock>> /\ writer' = [writer EXCEPT ![w] = c]
    BY DEF ReviewRead
  <1>2. i[1] \in Entities /\ BundleOK(i[1], store[i].edges)
    BY DEF RelInv, TypeInv, StoreOK, RecordIds, RecordOK
  <1>3. x \in Edges /\ x.target # i[1]
    BY <1>2 DEF BundleOK
  <1>3a. y \in Edges /\ y.target # i[1] /\ y.kind = x.kind /\ y.target = x.target
    BY <1>3 DEF Edges, Statuses
  <1>3b. RelationId(i[1], y) = RelationId(i[1], x)
    BY <1>3a DEF RelationId
  <1>4. BundleOK(i[1], c.bundle)
    <2>1. IsFiniteSet(store[i].edges \ {x})
      BY <1>2, FS_Subset DEF BundleOK
    <2>2. IsFiniteSet(c.bundle)
      BY <2>1, FS_AddElement
    <2>3. \A z \in store[i].edges \ {x} : RelationId(i[1], z) # RelationId(i[1], y)
      BY <1>2, <1>3b DEF BundleOK
    <2> HIDE DEF y
    <2> QED BY <1>2, <1>3a, <2>2, <2>3 DEF BundleOK
  <1>5. writer'[w] = c
    BY <1>1 DEF RelInv, TypeInv
  <1>6. CallOK(w)' /\ KnowsOK(w)'
    <2>0. /\ c.entity = i[1] /\ c.expected = i /\ c.named = {RelationId(i[1], x)} /\ c.bundle = (store[i].edges \ {x}) \cup {y}
          /\ \A z \in store[i].edges : z \notin c.bundle => RelationId(i[1], z) \in c.named
      OBVIOUS
    <2>1. ReadOK(writer[w])'
      <3> HIDE DEF c
      <3>1. store' = store /\ writer'[w] = c
        BY <1>1, <1>5
      <3> QED BY <1>2, <1>4, <2>0, <3>1 DEF ReadOK
    <2>2. IsRec(c, CallFields) /\ c.pc = "admit"
      BY DEF IsRec, CallFields
    <2>3. IsRec(writer[w], CallFields)' /\ writer'[w].pc = "admit"
      BY <1>5, <2>2 DEF IsRec, CallFields
    <2> QED BY <2>1, <2>3 DEF CallOK, KnowsOK
  <1>7. LocksOK'
    BY <1>1, <1>5 DEF RelInv, TypeInv, LineInv, LocksOK, Holding
  <1>8. c.pc = "admit" /\ DOMAIN lock' = Entities
    BY <1>1 DEF RelInv, TypeInv
  <1> HIDE DEF c
  <1> QED BY <1>1, <1>6, <1>7, <1>8, QuietStep

LEMMA ContentStoreKeeps ==
  ASSUME RelInv, NEW w \in Writers, NEW e \in Entities, ContentStore(w, e)
  PROVE  RelInv' /\ Grows
  <1> DEFINE c == [pc |-> "enter", entity |-> e, expected |-> None, named |-> {}, bundle |-> {}]
  <1>1. UNCHANGED <<store, clock, rollout, lock>> /\ writer' = [writer EXCEPT ![w] = c]
    BY DEF ContentStore
  <1>2. BundleOK(e, {})
    BY FS_EmptySet DEF BundleOK
  <1>3. writer'[w] = c
    BY <1>1 DEF RelInv, TypeInv
  <1>4. CallOK(w)' /\ KnowsOK(w)'
    <2>1. ReadOK(writer[w])'
      BY <1>2, <1>3 DEF ReadOK
    <2>2. IsRec(c, CallFields) /\ c.pc = "enter"
      BY DEF IsRec, CallFields
    <2>3. IsRec(writer[w], CallFields)' /\ writer'[w].pc = "enter"
      BY <1>3, <2>2 DEF IsRec, CallFields
    <2> QED BY <2>1, <2>3 DEF CallOK, KnowsOK
  <1>5. LocksOK'
    BY <1>1, <1>3 DEF RelInv, TypeInv, LineInv, LocksOK, Holding
  <1>6. c.pc = "enter" /\ DOMAIN lock' = Entities
    BY <1>1 DEF RelInv, TypeInv
  <1> HIDE DEF c
  <1> QED BY <1>1, <1>4, <1>5, <1>6, QuietStep

\* A call that goes on, or one that ends
LEMMA CallFacts ==
  ASSUME NEW c, NEW pc
  PROVE  LET d == Call(c, pc) IN
    /\ IsRec(d, CallFields) /\ d.pc = pc /\ d.entity = c.entity /\ d.expected = c.expected
    /\ d.named = c.named /\ d.bundle = c.bundle
  BY DEF Call, IsRec, CallFields

LEMMA CompletingFacts ==
  ASSUME NEW c, NEW pc, NEW staged, NEW record, NEW then
  PROVE  LET d == Completing(c, pc, staged, record, then) IN
    /\ IsRec(d, HeldFields) /\ d.pc = pc /\ d.entity = c.entity /\ d.expected = c.expected
    /\ d.named = c.named /\ d.bundle = c.bundle
    /\ d.staged = staged /\ d.previous = record.previous /\ d.image = record /\ d.then = then
  BY DEF Completing, IsRec, CallFields, HeldFields

LEMMA IdleFacts == Idle.pc = "idle"
  BY DEF Idle

\* The calls that have read what they replace
LEMMA CallHasRead ==
  ASSUME NEW w, CallOK(w), writer[w].pc # "idle"
  PROVE  ReadOK(writer[w])
  BY IdleFacts DEF CallOK

LEMMA IdleCall ==
  ASSUME NEW w, writer'[w] = Idle
  PROVE  CallOK(w)' /\ KnowsOK(w)'
  BY IdleFacts DEF CallOK, KnowsOK

LEMMA AdmitKeeps ==
  ASSUME RelInv, NEW w \in Writers, Admit(w)
  PROVE  RelInv' /\ Grows
  <1>1. /\ writer[w].pc = "admit" /\ UNCHANGED <<store, clock, rollout, lock>>
        /\ \/ writer' = [writer EXCEPT ![w] = Call(writer[w], "enter")]
           \/ writer' = [writer EXCEPT ![w] = Idle]
    BY DEF Admit
  <1>2. ReadOK(writer[w])
    BY <1>1, CallHasRead DEF RelInv, TypeInv
  <1>3. DOMAIN lock' = Entities
    BY <1>1 DEF RelInv, TypeInv
  <1>4. CASE writer' = [writer EXCEPT ![w] = Call(writer[w], "enter")]
    <2> DEFINE c == Call(writer[w], "enter")
    <2>1. writer'[w] = c
      BY <1>4 DEF RelInv, TypeInv
    <2>2. /\ IsRec(c, CallFields) /\ c.pc = "enter" /\ c.entity = writer[w].entity
          /\ c.expected = writer[w].expected /\ c.named = writer[w].named
          /\ c.bundle = writer[w].bundle
      BY CallFacts
    <2> HIDE DEF c
    <2>3. ReadOK(writer[w])'
      BY <1>1, <1>2, <2>1, <2>2 DEF ReadOK
    <2>4. CallOK(w)' /\ KnowsOK(w)'
      BY <2>1, <2>2, <2>3 DEF CallOK, KnowsOK, IsRec
    <2>5. LocksOK'
      BY <1>1, <1>4, <2>1, <2>2 DEF RelInv, TypeInv, LineInv, LocksOK, Holding
    <2>6. writer' = [writer EXCEPT ![w] = c]
      BY <1>4 DEF c
    <2> QED BY <1>1, <1>3, <2>2, <2>4, <2>5, <2>6, QuietStep
  <1>5. CASE writer' = [writer EXCEPT ![w] = Idle]
    <2>1. writer'[w] = Idle
      BY <1>5 DEF RelInv, TypeInv
    <2>2. LocksOK'
      BY <1>1, <1>5, <2>1, IdleFacts DEF RelInv, TypeInv, LineInv, LocksOK, Holding
    <2>3. CallOK(w)' /\ KnowsOK(w)'
      BY <2>1, IdleCall
    <2> HIDE DEF Idle
    <2> QED BY <1>1, <1>3, <1>5, <2>2, <2>3, IdleFacts, QuietStep
  <1> QED BY <1>1, <1>4, <1>5

\* Whoever leaves releases the lock it holds
LEMMA LeavesKeeps ==
  ASSUME RelInv, NEW w \in Writers, UNCHANGED <<store, clock, rollout>>,
         writer' = [writer EXCEPT ![w] = Idle], DOMAIN lock' = Entities,
         \A e \in Entities : lock'[e] = lock[e] \/ (lock'[e] = None /\ lock[e] \in {w, None})
  PROVE  RelInv' /\ Grows
  <1>1. writer'[w] = Idle
    BY DEF RelInv, TypeInv
  <1>2. LocksOK'
    <2>1. ASSUME NEW v \in Writers, Holding(v)' PROVE lock'[writer'[v].entity] = v
      <3>1. v # w /\ writer'[v] = writer[v]
        BY <1>1, <2>1, IdleFacts DEF RelInv, TypeInv, Holding
      <3>2. lock[writer[v].entity] = v
        BY <2>1, <3>1 DEF RelInv, LineInv, LocksOK, Holding
      <3>3. writer[v].entity \in Entities
        BY <2>1, <3>1, CallHasRead DEF RelInv, TypeInv, Holding, ReadOK
      <3> QED BY <3>1, <3>2, <3>3, RelationAssumption
    <2> QED BY <2>1 DEF RelInv, TypeInv, LineInv, LocksOK
  <1>3. CallOK(w)' /\ KnowsOK(w)'
    BY <1>1, IdleCall
  <1> HIDE DEF Idle
  <1> QED BY <1>2, <1>3, IdleFacts, QuietStep

LEMMA CrashKeeps ==
  ASSUME RelInv, NEW w \in Writers, Crash(w)
  PROVE  RelInv' /\ Grows
  <1>1. /\ UNCHANGED <<store, clock, rollout>> /\ writer' = [writer EXCEPT ![w] = Idle]
        /\ lock' = [e \in Entities |-> IF lock[e] = w THEN None ELSE lock[e]]
    BY DEF Crash
  <1> HIDE DEF Idle
  <1>2. lock' = [e \in Entities |-> IF lock[e] = w THEN None ELSE lock[e]]
    BY <1>1
  <1>2a. DOMAIN lock' = Entities
    BY <1>2
  <1>3. \A e \in Entities : lock'[e] = lock[e] \/ (lock'[e] = None /\ lock[e] \in {w, None})
    <2>1. ASSUME NEW e \in Entities PROVE lock'[e] = IF lock[e] = w THEN None ELSE lock[e]
      BY <1>2
    <2> QED BY <2>1
  <1> QED BY <1>1, <1>2a, <1>3, LeavesKeeps

LEMMA EnterKeeps ==
  ASSUME RelInv, NEW w \in Writers, Enter(w)
  PROVE  RelInv' /\ Grows
  <1> DEFINE e == writer[w].entity
             c == writer'[w]
  <1>1. /\ writer[w].pc = "enter" /\ lock[e] \in {None, w} /\ UNCHANGED <<store, clock, rollout>>
        /\ lock' = [lock EXCEPT ![e] = w]
    BY DEF Enter
  <1>2. ReadOK(writer[w]) /\ e \in Entities
    BY <1>1, CallHasRead DEF RelInv, TypeInv, ReadOK
  <1>3. DOMAIN lock' = Entities /\ lock'[e] = w /\ \A f \in Entities \ {e} : lock'[f] = lock[f]
    BY <1>1, <1>2 DEF RelInv, TypeInv
  <1>4. ASSUME NEW d, writer' = [writer EXCEPT ![w] = d], d.entity = e
        PROVE  LocksOK'
    <2>1. writer'[w] = d /\ \A v \in Writers \ {w} : writer'[v] = writer[v]
      BY <1>4 DEF RelInv, TypeInv
    <2>2. ASSUME NEW v \in Writers, Holding(v)' PROVE lock'[writer'[v].entity] = v
      <3>1. CASE v = w
        BY <1>3, <1>4, <2>1, <3>1
      <3>2. CASE v # w
        <4>1. Holding(v) /\ writer'[v] = writer[v]
          BY <2>1, <2>2, <3>2 DEF Holding
        <4>2. lock[writer[v].entity] = v
          BY <4>1 DEF RelInv, LineInv, LocksOK
        <4>3. writer[v].entity \in Entities
          BY <4>1, CallHasRead DEF RelInv, TypeInv, Holding, ReadOK
        <4>4. writer[v].entity # e
          BY <1>1, <3>2, <4>2, RelationAssumption
        <4> QED BY <1>3, <4>1, <4>2, <4>3, <4>4
      <3> QED BY <3>1, <3>2
    <2>3. \A f \in Entities : lock'[f] \in Writers \cup {None}
      BY <1>3 DEF RelInv, LineInv, LocksOK
    <2> QED BY <2>2, <2>3 DEF LocksOK
  <1>5. CASE PendingOf(store, e) = {}
    <2> DEFINE d == Call(writer[w], "stage")
    <2>1. writer' = [writer EXCEPT ![w] = d]
      BY <1>5 DEF Enter
    <2>2. writer'[w] = d
      BY <2>1 DEF RelInv, TypeInv
    <2>3. /\ IsRec(d, CallFields) /\ d.pc = "stage" /\ d.entity = e
          /\ d.expected = writer[w].expected /\ d.named = writer[w].named
          /\ d.bundle = writer[w].bundle
      BY CallFacts
    <2> HIDE DEF d
    <2>4. CallOK(w)'
      <3>1. ReadOK(writer[w])'
        BY <1>1, <1>2, <2>2, <2>3 DEF ReadOK
      <3> QED BY <2>2, <2>3, <3>1 DEF CallOK, IsRec
    <2>5. KnowsOK(w)'
      <3>1. \A i \in DOMAIN store : i[1] = e => store[i].status # "deprecated"
        BY <1>5 DEF PendingOf, RelInv, LineInv, OneLine
      <3> QED BY <1>1, <2>2, <2>3, <3>1 DEF KnowsOK
    <2> QED BY <1>1, <1>3, <1>4, <2>1, <2>3, <2>4, <2>5, QuietStep
  <1>6. CASE PendingOf(store, e) # {}
    <2> DEFINE s == CHOOSE i \in PendingOf(store, e) : TRUE
               pc == IF store[store[s].previous].status = "active" THEN "supersede" ELSE "activate"
               d == Completing(writer[w], pc, s, store[s], "enter")
    <2>1. writer' = [writer EXCEPT ![w] = d]
      BY <1>6 DEF Enter
    <2>4. s \in DOMAIN store /\ s[1] = e /\ store[s].status = "deprecated"
      BY <1>6 DEF PendingOf
    <2>5. pc \in {"supersede", "activate"} /\ (pc = "supersede" <=> store[store[s].previous].status = "active")
      OBVIOUS
    <2> HIDE DEF s, pc
    <2>3. /\ IsRec(d, HeldFields) /\ d.pc = pc /\ d.entity = e
          /\ d.expected = writer[w].expected /\ d.named = writer[w].named
          /\ d.bundle = writer[w].bundle /\ d.staged = s /\ d.previous = store[s].previous
          /\ d.image = store[s] /\ d.then = "enter"
      BY CompletingFacts
    <2>2. writer'[w] = d
      BY <2>1 DEF RelInv, TypeInv
    <2> HIDE DEF d
    <2>6. CallOK(w)'
      <3>1. ReadOK(writer[w])'
        BY <1>1, <1>2, <2>2, <2>3 DEF ReadOK
      <3>2. RecordOK(e, store[s])
        BY <2>4 DEF RelInv, TypeInv, StoreOK
      <3> QED BY <2>2, <2>3, <2>5, <3>1, <3>2 DEF CallOK, IsRec
    <2>7. KnowsOK(w)'
      <3>1. pc = "activate" => \A i \in DOMAIN store : i[1] = e => store[i].status # "active"
        BY <2>4, <2>5 DEF RelInv, LineInv, OneLine
      <3> QED BY <1>1, <2>2, <2>3, <2>4, <2>5, <3>1 DEF KnowsOK
    <2>8. rollout.complete => Projected(d.image)
      BY <2>3, <2>4 DEF RelInv, RolloutOK
    <2> QED BY <1>1, <1>3, <1>4, <2>1, <2>3, <2>6, <2>7, <2>8, QuietStep
  <1> QED BY <1>5, <1>6

-----------------------------------------------------------------------------
(* Steps that write the store.                                             *)

\* A writer leaves what the rollout has established in place
LEMMA RolloutKept ==
  ASSUME RelInv, UNCHANGED rollout, Grows, StoreOK',
         \A i \in DOMAIN store : store'[i].evo = "pending" => store[i].evo = "pending",
         rollout.complete =>
           /\ \A i \in DOMAIN store' : Projected(store'[i])
           /\ \A w \in Writers : writer'[w].pc \in {"supersede", "activate"} => Projected(writer'[w].image)
  PROVE  RolloutOK'
  <1>1. ASSUME NEW i \in DOMAIN rollout.scan, rollout.phase = "write" PROVE ScanOK(i)'
    <2>1. ScanOK(i) /\ i \in DOMAIN store
      BY <1>1 DEF RelInv, RolloutOK, ScanOK
    <2> QED BY <2>1, ScanKept DEF RelInv, TypeInv
  <1>2. rollout' = rollout
    OBVIOUS
  <1> QED BY <1>1, <1>2 DEF RelInv, RolloutOK

\* Every writer stays as it is and its entity calm, or has a new call
LEMMA StoreStep ==
  ASSUME RelInv, Grows, StoreOK', OneLine(store)', clock' \in Nat,
         DOMAIN writer' = Writers, DOMAIN lock' = Entities, LocksOK', RolloutOK',
         \A v \in Writers : \/ writer'[v] = writer[v] /\ Calm(v)
                            \/ CallOK(v)' /\ KnowsOK(v)'
  PROVE  RelInv' /\ Grows
  <1>1. ASSUME NEW v \in Writers PROVE CallOK(v)' /\ KnowsOK(v)'
    <2>1. CallOK(v) /\ KnowsOK(v) /\ OneLine(store)
      BY DEF RelInv, TypeInv, LineInv
    <2>2. CASE writer'[v] = writer[v] /\ Calm(v)
      BY <2>1, <2>2, CallKept, KnowsKept
    <2> QED BY <2>2
  <1>2. TypeInv'
    BY <1>1 DEF TypeInv
  <1>3. LineInv'
    BY <1>1 DEF LineInv
  <1> QED BY <1>2, <1>3 DEF RelInv

\* Another holder holds another entity
LEMMA OtherHolder ==
  ASSUME RelInv, NEW w \in Writers, NEW v \in Writers \ {w}, Holding(w), Holding(v)
  PROVE  writer[v].entity # writer[w].entity
  BY DEF RelInv, LineInv, LocksOK

\* The records the steps write
LEMMA SwitchedFacts ==
  ASSUME NEW r \in StoreRecord
  PROVE  LET s == Switched(r) IN
    /\ s \in StoreRecord /\ s.status = r.status /\ s.evo = r.evo /\ s.edges = r.edges
    /\ s.previous = r.previous /\ s.index = r.index /\ s.updated = r.updated + 1
  <1>1. r.updated + 1 \in Nat
    BY DEF StoreRecord
  <1>2. (~r.ordinary) \in BOOLEAN
    OBVIOUS
  <1> QED BY <1>1, <1>2, Zenon DEF Switched, StoreRecord

LEMMA SupersededFacts ==
  ASSUME NEW r \in StoreRecord
  PROVE  LET s == Superseded(r) IN
    /\ s \in StoreRecord /\ s.status = "superseded" /\ s.evo = r.evo /\ s.edges = r.edges
    /\ s.previous = r.previous /\ s.index = r.index /\ s.updated = r.updated + 1
  <1>1. r.updated + 1 \in Nat
    BY DEF StoreRecord
  <1> QED BY <1>1, Zenon DEF Superseded, StoreRecord

LEMMA ActivatedFacts ==
  ASSUME NEW r \in StoreRecord, NEW image \in StoreRecord
  PROVE  LET s == Activated(r, image) IN
    /\ s \in StoreRecord /\ s.status = "active" /\ s.evo = "committed" /\ s.edges = image.edges
    /\ s.previous = r.previous /\ s.index = image.index /\ s.updated = r.updated + 1
  <1>1. r.updated + 1 \in Nat
    BY DEF StoreRecord
  <1> QED BY <1>1, Zenon DEF Activated, StoreRecord

LEMMA RewrittenFacts ==
  ASSUME NEW r \in StoreRecord, NEW old \in StoreRecord
  PROVE  LET s == Rewritten(r, old) IN
    /\ s \in StoreRecord /\ s.status = r.status /\ s.evo = old.evo /\ s.edges = old.edges
    /\ s.previous = old.previous /\ s.index = Project(old.edges) /\ s.updated = r.updated
  <1>1. Project(old.edges) \in [targets : SUBSET Entities, digest : SUBSET Edges]
    BY DEF Project, StoreRecord, Edges
  <1> QED BY <1>1 DEF Rewritten, StoreRecord

\* The clock only moves on
LEMMA TickKeeps ==
  ASSUME RelInv, Tick
  PROVE  RelInv' /\ Grows
  <1>1. UNCHANGED <<store, writer, lock, rollout>> /\ clock' = clock + 1
    BY DEF Tick
  <1>2. Grows /\ \A v \in Writers : Calm(v)
    BY <1>1 DEF Grows, Calm, RelInv, TypeInv, StoreOK, RecordOK, StoreRecord
  <1>3. StoreOK' /\ OneLine(store)' /\ LocksOK' /\ DOMAIN writer' = Writers /\ DOMAIN lock' = Entities
    BY <1>1 DEF RelInv, TypeInv, LineInv, StoreOK, OneLine, LocksOK, Holding
  <1>4. clock' \in Nat
    BY <1>1 DEF RelInv, TypeInv
  <1>5. RolloutOK'
    <2>1. \A i : ScanOK(i) => ScanOK(i)'
      BY <1>1 DEF ScanOK
    <2> QED BY <1>1, <2>1 DEF RelInv, RolloutOK
  <1> QED BY <1>1, <1>2, <1>3, <1>4, <1>5, StoreStep

LEMMA FlipKeeps ==
  ASSUME RelInv, Flip
  PROVE  RelInv' /\ Grows
  <1>1. UNCHANGED <<clock, writer, lock, rollout>>
    BY DEF Flip
  <1>2. CASE UNCHANGED store
    <2>1. Grows /\ \A v \in Writers : Calm(v)
      BY <1>2 DEF Grows, Calm, RelInv, TypeInv, StoreOK, RecordOK, StoreRecord
    <2>2. StoreOK' /\ OneLine(store)' /\ LocksOK' /\ DOMAIN writer' = Writers /\ DOMAIN lock' = Entities
      BY <1>1, <1>2 DEF RelInv, TypeInv, LineInv, StoreOK, OneLine, LocksOK, Holding
    <2>3. clock' \in Nat
      BY <1>1 DEF RelInv, TypeInv
    <2>4. RolloutOK'
      <3>1. \A i : ScanOK(i) => ScanOK(i)'
        BY <1>1, <1>2 DEF ScanOK
      <3> QED BY <1>1, <1>2, <3>1 DEF RelInv, RolloutOK
    <2> QED BY <1>1, <2>1, <2>2, <2>3, <2>4, StoreStep
  <1>3. ASSUME NEW i \in DOMAIN store, store' = [store EXCEPT ![i] = Switched(store[i])]
        PROVE  RelInv' /\ Grows
    <2> DEFINE r == Switched(store[i])
    <2>1. RecordOK(i[1], store[i])
      BY DEF RelInv, TypeInv, StoreOK
    <2>2. /\ r \in StoreRecord /\ r.status = store[i].status /\ r.evo = store[i].evo
          /\ r.edges = store[i].edges /\ r.previous = store[i].previous /\ r.index = store[i].index
          /\ r.updated = store[i].updated + 1
      BY <2>1, SwitchedFacts DEF RecordOK
    <2> HIDE DEF r
    <2>3. /\ DOMAIN store' = DOMAIN store /\ store'[i] = r
          /\ \A j \in DOMAIN store \ {i} : store'[j] = store[j]
      BY <1>3 DEF r
    <2>4. Grows /\ \A v \in Writers : Calm(v)
      BY <2>1, <2>2, <2>3 DEF Grows, Calm, RelInv, TypeInv, StoreOK, RecordOK, StoreRecord
    <2>5. StoreOK'
      BY <2>1, <2>2, <2>3 DEF StoreOK, RelInv, TypeInv, RecordOK, Projected
    <2>6. OneLine(store)'
      <3>1. \A j \in DOMAIN store : /\ store'[j].status = store[j].status /\ store'[j].evo = store[j].evo
                                    /\ store'[j].previous = store[j].previous
        BY <2>2, <2>3
      <3> QED BY <2>3, <3>1 DEF RelInv, LineInv, OneLine
    <2>7. LocksOK' /\ DOMAIN writer' = Writers /\ DOMAIN lock' = Entities /\ clock' \in Nat
      BY <1>1 DEF RelInv, TypeInv, LineInv, LocksOK, Holding
    <2>8. RolloutOK'
      <3>1. rollout.complete => \A j \in DOMAIN store' : Projected(store'[j])
        BY <2>2, <2>3 DEF RelInv, RolloutOK, Projected
      <3>2. \A j \in DOMAIN store : store'[j].evo = "pending" => store[j].evo = "pending"
        BY <2>2, <2>3
      <3> QED BY <1>1, <2>4, <2>5, <3>1, <3>2, RolloutKept DEF RelInv, RolloutOK
    <2> QED BY <1>1, <2>4, <2>5, <2>6, <2>7, <2>8, StoreStep
  <1> QED BY <1>2, <1>3 DEF Flip

\* A call that goes on to make its version the active one
LEMMA NextWriteFacts ==
  ASSUME NEW c, IsRec(c, HeldFields)
  PROVE  LET d == [c EXCEPT !.pc = "activate"] IN
    /\ IsRec(d, HeldFields) /\ d.pc = "activate" /\ d.entity = c.entity /\ d.expected = c.expected
    /\ d.named = c.named /\ d.bundle = c.bundle
    /\ d.staged = c.staged /\ d.previous = c.previous /\ d.image = c.image /\ d.then = c.then
  <1> DEFINE d == [c EXCEPT !.pc = "activate"]
  <1>1. DOMAIN c = HeldFields
    BY DEF IsRec
  <1>2. d = [k \in HeldFields |-> IF k = "pc" THEN "activate" ELSE c[k]]
    BY <1>1, Zenon
  <1> HIDE DEF d
  <1> QED BY <1>2 DEF IsRec, HeldFields, CallFields, d

\* What the holder of a staged version knows of the version it follows
LEMMA PreviousFacts ==
  ASSUME RelInv, NEW w \in Writers, writer[w].pc \in {"supersede", "activate"}
  PROVE  LET c == writer[w] IN
    /\ IsRec(c, HeldFields) /\ ReadOK(c) /\ RecordOK(c.entity, c.image) /\ c.then \in {"enter", "done"}
    /\ c.staged \in DOMAIN store /\ c.staged[1] = c.entity /\ store[c.staged].status = "deprecated"
    /\ store[c.staged].evo = "pending"
    /\ c.previous \in DOMAIN store /\ c.previous[1] = c.entity /\ c.previous = store[c.staged].previous
    /\ \A i \in DOMAIN store : i[1] = c.entity /\ store[i].status = "active" => i = c.previous
    /\ c.image.edges = store[c.staged].edges
  <1>1. KnowsOK(w) /\ CallOK(w) /\ OneLine(store)
    BY DEF RelInv, TypeInv, LineInv
  <1> QED BY <1>1, IdleFacts DEF KnowsOK, CallOK, OneLine

LEMMA SupersedeKeeps ==
  ASSUME RelInv, NEW w \in Writers, Supersede(w)
  PROVE  RelInv' /\ Grows
  <1> DEFINE c == writer[w]
             p == c.previous
             s == Superseded(store[p])
  <1>1. /\ c.pc = "supersede" /\ store' = [store EXCEPT ![p] = s]
        /\ writer' = [writer EXCEPT ![w] = [c EXCEPT !.pc = "activate"]]
        /\ UNCHANGED <<clock, lock, rollout>>
    BY DEF Supersede
  <1>2. /\ IsRec(c, HeldFields) /\ ReadOK(c) /\ RecordOK(c.entity, c.image) /\ c.then \in {"enter", "done"}
        /\ c.staged \in DOMAIN store /\ c.staged[1] = c.entity /\ store[c.staged].status = "deprecated"
        /\ p \in DOMAIN store /\ p[1] = c.entity /\ p = store[c.staged].previous
        /\ \A i \in DOMAIN store : i[1] = c.entity /\ store[i].status = "active" => i = p
        /\ c.image.edges = store[c.staged].edges
    BY <1>1, PreviousFacts
  <1>3. store[p].status = "active" /\ (c.then = "done" => AllowedOK(w))
    BY <1>1 DEF RelInv, LineInv, KnowsOK
  <1>4. RecordOK(p[1], store[p])
    BY <1>2 DEF RelInv, TypeInv, StoreOK
  <1>5. /\ s \in StoreRecord /\ s.status = "superseded" /\ s.evo = store[p].evo /\ s.edges = store[p].edges
        /\ s.previous = store[p].previous /\ s.index = store[p].index /\ s.updated = store[p].updated + 1
    BY <1>4, SupersededFacts DEF RecordOK
  <1> HIDE DEF s
  <1>6. /\ DOMAIN store' = DOMAIN store /\ store'[p] = s
        /\ \A j \in DOMAIN store \ {p} : store'[j] = store[j]
    BY <1>1, <1>2
  <1> DEFINE d == [c EXCEPT !.pc = "activate"]
  <1>7. /\ IsRec(d, HeldFields) /\ d.pc = "activate" /\ d.entity = c.entity /\ d.expected = c.expected
        /\ d.named = c.named /\ d.bundle = c.bundle
        /\ d.staged = c.staged /\ d.previous = p /\ d.image = c.image /\ d.then = c.then
    BY <1>2, NextWriteFacts
  <1>7a. writer' = [writer EXCEPT ![w] = d]
    BY <1>1
  <1> HIDE DEF d
  <1>8. writer'[w] = d /\ DOMAIN writer' = Writers /\ \A v \in Writers \ {w} : writer'[v] = writer[v]
    BY <1>7a DEF RelInv, TypeInv
  <1>9. Grows
    BY <1>4, <1>5, <1>6 DEF Grows, RelInv, TypeInv, StoreOK, RecordOK, StoreRecord
  <1>10. StoreOK'
    BY <1>4, <1>5, <1>6 DEF StoreOK, RelInv, TypeInv, RecordOK, Projected
  <1>11. OneLine(store)'
    <2>1. OneLine(store)
      BY DEF RelInv, LineInv
    <2>2. \A j \in DOMAIN store : store'[j].evo = store[j].evo /\ store'[j].previous = store[j].previous
      BY <1>5, <1>6
    <2>3. ASSUME NEW i \in DOMAIN store, NEW j \in DOMAIN store, i[1] = j[1], i[2] < j[2]
          PROVE  \/ store'[i].status = "superseded"
                 \/ store'[i].status = "active" /\ store'[j].status = "deprecated"
      BY <1>3, <1>5, <1>6, <2>1, <2>3 DEF OneLine
    <2>4. \A j \in DOMAIN store : store'[j].status = "deprecated" => store[j].status = "deprecated"
      BY <1>5, <1>6
    <2>5. \A j \in DOMAIN store : store'[j].status = "active" => store[j].status = "active"
      BY <1>5, <1>6
    <2> QED BY <1>6, <2>1, <2>2, <2>3, <2>4, <2>5 DEF OneLine
  <1>12. LocksOK'
    <2>1. ASSUME NEW v \in Writers, Holding(v)' PROVE lock[writer'[v].entity] = v
      BY <1>1, <1>7, <1>8, <2>1 DEF RelInv, LineInv, LocksOK, Holding
    <2> QED BY <1>1, <2>1 DEF RelInv, LineInv, LocksOK
  <1>13. \A v \in Writers \ {w} : Calm(v)
    <2>1. \A v \in Writers \ {w} : Holding(v) => writer[v].entity # c.entity
      BY <1>1, OtherHolder DEF Holding
    <2> QED BY <1>2, <1>6, <2>1 DEF Calm
  <1>14. CallOK(w)'
    <2>1. ReadOK(writer[w])'
      BY <1>2, <1>7, <1>8, <1>9 DEF ReadOK, Grows
    <2> QED BY <1>2, <1>7, <1>8, <2>1 DEF CallOK, IsRec
  <1>15. KnowsOK(w)'
    <2>1. c.staged # p /\ store'[c.staged] = store[c.staged]
      BY <1>2, <1>3, <1>6
    <2>2. c.then = "done" => AllowedOK(w)'
      BY <1>3, <1>5, <1>6, <1>7, <1>8 DEF AllowedOK
    <2>3. \A i \in DOMAIN store' : i[1] = c.entity => store'[i].status # "active"
      BY <1>2, <1>5, <1>6
    <2> QED BY <1>2, <1>6, <1>7, <1>8, <2>1, <2>2, <2>3 DEF KnowsOK
  <1>16. RolloutOK'
    <2>1. rollout.complete => \A j \in DOMAIN store' : Projected(store'[j])
      BY <1>5, <1>6 DEF RelInv, RolloutOK, Projected
    <2>2. \A v \in Writers : rollout.complete /\ writer'[v].pc \in {"supersede", "activate"}
            => Projected(writer'[v].image)
      BY <1>1, <1>7, <1>8 DEF RelInv, RolloutOK
    <2>3. \A j \in DOMAIN store : store'[j].evo = "pending" => store[j].evo = "pending"
      BY <1>5, <1>6
    <2> QED BY <1>1, <1>9, <1>10, <2>1, <2>2, <2>3, RolloutKept
  <1>17. DOMAIN lock' = Entities /\ clock' \in Nat
    BY <1>1 DEF RelInv, TypeInv
  <1> QED BY <1>8, <1>9, <1>10, <1>11, <1>12, <1>13, <1>14, <1>15, <1>16, <1>17, StoreStep

LEMMA ActivateKeeps ==
  ASSUME RelInv, NEW w \in Writers, Activate(w)
  PROVE  RelInv' /\ Grows
  <1> DEFINE c == writer[w]
             i == c.staged
             s == Activated(store[i], c.image)
  <1>1. /\ c.pc = "activate" /\ store' = [store EXCEPT ![i] = s]
        /\ \/ writer' = [writer EXCEPT ![w] = Call(c, "enter")] /\ UNCHANGED lock
           \/ writer' = [writer EXCEPT ![w] = Idle] /\ lock' = [lock EXCEPT ![c.entity] = None]
        /\ UNCHANGED <<clock, rollout>>
    BY DEF Activate, Leaves
  <1>2. /\ ReadOK(c) /\ RecordOK(c.entity, c.image)
        /\ i \in DOMAIN store /\ i[1] = c.entity /\ store[i].status = "deprecated"
        /\ store[i].evo = "pending" /\ c.image.edges = store[i].edges
    BY <1>1, PreviousFacts
  <1>3. \A j \in DOMAIN store : j[1] = c.entity => store[j].status # "active"
    BY <1>1 DEF RelInv, LineInv, KnowsOK
  <1>4. RecordOK(i[1], store[i])
    BY <1>2 DEF RelInv, TypeInv, StoreOK
  <1>5. /\ s \in StoreRecord /\ s.status = "active" /\ s.evo = "committed" /\ s.edges = store[i].edges
        /\ s.previous = store[i].previous /\ s.index = c.image.index /\ s.updated = store[i].updated + 1
    BY <1>2, <1>4, ActivatedFacts DEF RecordOK
  <1> HIDE DEF s
  <1>6. /\ DOMAIN store' = DOMAIN store /\ store'[i] = s
        /\ \A j \in DOMAIN store \ {i} : store'[j] = store[j]
    BY <1>1, <1>2
  <1>8. DOMAIN writer' = Writers /\ \A v \in Writers \ {w} : writer'[v] = writer[v]
    <2> HIDE DEF Idle
    <2> QED BY <1>1 DEF RelInv, TypeInv
  <1>9. Grows
    BY <1>4, <1>5, <1>6 DEF Grows, RelInv, TypeInv, StoreOK, RecordOK, StoreRecord
  <1>10. StoreOK'
    <2>1. RecordOK(i[1], s)
      BY <1>2, <1>4, <1>5 DEF RecordOK, Projected
    <2> QED BY <1>6, <2>1 DEF StoreOK, RelInv, TypeInv
  <1>11. OneLine(store)'
    <2>1. OneLine(store)
      BY DEF RelInv, LineInv
    <2>2. ASSUME NEW k \in DOMAIN store, NEW j \in DOMAIN store, k[1] = j[1], k[2] < j[2]
          PROVE  \/ store'[k].status = "superseded"
                 \/ store'[k].status = "active" /\ store'[j].status = "deprecated"
      BY <1>2, <1>3, <1>5, <1>6, <2>1, <2>2 DEF OneLine
    <2>3. ASSUME NEW j \in DOMAIN store, store'[j].status = "deprecated"
          PROVE  j # i /\ store[j].status = "deprecated" /\ j[1] # i[1]
      <3>1. j # i /\ store[j].status = "deprecated"
        BY <1>5, <1>6, <2>3
      <3>2. i \in RecordIds /\ j \in RecordIds
        BY <1>2 DEF RelInv, TypeInv, StoreOK
      <3>3. CASE i[1] = j[1]
        <4>1. i[2] # j[2] /\ i[2] \in Nat /\ j[2] \in Nat
          BY <3>1, <3>2, <3>3 DEF RecordIds
        <4>2. i[2] < j[2] \/ j[2] < i[2]
          BY <4>1
        <4> QED BY <1>2, <2>1, <3>1, <3>3, <4>2 DEF OneLine
      <3> QED BY <3>1, <3>3
    <2>4. \A j \in DOMAIN store : store'[j].status = "deprecated" =>
            /\ store'[j].evo = "pending" /\ store'[j].previous \in DOMAIN store
            /\ store'[j].previous[1] = j[1] /\ store'[j].previous[2] < j[2]
            /\ \A k \in DOMAIN store : k[1] = j[1] /\ store'[k].status = "active" => k = store'[j].previous
      BY <1>6, <2>1, <2>3 DEF OneLine
    <2> QED BY <1>6, <2>2, <2>4 DEF OneLine
  <1>13. \A v \in Writers \ {w} : Calm(v)
    <2>1. \A v \in Writers \ {w} : Holding(v) => writer[v].entity # c.entity
      BY <1>1, OtherHolder DEF Holding
    <2> QED BY <1>2, <1>6, <2>1 DEF Calm
  <1>14. /\ CallOK(w)' /\ KnowsOK(w)' /\ LocksOK' /\ DOMAIN lock' = Entities
         /\ ~(writer'[w].pc \in {"supersede", "activate"})
    <2>1. CASE writer' = [writer EXCEPT ![w] = Call(c, "enter")] /\ UNCHANGED lock
      <3> DEFINE d == Call(c, "enter")
      <3>1. writer'[w] = d
        BY <2>1 DEF RelInv, TypeInv
      <3>2. /\ IsRec(d, CallFields) /\ d.pc = "enter" /\ d.entity = c.entity
            /\ d.expected = c.expected /\ d.named = c.named /\ d.bundle = c.bundle
        BY CallFacts
      <3> HIDE DEF d
      <3>3. ReadOK(writer[w])'
        BY <1>2, <1>9, <3>1, <3>2 DEF ReadOK, Grows
      <3>4. CallOK(w)' /\ KnowsOK(w)'
        BY <3>1, <3>2, <3>3 DEF CallOK, KnowsOK, IsRec
      <3>5. LocksOK'
        BY <1>8, <2>1, <3>1, <3>2 DEF RelInv, LineInv, LocksOK, Holding
      <3> QED BY <2>1, <3>1, <3>2, <3>4, <3>5 DEF RelInv, TypeInv
    <2>2. CASE writer' = [writer EXCEPT ![w] = Idle] /\ lock' = [lock EXCEPT ![c.entity] = None]
      <3> HIDE DEF Idle
      <3>1. writer'[w] = Idle
        BY <2>2 DEF RelInv, TypeInv
      <3>2. CallOK(w)' /\ KnowsOK(w)'
        BY <3>1, IdleCall
      <3>3. c.entity \in Entities /\ DOMAIN lock = Entities
        BY <1>2 DEF ReadOK, RelInv, TypeInv
      <3>4. DOMAIN lock' = Entities /\ lock'[c.entity] = None
            /\ \A f \in Entities \ {c.entity} : lock'[f] = lock[f]
        BY <2>2, <3>3
      <3>5. ASSUME NEW v \in Writers, Holding(v)' PROVE lock'[writer'[v].entity] = v
        <4>1. v # w /\ writer'[v] = writer[v] /\ Holding(v)
          BY <1>8, <3>1, <3>5, IdleFacts DEF Holding
        <4>2. writer[v].entity # c.entity
          BY <1>1, <4>1, OtherHolder DEF Holding
        <4>3. writer[v].entity \in Entities
          BY <4>1, CallHasRead DEF RelInv, TypeInv, Holding, ReadOK
        <4> QED BY <3>4, <4>1, <4>2, <4>3 DEF RelInv, LineInv, LocksOK
      <3>6. LocksOK'
        BY <3>4, <3>5 DEF RelInv, LineInv, LocksOK
      <3> QED BY <3>1, <3>2, <3>4, <3>6, IdleFacts
    <2> QED BY <1>1, <2>1, <2>2
  <1>16. RolloutOK'
    <2>1. rollout.complete => \A j \in DOMAIN store' : Projected(store'[j])
      BY <1>1, <1>2, <1>5, <1>6 DEF RelInv, RolloutOK, Projected
    <2>2. \A v \in Writers : rollout.complete /\ writer'[v].pc \in {"supersede", "activate"}
            => Projected(writer'[v].image)
      BY <1>8, <1>14 DEF RelInv, RolloutOK
    <2>3. \A j \in DOMAIN store : store'[j].evo = "pending" => store[j].evo = "pending"
      BY <1>5, <1>6
    <2> QED BY <1>1, <1>9, <1>10, <2>1, <2>2, <2>3, RolloutKept
  <1>17. clock' \in Nat
    BY <1>1 DEF RelInv, TypeInv
  <1> QED BY <1>8, <1>9, <1>10, <1>11, <1>13, <1>14, <1>16, <1>17, StoreStep

LEMMA StageKeeps ==
  ASSUME RelInv, NEW w \in Writers, Stage(w)
  PROVE  RelInv' /\ Grows
  <1> DEFINE c == writer[w]
             e == c.entity
             previous == CHOOSE i \in ActiveOf(store, e) : TRUE
             staged == <<e, previous[2] + 1>>
             record == [status |-> "deprecated", evo |-> "pending", ordinary |-> TRUE,
                        edges |-> c.bundle, index |-> Project(c.bundle),
                        created |-> clock + 1, updated |-> 0, previous |-> previous]
             d == Completing(c, "supersede", staged, record, "done")
  <1>1. /\ c.pc = "stage"
        /\ \/ /\ Cardinality(ActiveOf(store, e)) = 1 /\ CurrentAsExpected(w, previous)
              /\ MayChange(w, previous)
              /\ store' = [i \in DOMAIN store \cup {staged} |-> IF i = staged THEN record ELSE store[i]]
              /\ clock' = clock + 1 /\ writer' = [writer EXCEPT ![w] = d] /\ UNCHANGED lock
           \/ Leaves(w) /\ UNCHANGED <<store, clock>>
        /\ UNCHANGED rollout
    BY DEF Stage
  <1>2. /\ ReadOK(c) /\ e \in Entities /\ lock[e] = w
        /\ \A i \in DOMAIN store : i[1] = e => store[i].status # "deprecated"
    <2>1. ReadOK(c) /\ KnowsOK(w) /\ LocksOK
      BY <1>1, CallHasRead DEF RelInv, TypeInv, LineInv
    <2> QED BY <1>1, <2>1 DEF ReadOK, KnowsOK, LocksOK, Holding
  <1>3. CASE Leaves(w) /\ UNCHANGED <<store, clock>>
    <2> HIDE DEF Idle
    <2>1. lock' = [lock EXCEPT ![e] = None] /\ writer' = [writer EXCEPT ![w] = Idle]
      BY <1>3 DEF Leaves
    <2>2. DOMAIN lock' = Entities
      BY <2>1 DEF RelInv, TypeInv
    <2>3. \A f \in Entities : lock'[f] = lock[f] \/ (lock'[f] = None /\ lock[f] \in {w, None})
      BY <1>2, <2>1 DEF RelInv, TypeInv
    <2>4. UNCHANGED <<store, clock, rollout>>
      BY <1>1, <1>3
    <2> HIDE DEF c, e, previous, staged, record, d
    <2>5. writer' = [writer EXCEPT ![w] = Idle]
      BY <2>1
    <2> QED BY <2>2, <2>3, <2>4, <2>5, LeavesKeeps
  <1>4. CASE /\ Cardinality(ActiveOf(store, e)) = 1 /\ CurrentAsExpected(w, previous)
             /\ MayChange(w, previous)
             /\ store' = [i \in DOMAIN store \cup {staged} |-> IF i = staged THEN record ELSE store[i]]
             /\ clock' = clock + 1 /\ writer' = [writer EXCEPT ![w] = d] /\ UNCHANGED lock
    <2>1. previous \in DOMAIN store /\ previous[1] = e /\ store[previous].status = "active"
      <3>0. Cardinality(ActiveOf(store, e)) = 1
        BY <1>4
      <3>1. ActiveOf(store, e) # {}
        <4> HIDE DEF e
        <4> QED BY <3>0, FS_EmptySet
      <3>2. previous \in ActiveOf(store, e)
        BY <3>1
      <3> QED BY <3>2 DEF ActiveOf
    <2>2. previous \in RecordIds
      BY <2>1 DEF RelInv, TypeInv, StoreOK
    <2>3. staged \in RecordIds /\ staged[1] = e /\ staged[2] = previous[2] + 1 /\ previous[2] \in Nat
      BY <2>2, <1>2 DEF RecordIds
    <2>4. record \in StoreRecord
      <3>1. c.bundle \subseteq Edges
        BY <1>2 DEF ReadOK, BundleOK
      <3>2. Project(c.bundle) \in [targets : SUBSET Entities, digest : SUBSET Edges]
        BY <3>1 DEF Project, Edges
      <3>3. clock + 1 \in Nat
        BY DEF RelInv, TypeInv
      <3> HIDE DEF previous
      <3> QED BY <2>2, <3>1, <3>2, <3>3 DEF StoreRecord
    <2>5. /\ record.status = "deprecated" /\ record.evo = "pending" /\ record.edges = c.bundle
          /\ record.index = Project(c.bundle) /\ record.previous = previous
      OBVIOUS
    <2>6. OneLine(store) /\ DOMAIN store \subseteq RecordIds /\ IsFiniteSet(DOMAIN store)
      BY DEF RelInv, TypeInv, LineInv, StoreOK
    <2> HIDE DEF record, previous, staged, d
    <2>7. \A j \in DOMAIN store : j[1] = e => j = previous \/ j[2] < previous[2]
      <3>1. ASSUME NEW j \in DOMAIN store, j[1] = e PROVE ~(previous[2] < j[2])
        BY <1>2, <2>1, <2>6, <3>1 DEF OneLine
      <3> QED BY <2>1, <2>2, <2>3, <2>6, <3>1 DEF RecordIds
    <2>8. staged \notin DOMAIN store
      BY <2>3, <2>7
    <2>9. /\ DOMAIN store' = DOMAIN store \cup {staged} /\ store'[staged] = record
          /\ \A j \in DOMAIN store : store'[j] = store[j]
      BY <1>4, <2>8
    <2>10. writer'[w] = d /\ DOMAIN writer' = Writers /\ \A v \in Writers \ {w} : writer'[v] = writer[v]
      BY <1>4 DEF RelInv, TypeInv
    <2>11. /\ IsRec(d, HeldFields) /\ d.pc = "supersede" /\ d.entity = e
           /\ d.expected = c.expected /\ d.named = c.named /\ d.bundle = c.bundle
           /\ d.staged = staged /\ d.previous = previous /\ d.image = record /\ d.then = "done"
      BY <2>5, CompletingFacts DEF d
    <2>12. Grows
      BY <2>9 DEF Grows, RelInv, TypeInv, StoreOK, RecordOK, StoreRecord
    <2>13. RecordOK(e, record)
      BY <1>2, <2>4, <2>5 DEF RecordOK, Projected, ReadOK
    <2>14. StoreOK'
      <3>1. IsFiniteSet(DOMAIN store')
        BY <2>6, <2>9, FS_AddElement
      <3> QED BY <2>3, <2>9, <2>13, <3>1 DEF StoreOK, RelInv, TypeInv
    <2>15. OneLine(store)'
      <3>1. ASSUME NEW i \in DOMAIN store', NEW j \in DOMAIN store', i[1] = j[1], i[2] < j[2]
            PROVE  \/ store'[i].status = "superseded"
                   \/ store'[i].status = "active" /\ store'[j].status = "deprecated"
        <4>1. CASE i = staged
          <5>1. j # staged
            BY <2>3, <3>1, <4>1
          <5>2. j \in DOMAIN store /\ j[1] = e /\ j \in RecordIds
            BY <2>3, <2>6, <2>9, <3>1, <4>1, <5>1
          <5> QED BY <2>2, <2>3, <2>7, <3>1, <4>1, <5>2 DEF RecordIds
        <4>2. CASE i # staged /\ j = staged
          <5>1. i \in DOMAIN store /\ i[1] = e
            BY <2>3, <2>9, <3>1, <4>2
          <5>2. CASE i = previous
            BY <2>1, <2>5, <2>9, <4>2, <5>2
          <5>3. CASE i[2] < previous[2]
            BY <1>2, <2>1, <2>6, <2>9, <5>1, <5>3 DEF OneLine
          <5> QED BY <2>7, <5>1, <5>2, <5>3
        <4>3. CASE i # staged /\ j # staged
          BY <2>6, <2>9, <3>1, <4>3 DEF OneLine
        <4> QED BY <4>1, <4>2, <4>3
      <3>2. ASSUME NEW j \in DOMAIN store', store'[j].status = "deprecated"
            PROVE  /\ store'[j].evo = "pending" /\ store'[j].previous \in DOMAIN store'
                   /\ store'[j].previous[1] = j[1] /\ store'[j].previous[2] < j[2]
                   /\ \A i \in DOMAIN store' : i[1] = j[1] /\ store'[i].status = "active"
                        => i = store'[j].previous
        <4>1. CASE j = staged
          <5>1. \A i \in DOMAIN store' : i[1] = e /\ store'[i].status = "active" => i = previous
            <6>1. ASSUME NEW i \in DOMAIN store, i[1] = e, store[i].status = "active" PROVE i = previous
              BY <2>1, <2>6, <2>7, <6>1 DEF OneLine
            <6> QED BY <2>5, <2>9, <6>1
          <5> QED BY <2>1, <2>3, <2>5, <2>9, <4>1, <5>1
        <4>2. CASE j # staged
          <5>1. j \in DOMAIN store /\ j[1] # e
            BY <1>2, <2>9, <3>2, <4>2
          <5> QED BY <2>3, <2>6, <2>9, <3>2, <5>1 DEF OneLine
        <4> QED BY <4>1, <4>2
      <3> QED BY <3>1, <3>2 DEF OneLine
    <2>16. \A v \in Writers \ {w} : Calm(v)
      <3>1. \A v \in Writers \ {w} : Holding(v) => writer[v].entity # e
        BY <1>1, OtherHolder DEF Holding
      <3> QED BY <2>3, <2>9, <3>1 DEF Calm
    <2>17. CallOK(w)'
      <3>1. ReadOK(writer[w])'
        BY <1>2, <2>9, <2>10, <2>11 DEF ReadOK
      <3> QED BY <2>10, <2>11, <2>13, <3>1 DEF CallOK, IsRec
    <2>18. KnowsOK(w)'
      <3>1. AllowedOK(w)'
        BY <1>4, <2>1, <2>5, <2>9, <2>10, <2>11 DEF AllowedOK, CurrentAsExpected, MayChange
      <3> QED BY <2>1, <2>3, <2>5, <2>9, <2>10, <2>11, <3>1 DEF KnowsOK
    <2>19. LocksOK'
      <3>1. ASSUME NEW v \in Writers, Holding(v)' PROVE lock[writer'[v].entity] = v
        BY <1>2, <2>10, <2>11, <3>1 DEF RelInv, LineInv, LocksOK, Holding
      <3> QED BY <1>4, <3>1 DEF RelInv, LineInv, LocksOK
    <2>20. RolloutOK'
      <3>1. Projected(record)
        BY <2>5 DEF Projected
      <3>2. rollout.complete => \A j \in DOMAIN store' : Projected(store'[j])
        BY <2>9, <3>1 DEF RelInv, RolloutOK
      <3>3. \A v \in Writers : rollout.complete /\ writer'[v].pc \in {"supersede", "activate"}
              => Projected(writer'[v].image)
        BY <2>10, <2>11, <3>1 DEF RelInv, RolloutOK
      <3>4. \A j \in DOMAIN store : store'[j].evo = "pending" => store[j].evo = "pending"
        BY <2>9
      <3> QED BY <1>1, <2>12, <2>14, <3>2, <3>3, <3>4, RolloutKept
    <2>21. DOMAIN lock' = Entities /\ clock' \in Nat
      BY <1>4 DEF RelInv, TypeInv
    <2> QED BY <2>10, <2>12, <2>14, <2>15, <2>16, <2>17, <2>18, <2>19, <2>20, <2>21, StoreStep
  <1> QED BY <1>1, <1>3, <1>4

-----------------------------------------------------------------------------
(* The rollout.                                                            *)

\* A record with one field changed
LEMMA FieldSet ==
  ASSUME NEW r, NEW D, IsRec(r, D), NEW f \in D, NEW v
  PROVE  LET d == [r EXCEPT ![f] = v] IN
    IsRec(d, D) /\ d[f] = v /\ \A k \in D \ {f} : d[k] = r[k]
  <1> DEFINE d == [r EXCEPT ![f] = v]
  <1>1. DOMAIN r = D
    BY DEF IsRec
  <1>2. d = [k \in D |-> IF k = f THEN v ELSE r[k]]
    BY <1>1, Zenon
  <1> HIDE DEF d
  <1> QED BY <1>2 DEF IsRec, d

\* A rollout that ended, in success or not
LEMMA EndedFacts ==
  ASSUME IsRec(rollout, RolloutFields), NEW phase
  PROVE  LET d == Ended(phase) IN
    /\ IsRec(d, RolloutFields) /\ d.phase = phase /\ d.undone = rollout.undone
    /\ d.before = rollout.before /\ d.complete = rollout.complete
  <1> DEFINE a == [rollout EXCEPT !["phase"] = phase]
             b == [a EXCEPT !["scan"] = <<>>]
             d == [b EXCEPT !["todo"] = {}]
  <1>0. {"phase", "scan", "todo"} \subseteq RolloutFields
    BY DEF RolloutFields
  <1>1. Ended(phase) = d
    BY DEF Ended
  <1>2. IsRec(a, RolloutFields) /\ a["phase"] = phase /\ \A k \in RolloutFields \ {"phase"} : a[k] = rollout[k]
    BY <1>0, FieldSet
  <1> HIDE DEF a
  <1>3. IsRec(b, RolloutFields) /\ \A k \in RolloutFields \ {"scan"} : b[k] = a[k]
    BY <1>0, <1>2, FieldSet
  <1> HIDE DEF b
  <1>4. IsRec(d, RolloutFields) /\ \A k \in RolloutFields \ {"todo"} : d[k] = b[k]
    BY <1>0, <1>3, FieldSet
  <1> HIDE DEF d
  <1> QED BY <1>1, <1>2, <1>3, <1>4 DEF RolloutFields

\* The store and the calls are as they were, and the rollout moved
LEMMA RolloutStep ==
  ASSUME RelInv, UNCHANGED <<store, clock, writer, lock>>, RolloutOK'
  PROVE  RelInv' /\ Grows
  <1>1. Grows /\ \A v \in Writers : Calm(v)
    BY DEF Grows, Calm, RelInv, TypeInv, StoreOK, RecordOK, StoreRecord
  <1>2. StoreOK' /\ OneLine(store)' /\ LocksOK' /\ DOMAIN writer' = Writers /\ DOMAIN lock' = Entities
    BY DEF RelInv, TypeInv, LineInv, StoreOK, OneLine, LocksOK, Holding
  <1>3. clock' \in Nat
    BY DEF RelInv, TypeInv
  <1> QED BY <1>1, <1>2, <1>3, StoreStep

\* The rollout goes to a phase in which it writes nothing and reports nothing
LEMMA RolloutMoves ==
  ASSUME RelInv, UNCHANGED <<store, clock, writer, lock>>,
         IsRec(rollout', RolloutFields), rollout'.phase \notin {"write", "applied"},
         rollout'.undone = rollout.undone, rollout'.before = rollout.before,
         rollout'.complete = rollout.complete
  PROVE  RelInv' /\ Grows
  <1>1. RolloutOK'
    BY DEF RelInv, RolloutOK
  <1> QED BY <1>1, RolloutStep

LEMMA CheckpointBeginKeeps ==
  ASSUME RelInv, CheckpointBegin
  PROVE  RelInv' /\ Grows
  <1> DEFINE a == [rollout EXCEPT !["phase"] = "snapshot"]
             d == [a EXCEPT !["scan"] = Source(store)]
  <1>1. rollout' = d /\ UNCHANGED <<store, clock, writer, lock>>
    BY DEF CheckpointBegin
  <1>2. IsRec(rollout, RolloutFields) /\ {"phase", "scan"} \subseteq RolloutFields
    BY DEF RelInv, RolloutOK, RolloutFields
  <1>3. IsRec(a, RolloutFields) /\ a["phase"] = "snapshot" /\ \A k \in RolloutFields \ {"phase"} : a[k] = rollout[k]
    BY <1>2, FieldSet
  <1> HIDE DEF a
  <1>4. IsRec(d, RolloutFields) /\ \A k \in RolloutFields \ {"scan"} : d[k] = a[k]
    BY <1>2, <1>3, FieldSet
  <1> HIDE DEF d
  <1>5. /\ IsRec(rollout', RolloutFields) /\ rollout'.phase = "snapshot" /\ rollout'.undone = rollout.undone
        /\ rollout'.before = rollout.before /\ rollout'.complete = rollout.complete
    BY <1>1, <1>3, <1>4 DEF RolloutFields
  <1> QED BY <1>1, <1>5, RolloutMoves

LEMMA CheckpointEndKeeps ==
  ASSUME RelInv, CheckpointEnd
  PROVE  RelInv' /\ Grows
  <1> DEFINE a == Ended("checkpoint")
             d == [a EXCEPT !["checkpoint"] = rollout.scan]
             x == Ended("idle")
  <1>1. (rollout' = d \/ rollout' = x) /\ UNCHANGED <<store, clock, writer, lock>>
    BY DEF CheckpointEnd
  <1>2. IsRec(rollout, RolloutFields) /\ "checkpoint" \in RolloutFields
    BY DEF RelInv, RolloutOK, RolloutFields
  <1>3. /\ IsRec(a, RolloutFields) /\ a.phase = "checkpoint" /\ a.undone = rollout.undone
        /\ a.before = rollout.before /\ a.complete = rollout.complete
        /\ IsRec(x, RolloutFields) /\ x.phase = "idle" /\ x.undone = rollout.undone
        /\ x.before = rollout.before /\ x.complete = rollout.complete
    BY <1>2, EndedFacts
  <1> HIDE DEF a, x
  <1>4. IsRec(d, RolloutFields) /\ \A k \in RolloutFields \ {"checkpoint"} : d[k] = a[k]
    BY <1>2, <1>3, FieldSet
  <1> HIDE DEF d
  <1>5. /\ IsRec(rollout', RolloutFields) /\ rollout'.phase \in {"checkpoint", "idle"}
        /\ rollout'.undone = rollout.undone
        /\ rollout'.before = rollout.before /\ rollout'.complete = rollout.complete
    BY <1>1, <1>3, <1>4 DEF RolloutFields
  <1> QED BY <1>1, <1>5, RolloutMoves

LEMMA ApplyInterruptedKeeps ==
  ASSUME RelInv, ApplyInterrupted
  PROVE  RelInv' /\ Grows
  <1> DEFINE x == Ended("checkpoint")
  <1>1. rollout' = x /\ UNCHANGED <<store, clock, writer, lock>>
    BY DEF ApplyInterrupted
  <1>2. /\ IsRec(x, RolloutFields) /\ x.phase = "checkpoint" /\ x.undone = rollout.undone
        /\ x.before = rollout.before /\ x.complete = rollout.complete
    BY EndedFacts DEF RelInv, RolloutOK
  <1> HIDE DEF x
  <1> QED BY <1>1, <1>2, RolloutMoves

LEMMA ApplyScanKeeps ==
  ASSUME RelInv, ApplyScan
  PROVE  RelInv' /\ Grows
  <1> DEFINE x == Ended("idle")
             todo == {i \in DOMAIN store : store[i].index = None}
             a == [rollout EXCEPT !["phase"] = "write"]
             b == [a EXCEPT !["scan"] = store]
             c == [b EXCEPT !["before"] = rollout.undone]
             d == [c EXCEPT !["todo"] = todo]
  <1>1. (rollout' = d \/ rollout' = x) /\ UNCHANGED <<store, clock, writer, lock>>
    BY DEF ApplyScan
  <1>2. IsRec(rollout, RolloutFields) /\ {"phase", "scan", "before", "todo"} \subseteq RolloutFields
    BY DEF RelInv, RolloutOK, RolloutFields
  <1>3. /\ IsRec(x, RolloutFields) /\ x.phase = "idle" /\ x.undone = rollout.undone
        /\ x.before = rollout.before /\ x.complete = rollout.complete
    BY <1>2, EndedFacts
  <1>4. IsRec(a, RolloutFields) /\ a["phase"] = "write" /\ \A k \in RolloutFields \ {"phase"} : a[k] = rollout[k]
    BY <1>2, FieldSet
  <1> HIDE DEF a, x
  <1>5. IsRec(b, RolloutFields) /\ b["scan"] = store /\ \A k \in RolloutFields \ {"scan"} : b[k] = a[k]
    BY <1>2, <1>4, FieldSet
  <1> HIDE DEF b
  <1>6. IsRec(c, RolloutFields) /\ c["before"] = rollout.undone /\ \A k \in RolloutFields \ {"before"} : c[k] = b[k]
    BY <1>2, <1>5, FieldSet
  <1> HIDE DEF c
  <1>7. IsRec(d, RolloutFields) /\ d["todo"] = todo /\ \A k \in RolloutFields \ {"todo"} : d[k] = c[k]
    BY <1>2, <1>6, FieldSet
  <1> HIDE DEF d
  <1>8. CASE rollout' = x
    BY <1>1, <1>3, <1>8, RolloutMoves
  <1>9. CASE rollout' = d
    <2>1. /\ IsRec(rollout', RolloutFields) /\ rollout'.phase = "write" /\ rollout'.scan = store
          /\ rollout'.undone = rollout.undone /\ rollout'.before = rollout.undone
          /\ rollout'.todo = todo /\ rollout'.complete = rollout.complete
      BY <1>4, <1>5, <1>6, <1>7, <1>9 DEF RolloutFields
    <2>2. \A i \in DOMAIN store : ScanOK(i)'
      BY <1>1, <2>1 DEF ScanOK, RelInv, TypeInv, StoreOK, RecordOK, StoreRecord
    <2>3. RolloutOK'
      BY <1>1, <2>1, <2>2 DEF RelInv, RolloutOK
    <2> QED BY <1>1, <2>3, RolloutStep
  <1> QED BY <1>1, <1>8, <1>9

LEMMA SourceFacts ==
  ASSUME NEW r \in StoreRecord
  PROVE  [r EXCEPT !.index = None].updated = r.updated
  BY DEF StoreRecord

LEMMA ApplyVerifyKeeps ==
  ASSUME RelInv, ApplyVerify
  PROVE  RelInv' /\ Grows
  <1> DEFINE x == Ended("conflict")
             a == Ended("applied")
             complete == a.complete \/ \A w \in Writers : writer[w].pc \in {"idle", "admit", "enter"}
             d == [a EXCEPT !["complete"] = complete]
  <1>1. /\ rollout.phase = "write" /\ UNCHANGED <<store, clock, writer, lock>>
        /\ (rollout' = d /\ Verified) \/ rollout' = x
    BY DEF ApplyVerify
  <1>2. IsRec(rollout, RolloutFields) /\ "complete" \in RolloutFields
    BY DEF RelInv, RolloutOK, RolloutFields
  <1>3. /\ IsRec(x, RolloutFields) /\ x.phase = "conflict" /\ x.undone = rollout.undone
        /\ x.before = rollout.before /\ x.complete = rollout.complete
        /\ IsRec(a, RolloutFields) /\ a.phase = "applied" /\ a.undone = rollout.undone
        /\ a.before = rollout.before /\ a.complete = rollout.complete
    BY <1>2, EndedFacts
  <1>3a. complete = (rollout.complete \/ \A w \in Writers : writer[w].pc \in {"idle", "admit", "enter"})
    BY <1>3
  <1> HIDE DEF a, x, complete
  <1>4. IsRec(d, RolloutFields) /\ d["complete"] = complete /\ \A k \in RolloutFields \ {"complete"} : d[k] = a[k]
    BY <1>2, <1>3, FieldSet
  <1> HIDE DEF d
  <1>5. CASE rollout' = x
    BY <1>1, <1>3, <1>5, RolloutMoves
  <1>6. CASE rollout' = d /\ Verified
    <2>1. /\ IsRec(rollout', RolloutFields) /\ rollout'.phase = "applied" /\ rollout'.undone = rollout.undone
          /\ rollout'.before = rollout.before /\ rollout'.complete = complete
      BY <1>3, <1>4, <1>6 DEF RolloutFields
    <2>2. rollout.undone = rollout.before
      <3>1. ASSUME NEW i \in rollout.undone \ rollout.before PROVE FALSE
        <4>1. i \in DOMAIN rollout.scan /\ ScanOK(i) /\ StoreOK
          BY <1>1, <3>1 DEF RelInv, TypeInv, RolloutOK
        <4>2. i \in DOMAIN store /\ rollout.scan[i] \in StoreRecord /\ store[i] \in StoreRecord
          BY <4>1 DEF ScanOK, StoreOK, RecordOK
        <4>3. Source(store)[i] = Source(rollout.scan)[i]
          BY <1>6 DEF Verified
        <4>4. [store[i] EXCEPT !.index = None] = [rollout.scan[i] EXCEPT !.index = None]
          BY <4>1, <4>2, <4>3, Zenon DEF Source
        <4>5. store[i].updated = rollout.scan[i].updated
          BY <4>2, <4>4, SourceFacts
        <4> QED BY <3>1, <4>1, <4>2, <4>5 DEF ScanOK, StoreRecord
      <3> QED BY <3>1 DEF RelInv, RolloutOK
    <2>3. \A i \in DOMAIN store : Projected(store[i])
      BY <1>6 DEF Verified, RelInv, TypeInv, StoreOK, RecordOK
    <2>4. complete => \A w \in Writers : writer[w].pc \in {"supersede", "activate"} => Projected(writer[w].image)
      BY <1>3a DEF RelInv, RolloutOK
    <2>5. RolloutOK'
      BY <1>1, <2>1, <2>2, <2>3, <2>4 DEF RolloutOK
    <2> QED BY <1>1, <2>5, RolloutStep
  <1> QED BY <1>1, <1>5, <1>6

LEMMA ApplyWriteKeeps ==
  ASSUME RelInv, NEW i \in DOMAIN store, ApplyWrite(i)
  PROVE  RelInv' /\ Grows
  <1> DEFINE old == rollout.scan[i]
             s == Rewritten(store[i], old)
             put == {x \in {i} : old.evo = "pending" /\ store[i].evo # "pending"}
             a == [rollout EXCEPT !["todo"] = rollout.todo \ {i}]
             d == [a EXCEPT !["undone"] = rollout.undone \cup put]
  <1>1. /\ rollout.phase = "write" /\ i \in rollout.todo
        /\ store' = [store EXCEPT ![i] = s] /\ rollout' = d /\ UNCHANGED <<clock, writer, lock>>
    BY DEF ApplyWrite
  <1>2. /\ IsRec(rollout, RolloutFields) /\ i \in DOMAIN rollout.scan /\ ScanOK(i)
        /\ {"todo", "undone"} \subseteq RolloutFields
    BY <1>1 DEF RelInv, RolloutOK, RolloutFields
  <1>3. IsRec(a, RolloutFields) /\ a["todo"] = rollout.todo \ {i} /\ \A k \in RolloutFields \ {"todo"} : a[k] = rollout[k]
    BY <1>2, FieldSet
  <1> HIDE DEF a
  <1>4. IsRec(d, RolloutFields) /\ d["undone"] = rollout.undone \cup put /\ \A k \in RolloutFields \ {"undone"} : d[k] = a[k]
    BY <1>2, <1>3, FieldSet
  <1> HIDE DEF d
  <1>5. /\ IsRec(rollout', RolloutFields) /\ rollout'.phase = "write" /\ rollout'.scan = rollout.scan
        /\ rollout'.undone = rollout.undone \cup put /\ rollout'.before = rollout.before
        /\ rollout'.todo = rollout.todo \ {i} /\ rollout'.complete = rollout.complete
    BY <1>1, <1>3, <1>4 DEF RolloutFields
  <1>6. RecordOK(i[1], store[i]) /\ RecordOK(i[1], old)
    BY <1>2 DEF RelInv, TypeInv, StoreOK, ScanOK
  <1>7. /\ s \in StoreRecord /\ s.status = store[i].status /\ s.evo = old.evo /\ s.edges = old.edges
        /\ s.previous = old.previous /\ s.index = Project(old.edges) /\ s.updated = store[i].updated
    BY <1>6, RewrittenFacts DEF RecordOK
  <1>8. /\ s.edges = store[i].edges /\ s.previous = store[i].previous
        /\ store[i].evo = "pending" => s.evo = "pending"
    BY <1>2, <1>7 DEF ScanOK
  <1> HIDE DEF s
  <1>9. /\ DOMAIN store' = DOMAIN store /\ store'[i] = s
        /\ \A j \in DOMAIN store \ {i} : store'[j] = store[j]
    BY <1>1
  <1>10. Grows /\ \A v \in Writers : Calm(v)
    BY <1>6, <1>7, <1>8, <1>9 DEF Grows, Calm, RelInv, TypeInv, StoreOK, RecordOK, StoreRecord
  <1>11. StoreOK'
    <2>1. RecordOK(i[1], s)
      BY <1>6, <1>7, <1>8 DEF RecordOK, Projected
    <2> QED BY <1>9, <2>1 DEF StoreOK, RelInv, TypeInv
  <1>12. OneLine(store)'
    <2>1. OneLine(store)
      BY DEF RelInv, LineInv
    <2>2. \A j \in DOMAIN store : /\ store'[j].status = store[j].status
                                  /\ store'[j].previous = store[j].previous
                                  /\ store[j].evo = "pending" => store'[j].evo = "pending"
      BY <1>7, <1>8, <1>9
    <2> QED BY <1>9, <2>1, <2>2 DEF OneLine
  <1>13. \A j \in DOMAIN rollout.scan : ScanOK(j)'
    <2>1. ASSUME NEW j \in DOMAIN rollout.scan, j # i PROVE ScanOK(j)'
      <3>1. ScanOK(j) /\ j \in DOMAIN store
        BY <1>1 DEF RelInv, RolloutOK, ScanOK
      <3>2. store'[j] = store[j] /\ (j \in rollout'.undone \ rollout'.before => j \in rollout.undone \ rollout.before)
        BY <1>5, <1>9, <2>1, <3>1
      <3> QED BY <1>5, <1>9, <3>1, <3>2 DEF ScanOK
    <2>2. ScanOK(i)'
      <3>1. /\ old.updated <= s.updated
            /\ i \in rollout'.undone \ rollout'.before => old.updated < s.updated
        BY <1>2, <1>5, <1>7 DEF ScanOK
      <3> QED BY <1>5, <1>6, <1>7, <1>9, <3>1 DEF ScanOK
    <2> QED BY <2>1, <2>2
  <1>14. RolloutOK'
    <2>1. rollout.complete => \A j \in DOMAIN store' : Projected(store'[j])
      BY <1>7, <1>9 DEF RelInv, RolloutOK, Projected
    <2>2. /\ rollout'.before \subseteq rollout'.undone /\ rollout'.todo \subseteq DOMAIN rollout'.scan
          /\ rollout'.undone \ rollout'.before \subseteq DOMAIN rollout'.scan
      BY <1>1, <1>2, <1>5 DEF RelInv, RolloutOK
    <2> HIDE DEF put
    <2> QED BY <1>1, <1>5, <1>13, <2>1, <2>2 DEF RelInv, RolloutOK
  <1>15. LocksOK' /\ DOMAIN writer' = Writers /\ DOMAIN lock' = Entities /\ clock' \in Nat
    BY <1>1 DEF RelInv, TypeInv, LineInv, LocksOK, Holding
  <1> QED BY <1>1, <1>10, <1>11, <1>12, <1>14, <1>15, StoreStep

-----------------------------------------------------------------------------
\* A step that leaves the writing part alone keeps its invariant
LEMMA RolloutUntouched ==
  ASSUME RelInv, UNCHANGED <<store, clock, writer, lock, rollout>>
  PROVE  RelInv' /\ Grows
  <1>1. \A i : ScanOK(i) => ScanOK(i)'
    BY DEF ScanOK
  <1>2. RolloutOK'
    BY <1>1 DEF RelInv, RolloutOK
  <1> QED BY <1>2, RolloutStep

\* A recall writes nothing
LEMMA RecallReadsOnly ==
  ASSUME Recall
  PROVE  UNCHANGED <<store, clock, writer, lock, rollout>>
  <1>1. ASSUME NEW q, NEW at, RecallBegin(q, at)
        PROVE  UNCHANGED <<store, clock, writer, lock, rollout>>
    BY <1>1 DEF RecallBegin
  <1>2. ASSUME Ready \/ ReadSeeds \/ ReadOwners PROVE ReadOnly
    BY <1>2 DEF Ready, ReadSeeds, ReadOwners
  <1>3. ASSUME ReadHeads \/ ReadProofs PROVE ReadOnly
    BY <1>3 DEF ReadHeads, ReadProofs
  <1>4. ASSUME Hydrate \/ HydrateEpisodes PROVE ReadOnly
    BY <1>4 DEF Hydrate, HydrateEpisodes
  <1>5. ReadOnly => UNCHANGED <<store, clock, writer, lock, rollout>>
    BY DEF ReadOnly
  <1> QED BY <1>1, <1>2, <1>3, <1>4, <1>5 DEF Recall

\* The stores the system starts from satisfy the invariant of the writing part
LEMMA WritingInit == Init => RelInv
  <1> SUFFICES ASSUME Init PROVE RelInv
    OBVIOUS
  <1>1. /\ store \in InitialStores /\ clock = 1 /\ writer = [w \in Writers |-> Idle]
        /\ lock = [e \in Entities |-> None] /\ rollout = NoRollout
    BY DEF Init
  <1> HIDE DEF Idle, NoRollout
  <1>2. \A w \in Writers : writer[w] = Idle
    BY <1>1
  <1>3. TypeInv
    BY <1>1, <1>2, StoresAssumption DEF TypeInv, StoreOK, RecordOK, CallOK
  <1>4. LineInv
    BY <1>1, <1>2, StoresAssumption, IdleFacts DEF LineInv, LocksOK, Holding, KnowsOK
  <1>5. RolloutOK
    <2>1. /\ IsRec(NoRollout, RolloutFields) /\ NoRollout.phase = "idle" /\ ~NoRollout.complete
          /\ NoRollout.before = {} /\ NoRollout.undone = {}
      BY DEF NoRollout, IsRec, RolloutFields
    <2> QED BY <1>1, <2>1 DEF RolloutOK
  <1> QED BY <1>3, <1>4, <1>5 DEF RelInv

\* Every action keeps it, and takes no version and no assertion away
LEMMA WritingNext == RelInv /\ [Next]_vars => RelInv' /\ Grows
  <1> SUFFICES ASSUME RelInv, [Next]_vars PROVE RelInv' /\ Grows
    OBVIOUS
  <1>1. CASE Recall
    BY <1>1, RecallReadsOnly, RolloutUntouched
  <1>2. CASE Rollout
    BY <1>2, CheckpointBeginKeeps, CheckpointEndKeeps, ApplyScanKeeps, ApplyVerifyKeeps,
       ApplyInterruptedKeeps, ApplyWriteKeeps DEF Rollout
  <1>3. CASE Flip
    BY <1>3, FlipKeeps
  <1>4. CASE Tick
    BY <1>4, TickKeeps
  <1>5. ASSUME NEW w \in Writers, Write(w) PROVE RelInv' /\ Grows
    BY <1>5, ProposeReadKeeps, ReviewReadKeeps, ContentStoreKeeps, AdmitKeeps, EnterKeeps,
       StageKeeps, SupersedeKeeps, ActivateKeeps, CrashKeeps DEF Write
  <1>6. CASE UNCHANGED vars
    <2>1. UNCHANGED <<store, clock, writer, lock, rollout>>
      BY <1>6 DEF vars
    <2> QED BY <2>1, RolloutUntouched
  <1> QED BY <1>1, <1>2, <1>3, <1>4, <1>5, <1>6 DEF Next

(* In every reachable state each entity has one line of versions, of which at *)
(* most the last is staged and at most one is active, and the bundle of each  *)
(* is a set of assertions with distinct identities (evolution.py, models.py). *)
THEOREM Invariance == Spec => []RelInv
  BY WritingInit, WritingNext, PTL DEF Spec

(* A rollout that reported success left every record with its exact           *)
(* projection, for good, and put back no version (maintenance.py).            *)
THEOREM RolloutIsSound == Spec => []RolloutSound
  <1>1. RelInv => RolloutSound
    BY DEF RelInv, RolloutOK, RolloutSound
  <1> QED BY <1>1, Invariance, PTL

(* A version keeps its assertions from the moment it is stored, whatever      *)
(* recovery and the rollout write to it (evolution.py, maintenance.py).       *)
THEOREM AssertionsImmutable ==
  Spec => [][\A i \in DOMAIN store : i \in DOMAIN store' /\ store'[i].edges = store[i].edges]_vars
  <1>1. RelInv /\ [Next]_vars =>
          [\A i \in DOMAIN store : i \in DOMAIN store' /\ store'[i].edges = store[i].edges]_vars
    BY WritingNext DEF Grows
  <1> QED BY <1>1, WritingInit, WritingNext, PTL DEF Spec

(* No racing write takes a reviewed assertion back: it leaves the current     *)
(* version only by a reviewer who named it or stored other content            *)
(* (service.py, evolution.py: expected_previous_id and admin_review).         *)
THEOREM ReviewedIsKept == Spec => ReviewedKept
  <1>1. ASSUME RelInv, [Next]_vars, NEW w \in Writers,
               writer[w].pc = "activate", writer[w].then = "done",
               NEW x \in store[writer[w].previous].edges,
               x.status # "proposed", x \notin store'[writer[w].staged].edges
        PROVE  w \in Reviewers /\ (writer[w].expected = None \/ RelationId(writer[w].entity, x) \in writer[w].named)
    <2> DEFINE c == writer[w]
    <2>1. /\ ReadOK(c) /\ c.staged \in DOMAIN store /\ c.image.edges = store[c.staged].edges
      BY <1>1, PreviousFacts
    <2>2. AllowedOK(w)
      BY <1>1 DEF RelInv, LineInv, KnowsOK
    <2>3. store'[c.staged].edges = c.bundle
      BY <1>1, <2>1, <2>2, WritingNext DEF Grows, AllowedOK
    <2>4. x \notin c.bundle /\ w \in Reviewers
      BY <1>1, <2>2, <2>3 DEF AllowedOK
    <2> QED BY <1>1, <2>1, <2>2, <2>4 DEF AllowedOK, ReadOK
  <1>2. RelInv /\ [Next]_vars =>
     [\A w \in Writers :
       LET i == writer[w].staged  e == writer[w].entity IN
       writer[w].pc = "activate" /\ writer'[w] = Idle /\ lock'[e] = None /\ lock[e] = w
         /\ writer[w].then = "done" /\ store'[i].status = "active" =>
         \A x \in store[writer[w].previous].edges :
           x.status # "proposed" /\ x \notin store'[i].edges =>
             /\ w \in Reviewers
             /\ writer[w].expected = None \/ RelationId(e, x) \in writer[w].named]_vars
    BY <1>1
  <1> QED BY <1>2, WritingInit, WritingNext, PTL DEF Spec, ReviewedKept

-----------------------------------------------------------------------------
(***************************************************************************)
(* Reading.                                                                *)
(***************************************************************************)

\* The paths a recall holds: its frontier and the paths it completed
AccSet(D, seeds) ==
  [nodes : SUBSET Entities, edges : SUBSET RelationIds, paths : Seq(PathSet(D, seeds)),
   reasons : SUBSET Reasons, next : Seq(PathSet(D, seeds))]

\* A transition of a claim between the heads of its entities
TransitionSet(known, at, past) ==
  {t \in [from : Entities, to : DOMAIN known, step : Steps(DOMAIN known)] :
     LET anchor == Anchor(t.step.edge) IN
     /\ anchor \in DOMAIN known
     /\ IsHead(known, t.step.owner, at, past) /\ IsHead(known, anchor, at, past)
     /\ \/ t.from = t.step.owner[1] /\ t.to = anchor
        \/ t.from = anchor[1] /\ t.to = t.step.owner}

\* The values of a finite function are finitely many
LEMMA RangeFinite ==
  ASSUME NEW f, IsFiniteSet(DOMAIN f)
  PROVE  IsFiniteSet({f[x] : x \in DOMAIN f})
  <1> DEFINE T == {f[x] : x \in DOMAIN f}
             g == [x \in DOMAIN f |-> f[x]]
  <1>1. g \in Surjection(DOMAIN f, T)
    BY DEF Surjection
  <1> HIDE DEF g, T
  <1>2. IsFiniteSet(T)
    BY <1>1, FS_Surjection
  <1> QED BY <1>2 DEF T

\* The elements of a sequence, before and after one is appended
LEMMA ToSetFacts ==
  ASSUME NEW T, NEW s \in Seq(T)
  PROVE  /\ ToSet(s) \subseteq T /\ IsFiniteSet(ToSet(s))
         /\ \A x \in T : ToSet(Append(s, x)) = ToSet(s) \cup {x}
         /\ s # <<>> => Last(s) \in ToSet(s) /\ s[1] \in ToSet(s)
         /\ \A x \in T : Append(s, x) # <<>> /\ Last(Append(s, x)) = x
                          /\ (s # <<>> => Append(s, x)[1] = s[1])
  <1>0. Len(s) \in Nat /\ DOMAIN s = 1..Len(s) /\ \A k \in 1..Len(s) : s[k] \in T
    OBVIOUS
  <1>1. ToSet(s) = {s[k] : k \in 1..Len(s)}
    BY <1>0 DEF ToSet
  <1>2. IsFiniteSet(1..Len(s))
    <2>1. 1 \in Int /\ Len(s) \in Int
      BY <1>0
    <2> QED BY <2>1, FS_Interval
  <1>3. IsFiniteSet(ToSet(s))
    BY <1>0, <1>1, <1>2, RangeFinite
  <1>4. ASSUME NEW x \in T
        PROVE  /\ ToSet(Append(s, x)) = ToSet(s) \cup {x}
               /\ Append(s, x) # <<>> /\ Last(Append(s, x)) = x /\ (s # <<>> => Append(s, x)[1] = s[1])
    <2>1. /\ Append(s, x) \in Seq(T) /\ Len(Append(s, x)) = Len(s) + 1
          /\ DOMAIN Append(s, x) = 1..(Len(s) + 1)
          /\ \A k \in 1..Len(s) : Append(s, x)[k] = s[k]
          /\ Append(s, x)[Len(s) + 1] = x
      OBVIOUS
    <2>2. ToSet(Append(s, x)) = {Append(s, x)[k] : k \in 1..(Len(s) + 1)}
      BY <2>1 DEF ToSet
    <2>3. 1..(Len(s) + 1) = 1..Len(s) \cup {Len(s) + 1}
      BY <1>0
    <2>4. ToSet(Append(s, x)) = ToSet(s) \cup {x}
      BY <1>1, <2>1, <2>2, <2>3
    <2>5. s # <<>> => 1 \in 1..Len(s)
      OBVIOUS
    <2>6. Append(s, x) # <<>> /\ Last(Append(s, x)) = x
      BY <1>0, <2>1 DEF Last
    <2>7. s # <<>> => Append(s, x)[1] = s[1]
      BY <2>1, <2>5
    <2> QED BY <2>4, <2>6, <2>7
  <1>5. s # <<>> => Last(s) \in ToSet(s) /\ s[1] \in ToSet(s)
    <2> HAVE s # <<>>
    <2>1. 1 \in 1..Len(s) /\ Len(s) \in 1..Len(s)
      OBVIOUS
    <2> QED BY <1>1, <2>1 DEF Last
  <1> QED BY <1>0, <1>1, <1>3, <1>4, <1>5

LEMMA AppendFacts ==
  ASSUME NEW T, NEW s \in Seq(T), NEW x \in T
  PROVE  LET r == Append(s, x) IN
         /\ r \in Seq(T) /\ r # <<>> /\ Last(r) = x /\ ToSet(r) = ToSet(s) \cup {x}
         /\ s # <<>> => r[1] = s[1]
  BY ToSetFacts

\* The empty path of a seed is a path
LEMMA SeedInPaths ==
  ASSUME NEW D \in SUBSET RecordIds, NEW seeds, NEW i \in D, i \in seeds
  PROVE  Seed(i) \in PathSet(D, seeds)
  <1>1. i[1] \in Entities
    BY DEF RecordIds
  <1>2. /\ <<i[1]>> \in Seq(Entities) /\ <<i>> \in Seq(D) /\ <<>> \in Seq(Steps(D))
        /\ <<i[1]>> # <<>> /\ <<i>> # <<>> /\ <<i>>[1] = i /\ Last(<<i[1]>>) = i[1] /\ Last(<<i>>) = i
        /\ DOMAIN <<>> = {}
    BY <1>1 DEF Last
  <1> QED BY <1>2 DEF Seed, PathSet

\* A path extended by a transition from its last entity is a path
LEMMA ExtendedInPaths ==
  ASSUME NEW known, DOMAIN known \subseteq RecordIds, NEW D, DOMAIN known \subseteq D, D \subseteq RecordIds,
         NEW seeds, NEW at, NEW past,
         NEW path \in PathSet(D, seeds), IsHead(known, Last(path.recs), at, past),
         NEW t \in TransitionSet(known, at, past), t.from = Ends(path)
  PROVE  Extended(path, t) \in PathSet(D, seeds)
  <1> DEFINE q == Extended(path, t)
             o == t.step.owner
             an == Anchor(t.step.edge)
  <1>1. /\ path.nodes \in Seq(Entities) /\ path.recs \in Seq(D) /\ path.steps \in Seq(Steps(D))
        /\ path.nodes # <<>> /\ path.recs # <<>> /\ path.recs[1] \in seeds
        /\ Last(path.nodes) = Last(path.recs)[1]
        /\ \A n \in DOMAIN path.steps : path.steps[n].owner \in ToSet(path.recs)
                                        /\ Anchor(path.steps[n].edge) \in ToSet(path.recs)
    BY DEF PathSet
  <1>2. /\ t.from \in Entities /\ t.to \in DOMAIN known /\ t.step \in Steps(DOMAIN known)
        /\ o \in DOMAIN known /\ an \in DOMAIN known
        /\ IsHead(known, o, at, past) /\ IsHead(known, an, at, past)
        /\ \/ t.from = o[1] /\ t.to = an
           \/ t.from = an[1] /\ t.to = o
    BY DEF TransitionSet, Steps
  <1>3. /\ q.nodes = Append(path.nodes, t.to[1]) /\ q.recs = Append(path.recs, t.to)
        /\ q.steps = Append(path.steps, t.step)
        /\ q = [nodes |-> q.nodes, recs |-> q.recs, steps |-> q.steps]
    BY DEF Extended
  <1>4. t.to \in D /\ t.to[1] \in Entities /\ t.step \in Steps(D)
    BY <1>2 DEF RecordIds, Steps
  <1> HIDE DEF q
  <1>5. q.nodes \in Seq(Entities) /\ q.recs \in Seq(D) /\ q.steps \in Seq(Steps(D))
    BY <1>1, <1>3, <1>4
  <1>6. /\ q.nodes # <<>> /\ q.recs # <<>> /\ q.recs[1] \in seeds
        /\ Last(q.nodes) = Last(q.recs)[1] /\ ToSet(q.recs) = ToSet(path.recs) \cup {t.to}
    <2>1. Last(q.nodes) = t.to[1] /\ q.nodes # <<>>
      <3>1. path.nodes \in Seq(Entities) /\ t.to[1] \in Entities /\ q.nodes = Append(path.nodes, t.to[1])
        BY <1>1, <1>3, <1>4
      <3>2. LET r == Append(path.nodes, t.to[1]) IN Last(r) = t.to[1] /\ r # <<>>
        BY <3>1, AppendFacts
      <3> QED BY <3>1, <3>2
    <2>2. /\ q.recs # <<>> /\ q.recs[1] = path.recs[1] /\ Last(q.recs) = t.to
          /\ ToSet(q.recs) = ToSet(path.recs) \cup {t.to}
      <3>1. path.recs \in Seq(D) /\ t.to \in D /\ q.recs = Append(path.recs, t.to) /\ path.recs # <<>>
        BY <1>1, <1>3, <1>4
      <3>2. LET r == Append(path.recs, t.to) IN
             r # <<>> /\ r[1] = path.recs[1] /\ Last(r) = t.to /\ ToSet(r) = ToSet(path.recs) \cup {t.to}
        BY <3>1, AppendFacts
      <3> QED BY <3>1, <3>2
    <2> QED BY <1>1, <2>1, <2>2
  <1>7. Last(path.recs) \in ToSet(path.recs)
    BY <1>1, ToSetFacts
  <1>8. \A x, y : IsHead(known, x, at, past) /\ IsHead(known, y, at, past) /\ x[1] = y[1] => x = y
    BY DEF IsHead
  <1>9. o \in ToSet(q.recs) /\ an \in ToSet(q.recs)
    BY <1>1, <1>2, <1>6, <1>7, <1>8 DEF Ends
  <1>10. ASSUME NEW n \in DOMAIN q.steps
         PROVE  q.steps[n].owner \in ToSet(q.recs) /\ Anchor(q.steps[n].edge) \in ToSet(q.recs)
    <2>1. n \in 1..(Len(path.steps) + 1) /\ DOMAIN path.steps = 1..Len(path.steps) /\ Len(path.steps) \in Nat
      BY <1>1, <1>3, <1>4, <1>10
    <2>2. CASE n \in 1..Len(path.steps)
      <3>1. q.steps[n] = path.steps[n]
        BY <1>1, <1>3, <1>4, <2>2
      <3> QED BY <1>1, <1>6, <2>1, <2>2, <3>1
    <2>3. CASE n = Len(path.steps) + 1
      <3>1. q.steps[n] = t.step
        BY <1>1, <1>3, <1>4, <2>3
      <3> QED BY <1>9, <3>1
    <2> QED BY <2>1, <2>2, <2>3
  <1>11. q \in [nodes : Seq(Entities), recs : Seq(D), steps : Seq(Steps(D))]
    BY <1>3, <1>5
  <1> QED BY <1>6, <1>10, <1>11 DEF PathSet, q

\* Some listing of a finite set exists, whatever order it has
LEMMA SetToSeqTyped ==
  ASSUME NEW S, IsFiniteSet(S)
  PROVE  SetToSeq(S) \in Seq(S)
  <1> DEFINE n == Cardinality(S)
  <1>1. n \in Nat /\ ExistsBijection(1..n, S)
    BY FS_CardinalityType
  <1> HIDE DEF n
  <1>2. PICK f \in Bijection(1..n, S) : TRUE
    BY <1>1 DEF ExistsBijection
  <1>3. f \in [1..n -> S] /\ IsInjective(f)
    BY <1>2 DEF Bijection, Injection, IsInjective
  <1>4. SetToSeq(S) \in [1..n -> S]
    BY <1>3 DEF SetToSeq, n
  <1> QED BY <1>1, <1>4

\* The transitions of a claim connect heads
LEMMA TransitionsTyped ==
  ASSUME NEW known, DOMAIN known \subseteq RecordIds, NEW shown, NEW p,
         NEW c, c[2] \in Edges, Holds(known, shown, c)
  PROVE  /\ Transitions(p, c) \subseteq TransitionSet(known, recall.at, Policy(recall.req).past)
         /\ IsFiniteSet(Transitions(p, c))
  <1> DEFINE at == recall.at
             past == Policy(recall.req).past
             x == c[2]
             out == [from |-> c[1][1], to |-> <<x.target, x.anchor>>, step |-> [owner |-> c[1], edge |-> x, dir |-> "out"]]
             in == [from |-> x.target, to |-> c[1], step |-> [owner |-> c[1], edge |-> x, dir |-> "in"]]
  <1>1. /\ IsHead(known, c[1], at, past) /\ Anchor(x) \in DOMAIN known
        /\ IsHead(known, Anchor(x), at, past)
    BY DEF Holds, Anchor
  <1>2. c[1] \in DOMAIN known /\ c[1][1] \in Entities /\ x.target \in Entities
    <2>1. c[1] \in HeadsOf(known, c[1][1], at, past)
      BY <1>1 DEF IsHead
    <2>2. c[1] \in DOMAIN known
      BY <2>1 DEF HeadsOf
    <2> QED BY <2>2 DEF RecordIds, Edges
  <1>3. Transitions(p, c) \subseteq {out, in}
    BY DEF Transitions
  <1> HIDE DEF at, past
  <1>4. {out, in} \subseteq TransitionSet(known, at, past)
    BY <1>1, <1>2 DEF TransitionSet, Steps, Anchor
  <1> HIDE DEF out, in
  <1>5. IsFiniteSet({out, in})
    <2>1. {out, in} = {out} \cup {in} /\ IsFiniteSet({out})
      BY FS_Singleton
    <2> QED BY <2>1, FS_AddElement
  <1>6. IsFiniteSet(Transitions(p, c))
    BY <1>3, <1>5, FS_Subset
  <1> QED BY <1>3, <1>4, <1>6 DEF at, past

LEMMA RelationIdTyped ==
  ASSUME NEW e \in Entities, NEW x \in Edges
  PROVE  RelationId(e, x) \in RelationIds
  <1>1. x.kind \in Kinds /\ x.target \in Entities
    BY DEF Edges
  <1> QED BY <1>1 DEF RelationId, RelationIds

\* One transition, all those of a path, and all paths of a level stay within AccSet
LEMMA TakeTyped ==
  ASSUME NEW known, DOMAIN known \subseteq RecordIds, NEW D, DOMAIN known \subseteq D, D \subseteq RecordIds,
         NEW seeds,
         NEW path \in PathSet(D, seeds), IsHead(known, Last(path.recs), recall.at, Policy(recall.req).past),
         NEW t \in TransitionSet(known, recall.at, Policy(recall.req).past), t.from = Ends(path),
         NEW acc \in AccSet(D, seeds)
  PROVE  Take(acc, path, t) \in AccSet(D, seeds)
  <1> DEFINE rel == RelationId(t.step.owner[1], t.step.edge)
             q == Extended(path, t)
             p == Policy(recall.req)
             full == CASE t.to[1] \notin acc.nodes /\ Cardinality(acc.nodes) >= p.nodes -> {"nodes"}
                [] rel \notin acc.edges /\ Cardinality(acc.edges) >= p.edges -> {"edges"}
                [] Len(acc.paths) >= p.paths -> {"paths"}
                [] OTHER -> {}
  <1>1. q \in PathSet(D, seeds)
    BY ExtendedInPaths
  <1>2. t.to[1] \in Entities /\ rel \in RelationIds
    <2>1. t.to \in DOMAIN known /\ t.step.owner \in DOMAIN known /\ t.step.edge \in Edges
      BY DEF TransitionSet, Steps
    <2>2. t.to[1] \in Entities /\ t.step.owner[1] \in Entities
      BY <2>1 DEF RecordIds
    <2> QED BY <2>1, <2>2, RelationIdTyped
  <1>3. full \in SUBSET Reasons
    <2> HIDE DEF rel, p
    <2> QED BY DEF Reasons
  <1>4. Take(acc, path, t) \in {acc, [acc EXCEPT !.reasons = acc.reasons \cup full],
              [nodes |-> acc.nodes \cup {t.to[1]}, edges |-> acc.edges \cup {rel},
               paths |-> Append(acc.paths, q), reasons |-> acc.reasons, next |-> Append(acc.next, q)]}
    BY DEF Take
  <1> HIDE DEF q, rel, full, p
  <1>5. [acc EXCEPT !.reasons = acc.reasons \cup full] \in AccSet(D, seeds)
    BY <1>3 DEF AccSet
  <1>6. [nodes |-> acc.nodes \cup {t.to[1]}, edges |-> acc.edges \cup {rel},
         paths |-> Append(acc.paths, q), reasons |-> acc.reasons, next |-> Append(acc.next, q)]
          \in AccSet(D, seeds)
    BY <1>1, <1>2 DEF AccSet
  <1> QED BY <1>4, <1>5, <1>6

LEMMA TakeAllTyped ==
  ASSUME NEW known, DOMAIN known \subseteq RecordIds, NEW D, DOMAIN known \subseteq D, D \subseteq RecordIds,
         NEW seeds,
         NEW path \in PathSet(D, seeds), IsHead(known, Last(path.recs), recall.at, Policy(recall.req).past),
         NEW steps \in SUBSET TransitionSet(known, recall.at, Policy(recall.req).past), IsFiniteSet(steps),
         \A t \in steps : t.from = Ends(path),
         NEW acc \in AccSet(D, seeds)
  PROVE  TakeAll(acc, path, steps) \in AccSet(D, seeds)
  <1> DEFINE seq == SetToSeq(steps)
             A == AccSet(D, seeds)
             iter[S \in SUBSET (DOMAIN seq)] ==
               IF S = {} THEN acc ELSE LET k == Max(S) IN Take(iter[S \ {k}], path, seq[k])
             n == Len(seq)
             G == [p \in (1..n) \X A |-> Take(p[2], path, seq[p[1]])]
  <1>1. TakeAll(acc, path, steps) = iter[DOMAIN seq]
    BY DEF TakeAll, FoldLeft, MapThenFoldSet
  <1>2. n \in Nat /\ DOMAIN seq = 1..n /\ \A k \in 1..n : seq[k] \in steps
    BY SetToSeqTyped
  <1>3. G \in [(1..n) \X A -> A] /\ \A k \in 1..n, a \in A : G[<<k, a>>] = Take(a, path, seq[k])
    <2>1. ASSUME NEW k \in 1..n, NEW a \in A PROVE Take(a, path, seq[k]) \in A
      BY <1>2, TakeTyped
    <2> HIDE DEF A, seq, n
    <2> QED BY <2>1
  <1> HIDE DEF n, G, iter, seq, A
  <1>4. PICK it : FoldsTo(it, n, A, acc, G)
    BY <1>2, <1>3, FoldExists DEF A
  <1>5. it = [S \in SUBSET (DOMAIN seq) |->
                IF S = {} THEN acc ELSE LET k == Max(S) IN Take(it[S \ {k}], path, seq[k])]
    <2>1. /\ it \in [SUBSET (1..n) -> A]
          /\ \A S \in SUBSET (1..n) : it[S] = IF S = {} THEN acc ELSE G[<<Max(S), it[S \ {Max(S)}]>>]
      BY <1>4 DEF FoldsTo
    <2>2. ASSUME NEW S \in SUBSET (1..n), S # {}
          PROVE  G[<<Max(S), it[S \ {Max(S)}]>>] = Take(it[S \ {Max(S)}], path, seq[Max(S)])
      <3>1. Max(S) \in 1..n /\ S \ {Max(S)} \in SUBSET (1..n)
        BY <1>2, <2>2, SmallerSet
      <3> QED BY <1>3, <2>1, <3>1
    <2> QED BY <1>2, <2>1, <2>2
  <1>6. iter = [S \in SUBSET (DOMAIN seq) |->
                IF S = {} THEN acc ELSE LET k == Max(S) IN Take(iter[S \ {k}], path, seq[k])]
    <2>1. iter = CHOOSE g : g = [S \in SUBSET (DOMAIN seq) |->
                IF S = {} THEN acc ELSE LET k == Max(S) IN Take(g[S \ {k}], path, seq[k])]
      BY DEF iter
    <2> QED BY <1>5, <2>1
  <1>7. ASSUME NEW S \in SUBSET (1..n), S # {}, iter[S \ {Max(S)}] \in A
        PROVE  iter[S] \in A
    <2>1. Max(S) \in 1..n /\ iter[S] = Take(iter[S \ {Max(S)}], path, seq[Max(S)])
      BY <1>2, <1>6, <1>7, SmallerSet
    <2> QED BY <1>2, <1>7, <2>1, TakeTyped DEF A
  <1>8. iter[{}] \in A
    BY <1>6 DEF A
  <1>9. \A S \in SUBSET (1..n) : iter[S] \in A
    BY <1>2, <1>7, <1>8, FoldTyped
  <1> QED BY <1>1, <1>2, <1>9 DEF A

LEMMA FromPathTyped ==
  ASSUME NEW known, DOMAIN known \subseteq RecordIds, NEW D, DOMAIN known \subseteq D, D \subseteq RecordIds,
         NEW seeds, NEW path \in PathSet(D, seeds),
         NEW steps \in SUBSET TransitionSet(known, recall.at, Policy(recall.req).past), IsFiniteSet(steps),
         NEW acc \in AccSet(D, seeds)
  PROVE  FromPath(acc, path, known, steps) \in AccSet(D, seeds)
  <1> DEFINE on == {t \in steps : t.from = Ends(path)}
  <1>1. on \in SUBSET steps /\ \A t \in on : t.from = Ends(path)
    OBVIOUS
  <1>2. FromPath(acc, path, known, steps) =
          IF ~IsHead(known, Last(path.recs), recall.at, Policy(recall.req).past) THEN acc
          ELSE TakeAll(acc, path, on)
    BY DEF FromPath
  <1> HIDE DEF on
  <1>3. IsFiniteSet(on)
    BY <1>1, FS_Subset
  <1>4. on \in SUBSET TransitionSet(known, recall.at, Policy(recall.req).past)
    BY <1>1
  <1>5. CASE IsHead(known, Last(path.recs), recall.at, Policy(recall.req).past)
    <2>1. TakeAll(acc, path, on) \in AccSet(D, seeds)
      BY <1>1, <1>3, <1>4, <1>5, TakeAllTyped
    <2> QED BY <1>2, <1>5, <2>1
  <1>6. CASE ~IsHead(known, Last(path.recs), recall.at, Policy(recall.req).past)
    BY <1>2, <1>6
  <1> QED BY <1>5, <1>6

\* What a level adds are paths again, whatever the budgets cut off
LEMMA ExpandedTyped ==
  ASSUME NEW known, DOMAIN known \subseteq RecordIds, NEW D, DOMAIN known \subseteq D, D \subseteq RecordIds,
         NEW seeds, NEW shown,
         recall.frontier \in Seq(PathSet(D, seeds)), recall.paths \in Seq(PathSet(D, seeds)),
         recall.nodes \in SUBSET Entities, recall.edges \in SUBSET RelationIds,
         recall.reasons \in SUBSET Reasons,
         IsFiniteSet(recall.claims), \A c \in recall.claims : c[2] \in Edges
  PROVE  Expanded(known, shown) \in AccSet(D, seeds)
  <1> DEFINE claims == {d \in recall.claims : Holds(known, shown, d)}
             tr == [c \in claims |-> Transitions(Policy(recall.req), c)]
             steps == UNION {Transitions(Policy(recall.req), c) : c \in claims}
             base == [nodes |-> recall.nodes, edges |-> recall.edges, paths |-> recall.paths,
                      reasons |-> recall.reasons, next |-> <<>>]
             seq == recall.frontier
             A == AccSet(D, seeds)
             iter[S \in SUBSET (DOMAIN seq)] ==
               IF S = {} THEN base ELSE LET k == Max(S) IN FromPath(iter[S \ {k}], seq[k], known, steps)
             n == Len(seq)
             G == [p \in (1..n) \X A |-> FromPath(p[2], seq[p[1]], known, steps)]
  <1>1. Expanded(known, shown) = iter[DOMAIN seq]
    BY DEF Expanded, FoldLeft, MapThenFoldSet
  <1>2. n \in Nat /\ DOMAIN seq = 1..n /\ \A k \in 1..n : seq[k] \in PathSet(D, seeds)
    OBVIOUS
  <1>2a. base \in A
    BY DEF AccSet
  <1>2b. steps \in SUBSET TransitionSet(known, recall.at, Policy(recall.req).past) /\ IsFiniteSet(steps)
    <2>1. claims \in SUBSET recall.claims /\ \A d \in claims : Holds(known, shown, d) /\ d[2] \in Edges
      OBVIOUS
    <2>2. DOMAIN tr = claims /\ \A c \in claims : tr[c] = Transitions(Policy(recall.req), c)
      OBVIOUS
    <2>3. steps = UNION {tr[c] : c \in claims}
      BY <2>2
    <2> HIDE DEF claims, tr, steps
    <2>4. \A c \in claims : /\ tr[c] \subseteq TransitionSet(known, recall.at, Policy(recall.req).past)
                            /\ IsFiniteSet(tr[c])
      BY <2>1, <2>2, TransitionsTyped
    <2>5. IsFiniteSet(claims)
      BY <2>1, FS_Subset
    <2>6. IsFiniteSet({tr[c] : c \in claims})
      BY <2>2, <2>5, RangeFinite
    <2>7. \A T \in {tr[c] : c \in claims} : IsFiniteSet(T)
      BY <2>4
    <2>8. IsFiniteSet(steps)
      BY <2>3, <2>6, <2>7, FS_UNION
    <2> QED BY <2>3, <2>4, <2>8
  <1> HIDE DEF steps, base
  <1>2c. \A k \in 1..n, a \in A : FromPath(a, seq[k], known, steps) \in A
    BY <1>2, <1>2b, FromPathTyped
  <1>3. G \in [(1..n) \X A -> A] /\ \A k \in 1..n, a \in A : G[<<k, a>>] = FromPath(a, seq[k], known, steps)
    <2> HIDE DEF A, seq, n
    <2> QED BY <1>2c
  <1> HIDE DEF n, G, iter, seq, A
  <1>4. PICK it : FoldsTo(it, n, A, base, G)
    BY <1>2, <1>2a, <1>3, FoldExists
  <1>5. it = [S \in SUBSET (DOMAIN seq) |->
                IF S = {} THEN base ELSE LET k == Max(S) IN FromPath(it[S \ {k}], seq[k], known, steps)]
    <2>1. /\ it \in [SUBSET (1..n) -> A]
          /\ \A S \in SUBSET (1..n) : it[S] = IF S = {} THEN base ELSE G[<<Max(S), it[S \ {Max(S)}]>>]
      BY <1>4 DEF FoldsTo
    <2>2. ASSUME NEW S \in SUBSET (1..n), S # {}
          PROVE  G[<<Max(S), it[S \ {Max(S)}]>>] = FromPath(it[S \ {Max(S)}], seq[Max(S)], known, steps)
      <3>1. Max(S) \in 1..n /\ S \ {Max(S)} \in SUBSET (1..n)
        BY <1>2, <2>2, SmallerSet
      <3> QED BY <1>3, <2>1, <3>1
    <2> QED BY <1>2, <2>1, <2>2
  <1>6. iter = [S \in SUBSET (DOMAIN seq) |->
                IF S = {} THEN base ELSE LET k == Max(S) IN FromPath(iter[S \ {k}], seq[k], known, steps)]
    <2>1. iter = CHOOSE g : g = [S \in SUBSET (DOMAIN seq) |->
                IF S = {} THEN base ELSE LET k == Max(S) IN FromPath(g[S \ {k}], seq[k], known, steps)]
      BY DEF iter
    <2> QED BY <1>5, <2>1
  <1>7. ASSUME NEW S \in SUBSET (1..n), S # {}, iter[S \ {Max(S)}] \in A
        PROVE  iter[S] \in A
    <2>1. Max(S) \in 1..n /\ iter[S] = FromPath(iter[S \ {Max(S)}], seq[Max(S)], known, steps)
      BY <1>2, <1>6, <1>7, SmallerSet
    <2> QED BY <1>2c, <1>7, <2>1
  <1>8. iter[{}] \in A
    BY <1>2a, <1>6
  <1>9. \A S \in SUBSET (1..n) : iter[S] \in A
    BY <1>2, <1>7, <1>8, FoldTyped
  <1> QED BY <1>1, <1>2, <1>9 DEF A

Refs(D) == D \cup Episodes \cup (Entities \X Nat)

\* What packing keeps: whole paths that were valid when their records were read
PackSet(P, D, known, shown, at, past) ==
  {acc \in [paths : Seq(P), records : SUBSET Refs(D), reasons : SUBSET Reasons] :
     \A path \in ToSet(acc.paths) :
       Revalidated(path, known, shown, at, past) /\ PathRefs(path) \subseteq acc.records}

\* What a dream takes: items of whole paths, within the limit
KeepSet(D, seeds, paths) ==
  {acc \in SUBSET Refs(D) :
     /\ IsFiniteSet(acc) /\ Cardinality(acc) <= DreamLimit
     /\ \A i \in acc : \E path \in paths : i \in PathRefs(path) /\ PathRefs(path) \subseteq acc \cup seeds}

\* The records and episodes a path names
LEMMA PathRefsTyped ==
  ASSUME NEW D, NEW seeds, NEW path \in PathSet(D, seeds)
  PROVE  /\ PathRefs(path) = ToSet(path.recs) \cup PathProofs(path)
         /\ PathRefs(path) \subseteq Refs(D) /\ IsFiniteSet(PathRefs(path))
  <1>1. /\ path.recs \in Seq(D) /\ path.steps \in Seq(Steps(D))
        /\ \A n \in DOMAIN path.steps : path.steps[n].owner \in ToSet(path.recs)
    BY DEF PathSet
  <1>2. PathRefs(path) = ToSet(path.recs) \cup PathProofs(path)
    BY <1>1 DEF PathRefs
  <1>3. ToSet(path.recs) \subseteq D /\ IsFiniteSet(ToSet(path.recs))
    BY <1>1, ToSetFacts
  <1> DEFINE n == Len(path.steps)
             f == [k \in 1..n |-> path.steps[k].edge.proof]
  <1>4. n \in Nat /\ DOMAIN path.steps = 1..n /\ \A k \in 1..n : path.steps[k] \in Steps(D)
    BY <1>1
  <1>5. PathProofs(path) = {f[k] : k \in DOMAIN f}
    BY <1>4 DEF PathProofs
  <1>6. \A k \in 1..n : f[k] \in Refs(D)
    BY <1>4 DEF Steps, Edges, Refs
  <1>6a. DOMAIN f = 1..n
    OBVIOUS
  <1> HIDE DEF f, n
  <1>7. PathProofs(path) \subseteq Refs(D)
    BY <1>5, <1>6, <1>6a
  <1>8. IsFiniteSet(DOMAIN f)
    <2>1. 1 \in Int /\ n \in Int
      BY <1>4
    <2> QED BY <1>6a, <2>1, FS_Interval
  <1>9. IsFiniteSet(PathProofs(path))
    BY <1>5, <1>8, RangeFinite
  <1> QED BY <1>2, <1>3, <1>7, <1>9, FS_Union DEF Refs

\* Packing keeps whole paths and the references they need
LEMMA PackTyped ==
  ASSUME NEW D, NEW seeds, NEW known, NEW shown, NEW at, NEW p,
         NEW P \in SUBSET PathSet(D, seeds), NEW path \in P, NEW acc \in PackSet(P, D, known, shown, at, p.past)
  PROVE  Pack(acc, path, known, shown, at, p) \in PackSet(P, D, known, shown, at, p.past)
  <1> DEFINE A == PackSet(P, D, known, shown, at, p.past)
             records == acc.records \cup PathRefs(path)
             q == Append(acc.paths, path)
             next == [paths |-> q, records |-> records, reasons |-> acc.reasons]
  <1>1. /\ acc \in [paths : Seq(P), records : SUBSET Refs(D), reasons : SUBSET Reasons]
        /\ \A y \in ToSet(acc.paths) : Revalidated(y, known, shown, at, p.past) /\ PathRefs(y) \subseteq acc.records
    BY DEF PackSet
  <1>2. \A r \in {"revalidation", "context_tokens"} : [acc EXCEPT !.reasons = acc.reasons \cup {r}] \in A
    <2>1. ASSUME NEW r \in Reasons PROVE [acc EXCEPT !.reasons = acc.reasons \cup {r}] \in A
      <3> DEFINE d == [acc EXCEPT !.reasons = acc.reasons \cup {r}]
      <3>1. /\ d \in [paths : Seq(P), records : SUBSET Refs(D), reasons : SUBSET Reasons]
            /\ d.paths = acc.paths /\ d.records = acc.records
        BY <1>1
      <3> HIDE DEF d
      <3>2. d \in A
        BY <1>1, <3>1 DEF PackSet
      <3> QED BY <3>2 DEF d
    <2> QED BY <2>1 DEF Reasons
  <1>3. CASE Revalidated(path, known, shown, at, p.past)
    <2>1. q \in Seq(P) /\ ToSet(q) = ToSet(acc.paths) \cup {path}
      BY <1>1, AppendFacts
    <2>2. records \in SUBSET Refs(D) /\ acc.records \subseteq records /\ PathRefs(path) \subseteq records
      BY <1>1, PathRefsTyped
    <2> HIDE DEF q, records
    <2>3. next \in A
      BY <1>1, <1>3, <2>1, <2>2 DEF PackSet
    <2>4. Pack(acc, path, known, shown, at, p) \in {next, [acc EXCEPT !.reasons = acc.reasons \cup {"context_tokens"}]}
      BY <1>3 DEF Pack, q, records
    <2> HIDE DEF next
    <2> QED BY <1>2, <2>3, <2>4
  <1>4. CASE ~Revalidated(path, known, shown, at, p.past)
    <2>1. Pack(acc, path, known, shown, at, p) = [acc EXCEPT !.reasons = acc.reasons \cup {"revalidation"}]
      BY <1>4 DEF Pack
    <2> QED BY <1>2, <2>1
  <1> QED BY <1>3, <1>4

\* A dream keeps whole paths too
LEMMA KeepTyped ==
  ASSUME NEW D, NEW seeds, NEW paths \in SUBSET PathSet(D, seeds), NEW path \in paths,
         NEW acc \in KeepSet(D, seeds, paths)
  PROVE  Keep(acc, path, seeds) \in KeepSet(D, seeds, paths)
  <1> DEFINE items == (acc \cup ToSet(path.recs) \cup PathProofs(path)) \ seeds
  <1>1. /\ PathRefs(path) = ToSet(path.recs) \cup PathProofs(path)
        /\ PathRefs(path) \subseteq Refs(D) /\ IsFiniteSet(PathRefs(path))
    BY PathRefsTyped
  <1>2. /\ acc \in SUBSET Refs(D) /\ IsFiniteSet(acc) /\ Cardinality(acc) <= DreamLimit
        /\ \A i \in acc : \E y \in paths : i \in PathRefs(y) /\ PathRefs(y) \subseteq acc \cup seeds
    BY DEF KeepSet
  <1>3. items = (acc \cup PathRefs(path)) \ seeds
    BY <1>1
  <1>4. Keep(acc, path, seeds) = IF Cardinality(items) > DreamLimit THEN acc ELSE items
    BY DEF Keep
  <1> HIDE DEF items
  <1>5. IsFiniteSet(items) /\ Cardinality(items) \in Nat
    <2>1. IsFiniteSet(acc \cup PathRefs(path))
      BY <1>1, <1>2, FS_Union
    <2>2. items \in SUBSET (acc \cup PathRefs(path))
      BY <1>3
    <2>3. IsFiniteSet(items)
      BY <2>1, <2>2, FS_Subset
    <2> QED BY <2>3, FS_CardinalityType
  <1>6. \A i \in items : \E y \in paths : i \in PathRefs(y) /\ PathRefs(y) \subseteq items \cup seeds
    <2>1. acc \cup PathRefs(path) \subseteq items \cup seeds
      BY <1>3
    <2>2. ASSUME NEW i \in acc PROVE \E y \in paths : i \in PathRefs(y) /\ PathRefs(y) \subseteq items \cup seeds
      BY <1>2, <2>1
    <2>3. ASSUME NEW i \in PathRefs(path)
          PROVE  \E y \in paths : i \in PathRefs(y) /\ PathRefs(y) \subseteq items \cup seeds
      BY <2>1
    <2> QED BY <1>3, <2>2, <2>3
  <1>7. items \in SUBSET Refs(D)
    BY <1>1, <1>2, <1>3
  <1>8. CASE Cardinality(items) > DreamLimit
    BY <1>4, <1>8
  <1>9. CASE ~(Cardinality(items) > DreamLimit)
    <2>1. Cardinality(items) <= DreamLimit
      BY <1>5, <1>9, RelationAssumption
    <2> QED BY <1>4, <1>5, <1>6, <1>7, <1>9, <2>1 DEF KeepSet
  <1> QED BY <1>8, <1>9

LEMMA PackedTyped ==
  ASSUME NEW D, NEW seeds, NEW known, NEW shown, NEW at, NEW p, NEW seq \in Seq(PathSet(D, seeds))
  PROVE  Packed(seq, known, shown, at, p) \in PackSet(ToSet(seq), D, known, shown, at, p.past)
  <1> DEFINE A == PackSet(ToSet(seq), D, known, shown, at, p.past)
             base == [paths |-> <<>>, records |-> {}, reasons |-> {}]
             iter[S \in SUBSET (DOMAIN seq)] ==
               IF S = {} THEN base ELSE LET k == Max(S) IN Pack(iter[S \ {k}], seq[k], known, shown, at, p)
             n == Len(seq)
             G == [x \in (1..n) \X A |-> Pack(x[2], seq[x[1]], known, shown, at, p)]
  <1>1. Packed(seq, known, shown, at, p) = iter[DOMAIN seq]
    BY DEF Packed, FoldLeft, MapThenFoldSet
  <1>2. n \in Nat /\ DOMAIN seq = 1..n /\ \A k \in 1..n : seq[k] \in ToSet(seq)
    BY DEF ToSet
  <1>2b. ToSet(seq) \in SUBSET PathSet(D, seeds)
    BY ToSetFacts
  <1>2a. base \in A
    BY DEF PackSet, ToSet
  <1> HIDE DEF base
  <1>2c. \A k \in 1..n, a \in A : Pack(a, seq[k], known, shown, at, p) \in A
    BY <1>2, <1>2b, PackTyped
  <1>3. G \in [(1..n) \X A -> A] /\ \A k \in 1..n, a \in A : G[<<k, a>>] = Pack(a, seq[k], known, shown, at, p)
    <2> HIDE DEF A, n
    <2> QED BY <1>2c
  <1> HIDE DEF n, G, iter, A
  <1>4. PICK it : FoldsTo(it, n, A, base, G)
    BY <1>2, <1>2a, <1>3, FoldExists
  <1>5. it = [S \in SUBSET (DOMAIN seq) |->
                IF S = {} THEN base ELSE LET k == Max(S) IN Pack(it[S \ {k}], seq[k], known, shown, at, p)]
    <2>1. /\ it \in [SUBSET (1..n) -> A]
          /\ \A S \in SUBSET (1..n) : it[S] = IF S = {} THEN base ELSE G[<<Max(S), it[S \ {Max(S)}]>>]
      BY <1>4 DEF FoldsTo
    <2>2. ASSUME NEW S \in SUBSET (1..n), S # {}
          PROVE  G[<<Max(S), it[S \ {Max(S)}]>>] = Pack(it[S \ {Max(S)}], seq[Max(S)], known, shown, at, p)
      <3>1. Max(S) \in 1..n /\ S \ {Max(S)} \in SUBSET (1..n)
        BY <1>2, <2>2, SmallerSet
      <3> QED BY <1>3, <2>1, <3>1
    <2> QED BY <1>2, <2>1, <2>2
  <1>6. iter = [S \in SUBSET (DOMAIN seq) |->
                IF S = {} THEN base ELSE LET k == Max(S) IN Pack(iter[S \ {k}], seq[k], known, shown, at, p)]
    <2>1. iter = CHOOSE g : g = [S \in SUBSET (DOMAIN seq) |->
                IF S = {} THEN base ELSE LET k == Max(S) IN Pack(g[S \ {k}], seq[k], known, shown, at, p)]
      BY DEF iter
    <2> QED BY <1>5, <2>1
  <1>7. ASSUME NEW S \in SUBSET (1..n), S # {}, iter[S \ {Max(S)}] \in A
        PROVE  iter[S] \in A
    <2>1. Max(S) \in 1..n /\ iter[S] = Pack(iter[S \ {Max(S)}], seq[Max(S)], known, shown, at, p)
      BY <1>2, <1>6, <1>7, SmallerSet
    <2> QED BY <1>2c, <1>7, <2>1
  <1>8. iter[{}] \in A
    BY <1>2a, <1>6
  <1>9. \A S \in SUBSET (1..n) : iter[S] \in A
    BY <1>2, <1>7, <1>8, FoldTyped
  <1> QED BY <1>1, <1>2, <1>9 DEF A

LEMMA DreamItemsTyped ==
  ASSUME NEW D, NEW seeds, NEW seq \in Seq(PathSet(D, seeds))
  PROVE  DreamItems(seq, seeds) \in KeepSet(D, seeds, ToSet(seq))
  <1> DEFINE A == KeepSet(D, seeds, ToSet(seq))
             iter[S \in SUBSET (DOMAIN seq)] ==
               IF S = {} THEN {} ELSE LET k == Max(S) IN Keep(iter[S \ {k}], seq[k], seeds)
             n == Len(seq)
             G == [x \in (1..n) \X A |-> Keep(x[2], seq[x[1]], seeds)]
  <1>1. DreamItems(seq, seeds) = iter[DOMAIN seq]
    BY DEF DreamItems, FoldLeft, MapThenFoldSet
  <1>2. n \in Nat /\ DOMAIN seq = 1..n /\ \A k \in 1..n : seq[k] \in ToSet(seq)
    BY DEF ToSet
  <1>2a. {} \in A
    BY FS_EmptySet, RelationAssumption DEF KeepSet
  <1>2b. ToSet(seq) \in SUBSET PathSet(D, seeds)
    BY ToSetFacts
  <1>2c. \A k \in 1..n, a \in A : Keep(a, seq[k], seeds) \in A
    BY <1>2, <1>2b, KeepTyped
  <1>3. G \in [(1..n) \X A -> A] /\ \A k \in 1..n, a \in A : G[<<k, a>>] = Keep(a, seq[k], seeds)
    <2> HIDE DEF A, n
    <2> QED BY <1>2c
  <1> HIDE DEF n, G, iter, A
  <1>4. PICK it : FoldsTo(it, n, A, {}, G)
    BY <1>2, <1>2a, <1>3, FoldExists
  <1>5. it = [S \in SUBSET (DOMAIN seq) |->
                IF S = {} THEN {} ELSE LET k == Max(S) IN Keep(it[S \ {k}], seq[k], seeds)]
    <2>1. /\ it \in [SUBSET (1..n) -> A]
          /\ \A S \in SUBSET (1..n) : it[S] = IF S = {} THEN {} ELSE G[<<Max(S), it[S \ {Max(S)}]>>]
      BY <1>4 DEF FoldsTo
    <2>2. ASSUME NEW S \in SUBSET (1..n), S # {}
          PROVE  G[<<Max(S), it[S \ {Max(S)}]>>] = Keep(it[S \ {Max(S)}], seq[Max(S)], seeds)
      <3>1. Max(S) \in 1..n /\ S \ {Max(S)} \in SUBSET (1..n)
        BY <1>2, <2>2, SmallerSet
      <3> QED BY <1>3, <2>1, <3>1
    <2> QED BY <1>2, <2>1, <2>2
  <1>6. iter = [S \in SUBSET (DOMAIN seq) |->
                IF S = {} THEN {} ELSE LET k == Max(S) IN Keep(iter[S \ {k}], seq[k], seeds)]
    <2>1. iter = CHOOSE g : g = [S \in SUBSET (DOMAIN seq) |->
                IF S = {} THEN {} ELSE LET k == Max(S) IN Keep(g[S \ {k}], seq[k], seeds)]
      BY DEF iter
    <2> QED BY <1>5, <2>1
  <1>7. ASSUME NEW S \in SUBSET (1..n), S # {}, iter[S \ {Max(S)}] \in A
        PROVE  iter[S] \in A
    <2>1. Max(S) \in 1..n /\ iter[S] = Keep(iter[S \ {Max(S)}], seq[Max(S)], seeds)
      BY <1>2, <1>6, <1>7, SmallerSet
    <2> QED BY <1>2c, <1>7, <2>1
  <1>8. iter[{}] \in A
    BY <1>2a, <1>6
  <1>9. \A S \in SUBSET (1..n) : iter[S] \in A
    BY <1>2, <1>7, <1>8, FoldTyped
  <1> QED BY <1>1, <1>2, <1>9 DEF A

-----------------------------------------------------------------------------
(* What the packed paths of an answer are worth.                           *)

LEMMA EndpointIsHead ==
  ASSUME NEW S, OneLine(S), DOMAIN S \subseteq RecordIds, NEW i \in DOMAIN S, NEW at, Endpoint(S[i], at, FALSE)
  PROVE  IsHead(S, i, at, FALSE)
  <1>1. /\ Eligible(S[i], at) /\ S[i].created <= at /\ S[i].evo # "pending" /\ S[i].status = "active"
    BY DEF Endpoint, Eligible
  <1>2. HeadsOf(S, i[1], at, FALSE) =
          {j \in DOMAIN S : j[1] = i[1] /\ S[j].created <= at /\ S[j].evo # "pending" /\ S[j].status = "active"}
    BY DEF HeadsOf
  <1>3. ASSUME NEW j \in DOMAIN S, j[1] = i[1], S[j].status = "active", j # i
        PROVE  FALSE
    <2>1. i \in Entities \X Nat /\ j \in Entities \X Nat
      BY DEF RecordIds
    <2>2. i[2] \in Nat /\ j[2] \in Nat /\ i[2] # j[2]
      BY <1>3, <2>1
    <2> QED BY <1>1, <1>3, <2>2 DEF OneLine
  <1>4. HeadsOf(S, i[1], at, FALSE) = {i}
    BY <1>1, <1>2, <1>3
  <1> QED BY <1>1, <1>4 DEF IsHead

\* The hops of a hydrated path are reviewed assertions of current versions
LEMMA HopsHold ==
  ASSUME NEW S, OneLine(S), DOMAIN S \subseteq RecordIds, NEW seeds, NEW path \in PathSet(DOMAIN S, seeds),
         NEW known, \A i \in ToSet(path.recs) : known[i] = S[i],
         NEW at, \A i \in ToSet(path.recs) : Endpoint(known[i], at, FALSE),
         \A n \in DOMAIN path.steps : LET s == path.steps[n] IN
           s.edge \in known[s.owner].edges /\ InForce(s.edge, at)
  PROVE  \A n \in DOMAIN path.steps : Hop(S, at, path.steps[n])
  <1> SUFFICES ASSUME NEW n \in DOMAIN path.steps PROVE Hop(S, at, path.steps[n])
    OBVIOUS
  <1> DEFINE s == path.steps[n]
             anchor == <<s.edge.target, s.edge.anchor>>
  <1>1. path.recs \in Seq(DOMAIN S) /\ s.owner \in ToSet(path.recs) /\ anchor \in ToSet(path.recs)
    BY DEF PathSet, Anchor
  <1>2. s.owner \in DOMAIN S /\ anchor \in DOMAIN S
    BY <1>1, ToSetFacts
  <1>3. /\ Endpoint(known[s.owner], at, FALSE) /\ Endpoint(known[anchor], at, FALSE)
        /\ s.edge \in known[s.owner].edges /\ InForce(s.edge, at)
    BY <1>1
  <1>4. /\ known[s.owner] = S[s.owner] /\ known[anchor] = S[anchor]
    BY <1>1
  <1> HIDE DEF s
  <1>4a. Endpoint(S[s.owner], at, FALSE) /\ Endpoint(S[anchor], at, FALSE)
    BY <1>3, <1>4
  <1> HIDE DEF anchor
  <1>5. IsHead(S, s.owner, at, FALSE) /\ IsHead(S, anchor, at, FALSE)
    BY <1>2, <1>4a, EndpointIsHead
  <1>6. Hop(S, at, s)
    BY <1>2, <1>3, <1>4, <1>5 DEF Hop, anchor
  <1> QED BY <1>6 DEF s

\* The records of a path are among those read to hydrate it
LEMMA HydratedFacts ==
  ASSUME NEW S, DOMAIN S \subseteq RecordIds, NEW seeds, NEW paths \in Seq(PathSet(DOMAIN S, seeds)),
         NEW path \in ToSet(paths)
  PROVE  ToSet(path.recs) \subseteq AllRefs(paths) \ Episodes
  <1>1. ToSet(paths) \subseteq PathSet(DOMAIN S, seeds)
    BY ToSetFacts
  <1>2. PathRefs(path) \subseteq AllRefs(paths)
    <2>1. PICK n \in DOMAIN paths : path = paths[n]
      BY DEF ToSet
    <2> QED BY <2>1 DEF AllRefs
  <1>3. path.recs \in Seq(DOMAIN S)
    BY <1>1 DEF PathSet
  <1>4. ToSet(path.recs) \subseteq DOMAIN S
    BY <1>3, ToSetFacts
  <1>5. ToSet(path.recs) \cap Episodes = {}
    BY <1>4, RelationAssumption DEF RecordIds
  <1>6. ToSet(path.recs) \subseteq AllRefs(paths)
    BY <1>2 DEF PathRefs
  <1> QED BY <1>5, <1>6

Answers(rc, paths) ==
  \/ paths = <<>>
  \/ /\ paths \in Seq(PathSet(DOMAIN rc.basis, rc.seeds))
     /\ OneLine(rc.basis) /\ DOMAIN rc.basis \subseteq RecordIds
     /\ rc.known = [i \in AllRefs(paths) \ Episodes |-> rc.basis[i]]

\* An answer given from a hydrated pack is sound
LEMMA ReturnKeeps ==
  ASSUME NEW rc, NEW paths, NEW shown, Return(rc, paths, shown), Answers(rc, paths),
         rc.used <= Policy(rc.req).calls
  PROVE  RecallOK' /\ AnswerOK'
  <1> DEFINE p == Policy(rc.req)
             D == IF paths = <<>> THEN {} ELSE DOMAIN rc.basis
             packed == Packed(paths, rc.known, shown, rc.at, p)
             items == DreamItems(packed.paths, rc.seeds)
             given == [kind |-> "paths", paths |-> ToSet(packed.paths), records |-> packed.records,
                       reasons |-> rc.reasons \cup packed.reasons, seeds |-> rc.seeds, req |-> rc.req,
                       at |-> rc.at, basis |-> rc.basis, used |-> rc.used, items |-> items,
                       start |-> rc.start, calm |-> rc.start = <<store, episode>>]
  <1>1. recall' = Idle /\ (answer' = [kind |-> "error"] \/ answer' = given)
    BY DEF Return, Refuse
  <1>2. RecallOK'
    BY <1>1 DEF RecallOK, Idle
  <1>3. CASE answer' = [kind |-> "error"]
    <2>1. answer'.kind = "error"
      BY <1>3
    <2> QED BY <1>2, <2>1 DEF AnswerOK, PathsHeld, DreamWholePaths
  <1>4. CASE answer' = given
    <2>1. paths \in Seq(PathSet(D, rc.seeds))
      <3>1. CASE paths = <<>>
        <4> HIDE DEF D
        <4> QED BY <3>1
      <3>2. CASE paths # <<>>
        BY <3>2 DEF Answers
      <3> QED BY <3>1, <3>2
    <2> HIDE DEF D, p
    <2>2. packed \in PackSet(ToSet(paths), D, rc.known, shown, rc.at, p.past)
      BY <2>1, PackedTyped
    <2> HIDE DEF packed
    <2>3. /\ packed.paths \in Seq(ToSet(paths))
          /\ \A path \in ToSet(packed.paths) :
               Revalidated(path, rc.known, shown, rc.at, p.past) /\ PathRefs(path) \subseteq packed.records
      BY <2>2 DEF PackSet
    <2>4. ToSet(paths) \subseteq PathSet(D, rc.seeds) /\ ToSet(packed.paths) \subseteq ToSet(paths)
      BY <2>1, <2>3, ToSetFacts
    <2>5. packed.paths \in Seq(PathSet(D, rc.seeds))
      BY <2>3, <2>4
    <2>6. items \in KeepSet(D, rc.seeds, ToSet(packed.paths))
      BY <2>5, DreamItemsTyped
    <2> HIDE DEF items
    <2>7. /\ Cardinality(items) <= DreamLimit
          /\ \A i \in items : \E path \in ToSet(packed.paths) :
               i \in PathRefs(path) /\ PathRefs(path) \subseteq items \cup rc.seeds
      BY <2>6 DEF KeepSet
    <2>8. /\ answer'.kind = "paths" /\ answer'.paths = ToSet(packed.paths) /\ answer'.items = items
          /\ answer'.seeds = rc.seeds /\ answer'.req = rc.req /\ answer'.records = packed.records
          /\ answer'.at = rc.at /\ answer'.basis = rc.basis /\ answer'.used = rc.used
      BY <1>4
    <2> HIDE DEF given
    <2>9. DreamWholePaths'
      BY <2>7, <2>8 DEF DreamWholePaths
    <2>10. PathsHeld'
      <3> SUFFICES ASSUME ~p.past, NEW path \in ToSet(packed.paths)
                   PROVE  /\ \A n \in DOMAIN path.steps : Hop(rc.basis, rc.at, path.steps[n])
                          /\ path.recs[1] \in rc.seeds /\ PathRefs(path) \subseteq packed.records
        BY <2>8 DEF PathsHeld, p
      <3>1. path \in ToSet(paths) /\ path \in PathSet(D, rc.seeds)
        BY <2>4
      <3>2. path.recs[1] \in rc.seeds /\ PathRefs(path) \subseteq packed.records
            /\ Revalidated(path, rc.known, shown, rc.at, p.past)
        BY <2>3, <3>1 DEF PathSet
      <3>3. paths # <<>>
        BY <3>1 DEF ToSet
      <3>4. /\ paths \in Seq(PathSet(DOMAIN rc.basis, rc.seeds)) /\ path \in PathSet(DOMAIN rc.basis, rc.seeds)
            /\ OneLine(rc.basis) /\ DOMAIN rc.basis \subseteq RecordIds
            /\ rc.known = [i \in AllRefs(paths) \ Episodes |-> rc.basis[i]]
        BY <3>1, <3>3 DEF Answers, D
      <3>5. \A i \in ToSet(path.recs) : rc.known[i] = rc.basis[i]
        <4> DEFINE S == rc.basis  seeds == rc.seeds
        <4>1. DOMAIN S \subseteq RecordIds /\ paths \in Seq(PathSet(DOMAIN S, seeds))
          BY <3>4
        <4> HIDE DEF S, seeds
        <4>2. ToSet(path.recs) \subseteq AllRefs(paths) \ Episodes
          BY <3>1, <4>1, HydratedFacts
        <4> QED BY <3>4, <4>2
      <3>6. \A n \in DOMAIN path.steps : Hop(rc.basis, rc.at, path.steps[n])
        <4> DEFINE S == rc.basis  known == rc.known  seeds == rc.seeds  at == rc.at
        <4>1. /\ OneLine(S) /\ DOMAIN S \subseteq RecordIds /\ path \in PathSet(DOMAIN S, seeds)
              /\ \A i \in ToSet(path.recs) : known[i] = S[i]
              /\ \A i \in ToSet(path.recs) : Endpoint(known[i], at, FALSE)
              /\ \A n \in DOMAIN path.steps : LET s == path.steps[n] IN
                   s.edge \in known[s.owner].edges /\ InForce(s.edge, at)
          BY <3>2, <3>4, <3>5 DEF Revalidated, Confirmed, Endpoint
        <4> HIDE DEF S, known, seeds, at
        <4>2. \A n \in DOMAIN path.steps : Hop(S, at, path.steps[n])
          BY <4>1, HopsHold
        <4> QED BY <4>2 DEF S, at
      <3> QED BY <3>2, <3>6
    <2> QED BY <1>2, <2>8, <2>9, <2>10 DEF AnswerOK
  <1> QED BY <1>1, <1>3, <1>4

-----------------------------------------------------------------------------
(* The steps of a recall.                                                  *)

RecallInv == RecallOK /\ AnswerOK

LEMMA PolicyTyped ==
  ASSUME NEW q \in DOMAIN Requests
  PROVE  /\ Requests[q].seeds \in SUBSET (Entities \X Nat)
         /\ Policy(q).calls \in Nat /\ Policy(q).past \in BOOLEAN
  <1>1. Requests[q] \in
       [seeds : SUBSET (Entities \X Nat),
        policy : [depth : 1..3, nodes : 1..128, edges : 1..256, paths : 1..512, calls : 1..32,
                  dir : {"out", "in", "both"}, past : BOOLEAN, context : Nat]]
    BY RelationAssumption
  <1> QED BY <1>1 DEF Policy

\* A path of some records is a path of more
LEMMA PathSetGrows ==
  ASSUME NEW D, NEW E, D \subseteq E, NEW seeds, NEW s \in Seq(PathSet(D, seeds))
  PROVE  s \in Seq(PathSet(E, seeds))
  <1>1. PathSet(D, seeds) \subseteq PathSet(E, seeds)
    <2>1. Steps(D) \subseteq Steps(E)
      BY DEF Steps
    <2>2. Seq(D) \subseteq Seq(E) /\ Seq(Steps(D)) \subseteq Seq(Steps(E))
      BY <2>1
    <2> QED BY <2>2 DEF PathSet
  <1> QED BY <1>1

\* The records a recall has seen are never taken away
LEMMA RecallingKept ==
  ASSUME Recalling(recall), Grows, recall' = recall
  PROVE  Recalling(recall)'
  <1>1. DOMAIN store \subseteq DOMAIN store'
    BY DEF Grows
  <1>2. /\ recall.frontier \in Seq(PathSet(DOMAIN store', recall.seeds))
        /\ recall.paths \in Seq(PathSet(DOMAIN store', recall.seeds))
    BY <1>1, PathSetGrows DEF Recalling
  <1> QED BY <1>1, <1>2 DEF Recalling

LEMMA IdleRecall == Idle.pc = "idle"
  BY DEF Idle

\* A recall keeps what it holds true while others write
LEMMA RecallKept ==
  ASSUME RecallInv, Grows, recall' = recall, answer' \in {answer, NoAnswer}
  PROVE  RecallInv'
  <1>1. RecallOK'
    BY RecallingKept, IdleRecall DEF RecallInv, RecallOK, Hydrated
  <1>2. CASE answer' = answer
    BY <1>1, <1>2 DEF RecallInv, AnswerOK, PathsHeld, DreamWholePaths
  <1>3. CASE answer' = NoAnswer
    <2>1. answer'.kind = "none"
      BY <1>3 DEF NoAnswer
    <2> QED BY <1>1, <2>1 DEF RecallInv, AnswerOK, PathsHeld, DreamWholePaths
  <1> QED BY <1>2, <1>3

\* A recall that goes on, and one that is refused
LEMMA GoesOn ==
  ASSUME RecallInv, NEW d, Recalling(d), d.pc = "hydrate_episodes" => Hydrated(d),
         recall' = d, answer' \in {answer, NoAnswer}, UNCHANGED store
  PROVE  RecallInv'
  <1>1. Recalling(recall)'
    BY DEF Recalling
  <1>2. RecallOK'
    BY <1>1 DEF RecallOK, Hydrated
  <1>3. CASE answer' = answer
    BY <1>2, <1>3 DEF RecallInv, AnswerOK, PathsHeld, DreamWholePaths
  <1>4. CASE answer' = NoAnswer
    <2>1. answer'.kind = "none"
      BY <1>4 DEF NoAnswer
    <2> QED BY <1>2, <2>1 DEF RecallInv, AnswerOK, PathsHeld, DreamWholePaths
  <1> QED BY <1>3, <1>4

LEMMA Refused ==
  ASSUME Refuse
  PROVE  RecallInv'
  <1>1. recall' = Idle /\ answer'.kind = "error"
    BY DEF Refuse
  <1>2. recall'.pc = "idle"
    BY <1>1, IdleRecall
  <1> QED BY <1>1, <1>2 DEF RecallInv, RecallOK, AnswerOK, PathsHeld, DreamWholePaths

\* A charge changes the budget and the reasons, nothing else
LEMMA ChargedFacts ==
  ASSUME Recalling(recall)
  PROVE  /\ Recalling(Charged)
         /\ \A k \in RecallFields \ {"used"} : Charged[k] = recall[k]
  <1> DEFINE u == IF recall.used < Policy(recall.req).calls THEN recall.used + 1 ELSE recall.used
             d == [recall EXCEPT !.used = u]
  <1>1. Charged = d
    BY DEF Charged
  <1>2. Policy(recall.req).calls \in Nat
    BY PolicyTyped DEF Recalling
  <1>3. u \in Nat /\ u <= Policy(recall.req).calls
    BY <1>2 DEF Recalling
  <1> HIDE DEF u
  <1>4. IsRec(d, RecallFields) /\ d.used = u /\ \A k \in RecallFields \ {"used"} : d[k] = recall[k]
    BY DEF Recalling, IsRec, RecallFields
  <1>5. /\ d.pc = recall.pc /\ d.req = recall.req /\ d.at = recall.at /\ d.seeds = recall.seeds
        /\ d.frontier = recall.frontier /\ d.paths = recall.paths /\ d.nodes = recall.nodes
        /\ d.edges = recall.edges /\ d.reasons = recall.reasons /\ d.claims = recall.claims
        /\ d.known = recall.known
    BY <1>4 DEF RecallFields
  <1> HIDE DEF d
  <1>6. Recalling(d)
    BY <1>3, <1>4, <1>5 DEF Recalling
  <1> QED BY <1>1, <1>4, <1>6

LEMMA LimitsTyped == ASSUME NEW rows PROVE Limits(rows) \subseteq Reasons
  BY DEF Limits, Reasons

\* A recall cut off goes on to hydrate what it has
LEMMA CutKeeps ==
  ASSUME RecallInv, Recalling(recall), NEW rows, Cut(rows, "hydrate"),
         answer' \in {answer, NoAnswer}, UNCHANGED store
  PROVE  RecallInv'
  <1> DEFINE r == Charged
             d == [r EXCEPT !.pc = "hydrate", !.reasons = r.reasons \cup Limits(rows)]
  <1>1. recall' = d
    BY DEF Cut
  <1>2. Recalling(r) /\ Limits(rows) \subseteq Reasons
    BY ChargedFacts, LimitsTyped
  <1> HIDE DEF r
  <1>3. Recalling(d) /\ d.pc = "hydrate"
    <2>1. /\ IsRec(d, RecallFields) /\ d.pc = "hydrate" /\ d.reasons = r.reasons \cup Limits(rows)
          /\ d.used = r.used /\ d.req = r.req /\ d.at = r.at /\ d.seeds = r.seeds
          /\ d.frontier = r.frontier /\ d.paths = r.paths /\ d.nodes = r.nodes
          /\ d.edges = r.edges /\ d.claims = r.claims /\ d.known = r.known
      BY <1>2 DEF Recalling, IsRec, RecallFields
    <2> HIDE DEF d
    <2> QED BY <1>2, <2>1 DEF Recalling
  <1> HIDE DEF d
  <1> QED BY <1>1, <1>3, GoesOn

\* The reads of a recall, one lemma for each action
LEMMA BeginKeeps ==
  ASSUME RecallInv, clock \in Nat, NEW q \in DOMAIN Requests, NEW at \in IF Policy(q).past THEN 0..clock ELSE {clock},
         RecallBegin(q, at)
  PROVE  RecallInv'
  <1> DEFINE d == [pc |-> "ready", req |-> q, at |-> at, seeds |-> Requests[q].seeds, used |-> 0, level |-> 0,
                frontier |-> <<>>, paths |-> <<>>, nodes |-> {}, edges |-> {}, reasons |-> {},
                claims |-> {}, known |-> <<>>, basis |-> <<>>, start |-> <<store, episode>>]
  <1>1. recall' = d /\ answer' = NoAnswer /\ UNCHANGED store
    BY DEF RecallBegin
  <1>2. Policy(q).calls \in Nat /\ at \in Nat
    BY PolicyTyped
  <1>3. /\ IsRec(d, RecallFields) /\ d.pc = "ready" /\ d.req = q /\ d.at = at /\ d.seeds = Requests[q].seeds
        /\ d.used = 0 /\ d.frontier = <<>> /\ d.paths = <<>> /\ d.nodes = {} /\ d.edges = {}
        /\ d.reasons = {} /\ d.claims = {} /\ d.known = <<>>
    BY DEF IsRec, RecallFields
  <1> HIDE DEF d
  <1>4. Recalling(d)
    BY <1>2, <1>3, FS_EmptySet DEF Recalling
  <1> QED BY <1>1, <1>3, <1>4, GoesOn

LEMMA NotIdle ==
  ASSUME RecallInv, recall.pc # "idle"
  PROVE  Recalling(recall)
  BY IdleRecall DEF RecallInv, RecallOK

LEMMA ReadyKeeps ==
  ASSUME RecallInv, Ready
  PROVE  RecallInv'
  <1> DEFINE r == Charged
             d == [r EXCEPT !.pc = "seeds"]
  <1>1. /\ recall.pc = "ready" /\ UNCHANGED store
        /\ \/ Cut({}, "hydrate") /\ UNCHANGED answer
           \/ Refuse
           \/ recall' = d /\ UNCHANGED answer
    BY DEF Ready, ReadOnly
  <1>2. Recalling(recall) /\ Recalling(r)
    BY <1>1, NotIdle, ChargedFacts
  <1> HIDE DEF r
  <1>3. Recalling(d) /\ d.pc = "seeds"
    <2>1. /\ IsRec(d, RecallFields) /\ d.pc = "seeds" /\ d.reasons = r.reasons
          /\ d.used = r.used /\ d.req = r.req /\ d.at = r.at /\ d.seeds = r.seeds
          /\ d.frontier = r.frontier /\ d.paths = r.paths /\ d.nodes = r.nodes
          /\ d.edges = r.edges /\ d.claims = r.claims /\ d.known = r.known
      BY <1>2 DEF Recalling, IsRec, RecallFields
    <2> HIDE DEF d
    <2> QED BY <1>2, <2>1 DEF Recalling
  <1> HIDE DEF d
  <1> QED BY <1>1, <1>2, <1>3, GoesOn, CutKeeps, Refused

LEMMA ReadSeedsKeeps ==
  ASSUME RecallInv, StoreOK, ReadSeeds
  PROVE  RecallInv'
  <1> DEFINE rows == {i \in recall.seeds \cap DOMAIN store : Readable(i, recall.at, Policy(recall.req).past)}
             s == SetToSeq(rows)
             frontier == [n \in DOMAIN s |-> Seed(s[n])]
             nodes == {i[1] : i \in rows}
             r == Charged
             d == [r EXCEPT !.pc = "owners", !.nodes = nodes, !.frontier = frontier]
  <1>1. /\ recall.pc = "seeds" /\ UNCHANGED store
        /\ \/ Cut(rows, "hydrate") /\ UNCHANGED answer
           \/ Refuse
           \/ recall' = d /\ UNCHANGED answer
    BY DEF ReadSeeds, ReadOnly
  <1>2. Recalling(recall) /\ Recalling(r) /\ r.seeds = recall.seeds
    BY <1>1, NotIdle, ChargedFacts DEF RecallFields
  <1>3. rows \in SUBSET DOMAIN store /\ rows \subseteq recall.seeds /\ DOMAIN store \subseteq RecordIds
    BY DEF StoreOK
  <1> HIDE DEF rows
  <1>4. s \in Seq(rows)
    <2>1. IsFiniteSet(rows)
      BY <1>3, FS_Subset DEF StoreOK
    <2> QED BY <2>1, SetToSeqTyped
  <1>5. frontier \in Seq(PathSet(DOMAIN store, recall.seeds))
    <2>1. Len(s) \in Nat /\ DOMAIN s = 1..Len(s) /\ \A n \in 1..Len(s) : s[n] \in rows
      BY <1>4
    <2> HIDE DEF s
    <2>2. \A n \in 1..Len(s) : Seed(s[n]) \in PathSet(DOMAIN store, recall.seeds)
      BY <1>3, <2>1, SeedInPaths
    <2> QED BY <2>1, <2>2
  <1>6. nodes \in SUBSET Entities
    BY <1>3 DEF RecordIds
  <1> HIDE DEF r, frontier, nodes
  <1>7. Recalling(d) /\ d.pc = "owners"
    <2>1. /\ IsRec(d, RecallFields) /\ d.pc = "owners" /\ d.reasons = r.reasons
          /\ d.used = r.used /\ d.req = r.req /\ d.at = r.at /\ d.seeds = r.seeds
          /\ d.frontier = frontier /\ d.paths = r.paths /\ d.nodes = nodes
          /\ d.edges = r.edges /\ d.claims = r.claims /\ d.known = r.known
      BY <1>2 DEF Recalling, IsRec, RecallFields
    <2> HIDE DEF d
    <2> QED BY <1>2, <1>5, <1>6, <2>1 DEF Recalling
  <1> HIDE DEF d
  <1> QED BY <1>1, <1>2, <1>7, GoesOn, CutKeeps, Refused

LEMMA ReadOwnersKeeps ==
  ASSUME RecallInv, StoreOK, ReadOwners
  PROVE  RecallInv'
  <1> DEFINE keys == {Ends(recall.frontier[n]) : n \in DOMAIN recall.frontier}
             rows == {i \in DOMAIN store : /\ Readable(i, recall.at, Policy(recall.req).past)
                                           /\ store[i].index # None
                                           /\ i[1] \in keys \/ store[i].index.targets \cap keys # {}}
             some == {j \in rows : Eligible(store[j], recall.at)}
             bundles == [j \in rows |-> store[j].edges]
             edges == UNION {store[j].edges : j \in rows}
             claims == {c \in {<<i, x>> : i \in some, x \in edges} :
                          /\ c[2] \in store[c[1]].edges /\ InForce(c[2], recall.at)
                          /\ Leads(Policy(recall.req), keys, c[1][1], c[2])}
             r == Charged
             d == [r EXCEPT !.pc = "heads", !.claims = claims]
  <1>1. /\ recall.pc = "owners" /\ UNCHANGED store
        /\ \/ Cut(rows, "hydrate") /\ UNCHANGED answer
           \/ Refuse
           \/ recall' = d /\ UNCHANGED answer
    BY DEF ReadOwners, ReadOnly
  <1>2. Recalling(recall) /\ Recalling(r)
    BY <1>1, NotIdle, ChargedFacts
  <1>3. rows \in SUBSET DOMAIN store /\ some \in SUBSET rows
    OBVIOUS
  <1> HIDE DEF rows, some
  <1>4a. DOMAIN bundles = rows /\ \A j \in rows : bundles[j] = store[j].edges
    OBVIOUS
  <1>4b. edges = UNION {bundles[j] : j \in rows}
    BY <1>4a
  <1> HIDE DEF edges, bundles
  <1>4. claims \in SUBSET (some \X edges)
    OBVIOUS
  <1> HIDE DEF claims
  <1>5. IsFiniteSet(rows) /\ IsFiniteSet(some)
    BY <1>3, FS_Subset DEF StoreOK
  <1>6. \A j \in rows : bundles[j] \subseteq Edges /\ IsFiniteSet(bundles[j])
    BY <1>3, <1>4a DEF StoreOK, RecordOK, BundleOK
  <1>7. IsFiniteSet(edges) /\ edges \subseteq Edges
    <2>1. IsFiniteSet({bundles[j] : j \in rows})
      BY <1>4a, <1>5, RangeFinite
    <2>2. \A T \in {bundles[j] : j \in rows} : IsFiniteSet(T)
      BY <1>6
    <2>3. IsFiniteSet(edges)
      BY <1>4b, <2>1, <2>2, FS_UNION
    <2> QED BY <1>4b, <1>6, <2>3
  <1>8. IsFiniteSet(claims)
    <2>1. IsFiniteSet(some \X edges)
      BY <1>5, <1>7, FS_Product
    <2> QED BY <1>4, <2>1, FS_Subset
  <1>9. claims \in SUBSET ((DOMAIN store) \X Edges)
    BY <1>3, <1>4, <1>7
  <1> HIDE DEF r
  <1>10. Recalling(d) /\ d.pc = "heads"
    <2>1. /\ IsRec(d, RecallFields) /\ d.pc = "heads" /\ d.reasons = r.reasons
          /\ d.used = r.used /\ d.req = r.req /\ d.at = r.at /\ d.seeds = r.seeds
          /\ d.frontier = r.frontier /\ d.paths = r.paths /\ d.nodes = r.nodes
          /\ d.edges = r.edges /\ d.claims = claims /\ d.known = r.known
      BY <1>2 DEF Recalling, IsRec, RecallFields
    <2> HIDE DEF d
    <2> QED BY <1>2, <1>8, <1>9, <2>1 DEF Recalling
  <1> HIDE DEF d
  <1> QED BY <1>1, <1>2, <1>10, GoesOn, CutKeeps, Refused

\* The level a read leads to
LEMMA NextLevelTyped ==
  ASSUME Recalling(recall), StoreOK, NEW known, DOMAIN known \subseteq DOMAIN store, NEW shown
  PROVE  Recalling(NextLevel(Charged, known, shown)) /\ NextLevel(Charged, known, shown).pc \in {"hydrate", "owners"}
  <1> DEFINE x == Expanded(known, shown)
             r == Charged
             last == r.level + 1 = Policy(r.req).depth
             reasons == x.reasons \cup (IF last /\ x.next # <<>> THEN {"depth"} ELSE {})
             pc == IF last \/ x.next = <<>> THEN "hydrate" ELSE "owners"
             d == [r EXCEPT !.nodes = x.nodes, !.edges = x.edges, !.paths = x.paths, !.frontier = x.next,
                !.level = r.level + 1, !.claims = {}, !.known = <<>>, !.reasons = reasons, !.pc = pc]
  <1>1. NextLevel(Charged, known, shown) = d
    BY DEF NextLevel
  <1>2. DOMAIN store \subseteq RecordIds /\ DOMAIN known \subseteq RecordIds
    BY DEF StoreOK
  <1>3. \A c \in recall.claims : c[2] \in Edges
    BY DEF Recalling
  <1>4. x \in AccSet(DOMAIN store, recall.seeds)
    BY <1>2, <1>3, ExpandedTyped DEF Recalling
  <1>5. Recalling(r) /\ r.seeds = recall.seeds
    BY ChargedFacts DEF RecallFields
  <1> HIDE DEF x, r
  <1>6. reasons \in SUBSET Reasons /\ pc \in {"hydrate", "owners"}
    BY <1>4 DEF AccSet, Reasons
  <1> HIDE DEF reasons, pc
  <1>7. /\ IsRec(d, RecallFields) /\ d.pc = pc /\ d.reasons = reasons
        /\ d.used = r.used /\ d.req = r.req /\ d.at = r.at /\ d.seeds = r.seeds
        /\ d.frontier = x.next /\ d.paths = x.paths /\ d.nodes = x.nodes
        /\ d.edges = x.edges /\ d.claims = {} /\ d.known = <<>>
    BY <1>5 DEF Recalling, IsRec, RecallFields
  <1> HIDE DEF d
  <1>8. Recalling(d)
    BY <1>4, <1>5, <1>6, <1>7, FS_EmptySet DEF Recalling, AccSet
  <1> QED BY <1>1, <1>6, <1>7, <1>8

LEMMA ReadHeadsKeeps ==
  ASSUME RecallInv, StoreOK, ReadHeads
  PROVE  RecallInv'
  <1> DEFINE rows == {i \in DOMAIN store : store[i].created <= recall.at
                                    /\ \/ i[1] \in HeadKeys /\ store[i].index # None
                                       \/ i \in Proofs(recall.claims)}
             known == [i \in rows |-> store[i]]
             r == Charged
             d == [r EXCEPT !.pc = "proofs", !.known = known]
             e == NextLevel(Charged, known, {})
  <1>1. /\ recall.pc = "heads" /\ UNCHANGED store
        /\ \/ Cut(rows, "hydrate") /\ UNCHANGED answer
           \/ Refuse
           \/ recall' = d /\ UNCHANGED answer
           \/ recall' = e /\ UNCHANGED answer
    BY DEF ReadHeads, ReadOnly
  <1>2. Recalling(recall) /\ Recalling(r)
    BY <1>1, NotIdle, ChargedFacts
  <1>3. DOMAIN known \subseteq DOMAIN store
    OBVIOUS
  <1> HIDE DEF known, rows
  <1>4. Recalling(e) /\ e.pc \in {"hydrate", "owners"}
    BY <1>2, <1>3, NextLevelTyped
  <1> HIDE DEF r
  <1>5. Recalling(d) /\ d.pc = "proofs"
    <2>1. /\ IsRec(d, RecallFields) /\ d.pc = "proofs" /\ d.reasons = r.reasons
          /\ d.used = r.used /\ d.req = r.req /\ d.at = r.at /\ d.seeds = r.seeds
          /\ d.frontier = r.frontier /\ d.paths = r.paths /\ d.nodes = r.nodes
          /\ d.edges = r.edges /\ d.claims = r.claims /\ d.known = known
      BY <1>2 DEF Recalling, IsRec, RecallFields
    <2> HIDE DEF d
    <2> QED BY <1>2, <1>3, <2>1 DEF Recalling
  <1> HIDE DEF d, e
  <1>6. CASE recall' = d /\ UNCHANGED answer
    BY <1>1, <1>5, <1>6, GoesOn
  <1>7. CASE recall' = e /\ UNCHANGED answer
    <2>1. e.pc # "hydrate_episodes"
      BY <1>4
    <2> QED BY <1>1, <1>4, <1>7, <2>1, GoesOn
  <1> QED BY <1>1, <1>2, <1>6, <1>7, CutKeeps, Refused

LEMMA ReadProofsKeeps ==
  ASSUME RecallInv, StoreOK, ReadProofs
  PROVE  RecallInv'
  <1> DEFINE rows == Proofs(recall.claims) \cap Episodes
             e == NextLevel(Charged, recall.known, {p \in rows : episode[p]})
  <1>1. /\ recall.pc = "proofs" /\ UNCHANGED store /\ UNCHANGED answer
        /\ Cut(rows, "hydrate") \/ recall' = e
    BY DEF ReadProofs, ReadOnly
  <1>2. Recalling(recall) /\ DOMAIN recall.known \subseteq DOMAIN store
    BY <1>1, NotIdle DEF Recalling
  <1>3. Recalling(e) /\ e.pc \in {"hydrate", "owners"}
    BY <1>2, NextLevelTyped
  <1> HIDE DEF e
  <1>4. CASE recall' = e
    <2>1. e.pc # "hydrate_episodes"
      BY <1>3
    <2> QED BY <1>1, <1>3, <1>4, <2>1, GoesOn
  <1> QED BY <1>1, <1>2, <1>4, CutKeeps

LEMMA HydrateKeeps ==
  ASSUME RecallInv, StoreOK, OneLine(store), Hydrate
  PROVE  RecallInv'
  <1> DEFINE rows == AllRefs(recall.paths) \ Episodes
             known == [i \in rows |-> store[i]]
             r == Charged
             cut == [r EXCEPT !.reasons = r.reasons \cup Limits(rows)]
             rc == [r EXCEPT !.known = known, !.basis = store]
             d == [rc EXCEPT !.pc = "hydrate_episodes"]
  <1>1. /\ recall.pc = "hydrate" /\ UNCHANGED store
        /\ \/ Return(recall, <<>>, {})
           \/ Return(cut, <<>>, {})
           \/ Return(rc, rc.paths, {})
           \/ recall' = d /\ UNCHANGED answer
    BY DEF Hydrate, ReadOnly
  <1>2. Recalling(recall) /\ Recalling(r) /\ r.paths = recall.paths /\ r.seeds = recall.seeds
    BY <1>1, NotIdle, ChargedFacts DEF RecallFields
  <1>3. known = [i \in AllRefs(recall.paths) \ Episodes |-> store[i]]
    OBVIOUS
  <1> HIDE DEF known, rows, r
  <1>4. CASE Return(recall, <<>>, {})
    BY <1>2, <1>4, ReturnKeeps DEF Answers, Recalling, RecallInv
  <1>5. CASE Return(cut, <<>>, {})
    <2>1. cut.used = r.used /\ cut.req = r.req
      BY <1>2 DEF Recalling, IsRec, RecallFields
    <2> HIDE DEF cut
    <2>2. Answers(cut, <<>>) /\ cut.used <= Policy(cut.req).calls
      BY <1>2, <2>1 DEF Answers, Recalling
    <2> QED BY <1>5, <2>2, ReturnKeeps DEF RecallInv
  <1>6. /\ IsRec(rc, RecallFields) /\ rc.used = r.used /\ rc.req = r.req /\ rc.at = r.at /\ rc.seeds = r.seeds
        /\ rc.frontier = r.frontier /\ rc.paths = r.paths /\ rc.nodes = r.nodes /\ rc.reasons = r.reasons
        /\ rc.edges = r.edges /\ rc.claims = r.claims /\ rc.known = known /\ rc.basis = store
    BY <1>2 DEF Recalling, IsRec, RecallFields
  <1> HIDE DEF rc
  <1>7. DOMAIN store \subseteq RecordIds
    BY DEF StoreOK
  <1>8. CASE Return(rc, rc.paths, {})
    <2>1. rc.used <= Policy(rc.req).calls
      BY <1>2, <1>6 DEF Recalling
    <2>2. Answers(rc, rc.paths)
      BY <1>2, <1>3, <1>6, <1>7 DEF Answers, Recalling
    <2> QED BY <1>8, <2>1, <2>2, ReturnKeeps DEF RecallInv
  <1>9. CASE recall' = d /\ UNCHANGED answer
    <2>1. /\ IsRec(d, RecallFields) /\ d.used = r.used /\ d.req = r.req /\ d.at = r.at /\ d.seeds = r.seeds
          /\ d.frontier = r.frontier /\ d.paths = r.paths /\ d.nodes = r.nodes /\ d.reasons = r.reasons
          /\ d.edges = r.edges /\ d.claims = r.claims /\ d.known = known /\ d.basis = store
          /\ d.pc = "hydrate_episodes"
      BY <1>6 DEF IsRec, RecallFields
    <2> HIDE DEF d
    <2>2. Recalling(d)
      BY <1>2, <2>1 DEF Recalling
    <2>3. Hydrated(d)
      BY <1>2, <1>3, <1>7, <2>1 DEF Hydrated, Recalling
    <2> QED BY <1>1, <1>9, <2>2, <2>3, GoesOn
  <1> QED BY <1>1, <1>4, <1>5, <1>8, <1>9

LEMMA HydrateEpisodesKeeps ==
  ASSUME RecallInv, HydrateEpisodes
  PROVE  RecallInv'
  <1> DEFINE rows == AllRefs(recall.paths) \cap Episodes
             r == Charged
             shown == {p \in rows : episode[p]}
             cut == [r EXCEPT !.reasons = r.reasons \cup Limits(rows)]
  <1>1. /\ recall.pc = "hydrate_episodes"
        /\ Return(cut, <<>>, {}) \/ Return(r, recall.paths, shown)
    BY DEF HydrateEpisodes
  <1>2. /\ Recalling(recall) /\ Recalling(r) /\ r.paths = recall.paths /\ r.seeds = recall.seeds
        /\ r.known = recall.known /\ r.basis = recall.basis
    BY <1>1, NotIdle, ChargedFacts DEF RecallFields
  <1>3. Hydrated(recall)
    BY <1>1 DEF RecallInv, RecallOK
  <1> HIDE DEF rows, r, shown
  <1>5. CASE Return(cut, <<>>, {})
    <2>1. cut.used = r.used /\ cut.req = r.req
      BY <1>2 DEF Recalling, IsRec, RecallFields
    <2> HIDE DEF cut
    <2>2. Answers(cut, <<>>) /\ cut.used <= Policy(cut.req).calls
      BY <1>2, <2>1 DEF Answers, Recalling
    <2> QED BY <1>5, <2>2, ReturnKeeps DEF RecallInv
  <1>6. CASE Return(r, recall.paths, shown)
    <2>1. r.used <= Policy(r.req).calls
      BY <1>2 DEF Recalling
    <2>2. Answers(r, recall.paths)
      BY <1>2, <1>3 DEF Answers, Hydrated
    <2> QED BY <1>6, <2>1, <2>2, ReturnKeeps DEF RecallInv
  <1> QED BY <1>1, <1>5, <1>6

\* Whoever writes leaves the recall alone, and the answer was taken
LEMMA WritersAnswer ==
  ASSUME Rollout \/ Flip \/ Tick \/ \E w \in Writers : Write(w)
  PROVE  recall' = recall /\ answer' = NoAnswer
  BY ZenonT(60) DEF Rollout, Flip, Tick, Write, CheckpointBegin, CheckpointEnd, ApplyScan, ApplyVerify,
         ApplyInterrupted, ApplyWrite, ProposeRead, ReviewRead, ContentStore, Admit, Enter, Stage,
         Supersede, Activate, Crash, AnswerTaken

\* No recall is under way at the start
LEMMA ReadingInit == Init => RecallInv
  <1> SUFFICES ASSUME Init PROVE RecallInv
    OBVIOUS
  <1>1. recall = Idle /\ answer.kind = "none"
    BY DEF Init, NoAnswer
  <1> QED BY <1>1, IdleRecall DEF RecallInv, RecallOK, AnswerOK, PathsHeld, DreamWholePaths

\* Every action keeps what a recall holds true of the store it read
LEMMA ReadingNext == RelInv /\ RecallInv /\ [Next]_vars => RecallInv'
  <1> SUFFICES ASSUME RelInv, RecallInv, [Next]_vars PROVE RecallInv'
    OBVIOUS
  <1>1. Grows
    BY WritingNext
  <1>2. StoreOK /\ OneLine(store) /\ clock \in Nat
    BY DEF RelInv, TypeInv, LineInv
  <1>3. CASE Recall
    BY <1>2, <1>3, BeginKeeps, ReadyKeeps, ReadSeedsKeeps, ReadOwnersKeeps, ReadHeadsKeeps,
       ReadProofsKeeps, HydrateKeeps, HydrateEpisodesKeeps DEF Recall
  <1>4. CASE Rollout \/ Flip \/ Tick \/ \E w \in Writers : Write(w)
    BY <1>1, <1>4, WritersAnswer, RecallKept
  <1>5. CASE UNCHANGED vars
    BY <1>1, <1>5, RecallKept DEF vars
  <1> QED BY <1>3, <1>4, <1>5 DEF Next

\* An entity has one active version
LEMMA OneActive ==
  ASSUME RelInv, NEW e \in Entities
  PROVE  Cardinality(ActiveOf(store, e)) <= 1
  <1>1. \A i, j \in ActiveOf(store, e) : i = j
    <2>1. ASSUME NEW i \in ActiveOf(store, e), NEW j \in ActiveOf(store, e), i # j PROVE FALSE
      <3>1. /\ i \in DOMAIN store /\ j \in DOMAIN store /\ i[1] = e /\ j[1] = e
            /\ store[i].status = "active" /\ store[j].status = "active"
        BY DEF ActiveOf
      <3>2. i \in Entities \X Nat /\ j \in Entities \X Nat
        BY <3>1 DEF RelInv, TypeInv, StoreOK, RecordIds
      <3>3. i[2] \in Nat /\ j[2] \in Nat /\ i[2] # j[2]
        BY <2>1, <3>1, <3>2
      <3> QED BY <3>1, <3>3 DEF RelInv, LineInv, OneLine
    <2> QED BY <2>1
  <1>2. CASE ActiveOf(store, e) = {}
    BY <1>2, FS_EmptySet
  <1>3. ASSUME NEW i \in ActiveOf(store, e) PROVE Cardinality(ActiveOf(store, e)) <= 1
    <2>1. ActiveOf(store, e) = {i}
      BY <1>1, <1>3
    <2>2. Cardinality({i}) = 1
      BY FS_Singleton
    <2> QED BY <2>1, <2>2
  <1> QED BY <1>2, <1>3

(* The paths of a recall, and what a dream takes of them, are whole chains of *)
(* reviewed assertions between current versions, all at one moment, whatever  *)
(* is written between the reads (traversal.py, recall.py, dream.py).          *)
THEOREM PathsAreSound == Spec => []PathsSound
  <1>1. RelInv /\ RecallInv => PathsSound
    <2> SUFFICES ASSUME RelInv, RecallInv PROVE PathsSound
      OBVIOUS
    <2>1. RelationTypeOK
      BY OneActive DEF RelationTypeOK, RelInv, TypeInv, LineInv, LocksOK, StoreOK, RecordOK, RecallInv, AnswerOK
    <2> QED BY <2>1 DEF PathsSound, RecallInv, AnswerOK
  <1> QED BY <1>1, WritingInit, WritingNext, ReadingInit, ReadingNext, PTL DEF Spec

=============================================================================
