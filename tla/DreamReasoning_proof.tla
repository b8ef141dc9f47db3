------------------------ MODULE DreamReasoning_proof -------------------------
(***************************************************************************)
(* Theorems about DreamReasoning: the fallback router keeps to the         *)
(* configured order across calls, clients and attempts, and a pair rests   *)
(* only because it failed itself; the verdict of the gate follows from     *)
(* what the run gathered, and that is exactly what it should be; for every *)
(* number of pairs, protocols, attempts, cooldowns and faults, all         *)
(* records, hits, limits and claims.                                       *)
(***************************************************************************)
EXTENDS DreamReasoning, FiniteSetTheorems, WellFoundedInduction, TLAPS

-----------------------------------------------------------------------------
(***************************************************************************)
(* Numbers and sums.                                                       *)
(***************************************************************************)
\* A set of numbers that is not empty has a least one
LEMMA LeastNat ==
  ASSUME NEW T \in SUBSET Nat, T # {}
  PROVE  \E m \in T : \A k \in T : m <= k
  <1> DEFINE Less == {ss \in Nat \X Nat : ss[1] < ss[2]}
  <1>1. IsWellFoundedOn(Less, Nat)
    <2>1. OpToRel(<, Nat) = Less
      BY DEF OpToRel
    <2> QED BY <2>1, NatLessThanWellFounded
  <1>2. \A x, y \in Nat : y < x => <<y, x>> \in Less
    OBVIOUS
  <1> HIDE DEF Less
  <1>3. PICK m \in T : \A y \in T : ~ (<<y, m>> \in Less)
    BY <1>1, WFMin
  <1>4. ASSUME NEW k \in T PROVE m <= k
    <2>1. m \in Nat /\ k \in Nat /\ ~(k < m)
      BY <1>2, <1>3
    <2> QED BY <2>1
  <1> QED BY <1>4

\* The minimum of a set of numbers is its least element
LEMMA MinOf ==
  ASSUME NEW T \in SUBSET Nat, T # {}
  PROVE  Min(T) \in T /\ \A k \in T : Min(T) <= k
  BY LeastNat DEF Min

\* R is the sum of P over a set of the numbers up to n: it grows by what is added
IsSum(R, P, n) ==
  /\ R \in [SUBSET (1..n) -> Nat] /\ R[{}] = 0
  /\ \A S \in SUBSET (1..n) : \A p \in (1..n) \ S : R[S \cup {p}] = R[S] + P[p]

\* One more number to add up
LEMMA SumStep ==
  ASSUME NEW m \in Nat, NEW P, \A p \in 1..(m + 1) : P[p] \in Nat, NEW R, IsSum(R, P, m)
  PROVE  \E Q : IsSum(Q, P, m + 1)
  <1> DEFINE k == m + 1
             Low(S) == S \ {k}
             Q == [S \in SUBSET (1..k) |-> R[Low(S)] + IF k \in S THEN P[k] ELSE 0]
  <1>1. \A S \in SUBSET (1..k) : Low(S) \in SUBSET (1..m)
    OBVIOUS
  <1>2. Q \in [SUBSET (1..k) -> Nat]
    <2>1. ASSUME NEW S \in SUBSET (1..k) PROVE R[Low(S)] + (IF k \in S THEN P[k] ELSE 0) \in Nat
      <3>1. R[Low(S)] \in Nat
        BY <1>1 DEF IsSum
      <3> QED BY <3>1
    <2> QED BY <2>1
  <1>3. Q[{}] = 0
    <2>1. Low({}) = {}
      OBVIOUS
    <2> QED BY <2>1 DEF IsSum
  <1>4. ASSUME NEW S \in SUBSET (1..k), NEW p \in (1..k) \ S
        PROVE  Q[S \cup {p}] = Q[S] + P[p]
    <2>0. S \cup {p} \in SUBSET (1..k) /\ R[Low(S)] \in Nat
      BY <1>1 DEF IsSum
    <2>1. CASE p = k
      <3>1. Low(S \cup {p}) = Low(S)
        BY <2>1
      <3>2. Q[S \cup {p}] = R[Low(S)] + P[k]
        BY <2>0, <2>1, <3>1
      <3>3. Q[S] = R[Low(S)]
        BY <2>0, <2>1
      <3> QED BY <2>1, <3>2, <3>3
    <2>2. CASE p # k
      <3>1. p \in (1..m) \ Low(S) /\ Low(S \cup {p}) = Low(S) \cup {p}
        <4>1. p \in 1..m /\ p \notin S
          BY <2>2
        <4> HIDE DEF k
        <4> QED BY <2>2, <4>1
      <3>2. R[Low(S \cup {p})] = R[Low(S)] + P[p]
        <4>1. \A T \in SUBSET (1..m) : \A q \in (1..m) \ T : R[T \cup {q}] = R[T] + P[q]
          BY DEF IsSum
        <4>2. Low(S) \in SUBSET (1..m)
          BY <1>1
        <4> HIDE DEF Low, Q
        <4> QED BY <3>1, <4>1, <4>2
      <3>3. k \in S \cup {p} <=> k \in S
        BY <2>2
      <3>4. R[Low(S) \cup {p}] \in Nat
        BY <1>1, <3>1, <2>0 DEF IsSum
      <3>5. CASE k \in S
        <4>1. Q[S \cup {p}] = R[Low(S \cup {p})] + P[k]
          BY <2>0, <3>3, <3>5
        <4>2. Q[S] = R[Low(S)] + P[k]
          BY <3>5
        <4>3. P[p] \in Nat /\ P[k] \in Nat
          OBVIOUS
        <4> QED BY <2>0, <3>1, <3>2, <4>1, <4>2, <4>3
      <3>6. CASE k \notin S
        <4>1. Q[S \cup {p}] = R[Low(S \cup {p})]
          BY <2>0, <3>1, <3>3, <3>4, <3>6
        <4>2. Q[S] = R[Low(S)]
          BY <2>0, <3>6
        <4> QED BY <3>2, <4>1, <4>2
      <3> QED BY <3>5, <3>6
    <2> QED BY <2>1, <2>2
  <1>5. IsSum(Q, P, k)
    <2> HIDE DEF Q, k
    <2> QED BY <1>2, <1>3, <1>4 DEF IsSum
  <1> QED BY <1>5

\* Sums exist
LEMMA SumExists ==
  ASSUME NEW n \in Nat, NEW P, \A p \in 1..n : P[p] \in Nat
  PROVE  \E R : IsSum(R, P, n)
  <1> DEFINE E(m) == \E R : IsSum(R, P, m)
             T == {m \in 0..n : ~E(m)}
  <1> SUFFICES ASSUME T # {} PROVE FALSE
    OBVIOUS
  <1>1. T \in SUBSET Nat
    OBVIOUS
  <1>2. PICK m \in T : \A k \in T : m <= k
    BY <1>1, LeastNat
  <1>3. m \in 0..n /\ ~E(m)
    OBVIOUS
  <1>4. CASE m = 0
    <2>1. IsSum([S \in SUBSET (1..0) |-> 0], P, 0)
      BY DEF IsSum
    <2> QED BY <1>3, <1>4, <2>1
  <1>5. CASE m # 0
    <2> DEFINE k == m - 1
    <2>1. k \in Nat /\ k \in 0..n /\ m = k + 1 /\ k \notin T /\ \A p \in 1..(k + 1) : P[p] \in Nat
      BY <1>2, <1>3, <1>5
    <2>2. PICK R : IsSum(R, P, k)
      BY <2>1
    <2> HIDE DEF k
    <2> QED BY <1>3, <2>1, <2>2, SumStep
  <1> QED BY <1>4, <1>5

\* What RestIsEarned adds up
Total(S) == FoldSet(LAMBDA p, sum : sum + Protocols[p], 0, S)

\* The fold, in whatever order it takes the elements, is the sum
LEMMA TotalIsSum ==
  ASSUME Pairs \in Nat, \A p \in 1..Pairs : Protocols[p] \in Nat,
         NEW R, IsSum(R, Protocols, Pairs), NEW S \in SUBSET (1..Pairs)
  PROVE  Total(S) = R[S]
  <1> DEFINE Pick(s) == CHOOSE x \in s : TRUE
             iter[s \in SUBSET S] ==
               IF s = {} THEN 0 ELSE LET x == Pick(s) IN iter[s \ {x}] + Protocols[x]
             it == [s \in SUBSET S |-> R[s]]
  <1>1. Total(S) = iter[S]
    BY DEF Total, FoldSet, MapThenFoldSet
  <1>2. ASSUME NEW s \in SUBSET S, s # {}
        PROVE  /\ Pick(s) \in s /\ Pick(s) \in 1..Pairs /\ s \ {Pick(s)} \in SUBSET S
               /\ R[s] = R[s \ {Pick(s)}] + Protocols[Pick(s)]
    <2>1. Pick(s) \in s
      BY <1>2
    <2> HIDE DEF Pick
    <2>2. s = (s \ {Pick(s)}) \cup {Pick(s)} /\ Pick(s) \in (1..Pairs) \ (s \ {Pick(s)})
      BY <2>1
    <2>3. s \ {Pick(s)} \in SUBSET (1..Pairs)
      OBVIOUS
    <2>4. R[(s \ {Pick(s)}) \cup {Pick(s)}] = R[s \ {Pick(s)}] + Protocols[Pick(s)]
      BY <2>2, <2>3 DEF IsSum
    <2> QED BY <2>1, <2>2, <2>4
  <1>3. R[{}] = 0
    BY DEF IsSum
  <1> HIDE DEF Pick
  <1>4. it = [s \in SUBSET S |-> IF s = {} THEN 0 ELSE LET x == Pick(s) IN it[s \ {x}] + Protocols[x]]
    <2> SUFFICES ASSUME NEW s \in SUBSET S
                 PROVE  R[s] = IF s = {} THEN 0 ELSE it[s \ {Pick(s)}] + Protocols[Pick(s)]
      OBVIOUS
    <2> QED BY <1>2, <1>3
  <1> HIDE DEF it, iter
  <1>5. iter = [s \in SUBSET S |-> IF s = {} THEN 0 ELSE LET x == Pick(s) IN iter[s \ {x}] + Protocols[x]]
    <2>1. iter = CHOOSE g : g = [s \in SUBSET S |->
                   IF s = {} THEN 0 ELSE LET x == Pick(s) IN g[s \ {x}] + Protocols[x]]
      BY DEF iter
    <2> QED BY <1>4, <2>1
  <1> DEFINE Bad == {s \in SUBSET S : iter[s] # R[s]}
             T == {Cardinality(s) : s \in Bad}
  <1>6. Bad = {}
    <2> SUFFICES ASSUME Bad # {} PROVE FALSE
      OBVIOUS
    <2>1. \A s \in SUBSET S : IsFiniteSet(s)
      <3>1. IsFiniteSet(1..Pairs)
        BY FS_Interval
      <3> QED BY <3>1, FS_Subset
    <2>2. \A s \in SUBSET S : Cardinality(s) \in Nat
      BY <2>1, FS_CardinalityType
    <2>3. T # {} /\ T \in SUBSET Nat
      BY <2>2
    <2>4. PICK m \in T : \A k \in T : m <= k
      BY <2>3, LeastNat
    <2>5. PICK s \in Bad : m = Cardinality(s)
      OBVIOUS
    <2>6. s \in SUBSET S /\ iter[s] # R[s]
      OBVIOUS
    <2>7. s # {}
      BY <1>3, <1>5, <2>6
    <2>8. s \ {Pick(s)} \in SUBSET S /\ Pick(s) \in s
      BY <1>2, <2>7
    <2>9. Cardinality(s \ {Pick(s)}) = Cardinality(s) - 1
      BY <2>1, <2>8, FS_RemoveElement
    <2>10. s \ {Pick(s)} \notin Bad
      <3>1. Cardinality(s) - 1 \notin T
        BY <2>2, <2>4, <2>5, <2>6
      <3> QED BY <2>9, <3>1
    <2>11. iter[s] = iter[s \ {Pick(s)}] + Protocols[Pick(s)]
      BY <1>5, <2>6, <2>7
    <2>12. R[s] = R[s \ {Pick(s)}] + Protocols[Pick(s)]
      BY <1>2, <2>6, <2>7
    <2> QED BY <2>6, <2>8, <2>10, <2>11, <2>12
  <1> QED BY <1>1, <1>6

\* The total of a set of pairs, and what one more pair adds
LEMMA TotalAdds ==
  ASSUME NEW S \in SUBSET (1..Pairs)
  PROVE  /\ Total({}) = 0 /\ Total(S) \in Nat
         /\ \A p \in (1..Pairs) \ S : Total(S \cup {p}) = Total(S) + Protocols[p]
  <1>1. Pairs \in Nat /\ \A p \in 1..Pairs : Protocols[p] \in Nat
    BY DreamAssumption
  <1>2. PICK R : IsSum(R, Protocols, Pairs)
    BY <1>1, SumExists
  <1>3. \A s \in SUBSET (1..Pairs) : Total(s) = R[s]
    BY <1>1, <1>2, TotalIsSum
  <1>4. Total({}) = 0 /\ Total(S) \in Nat
    BY <1>2, <1>3 DEF IsSum
  <1>5. ASSUME NEW p \in (1..Pairs) \ S PROVE Total(S \cup {p}) = Total(S) + Protocols[p]
    <2>1. S \cup {p} \in SUBSET (1..Pairs)
      OBVIOUS
    <2>2. R[S \cup {p}] = R[S] + Protocols[p]
      BY <1>2 DEF IsSum
    <2> QED BY <1>3, <2>1, <2>2
  <1> QED BY <1>4, <1>5

-----------------------------------------------------------------------------
(***************************************************************************)
(* The router.                                                             *)
(***************************************************************************)
Calls == [busy : BOOLEAN, start : Nat, pair : Nat, protocol : Nat, client : BOOLEAN]

\* A call served began in the past, and every pair it passed over has failed later
CallOK ==
  /\ call \in Calls
  /\ call.busy =>
       /\ call.start <= now /\ call.pair \in 1..Pairs /\ call.protocol \in 1..Protocols[call.pair]
       /\ \A p \in 1..(call.pair - 1) : PassedOver(failedUntil, p, call.start)

\* A client waits exactly for a call queued or served
ClientOK ==
  /\ waiting \in BOOLEAN /\ backlog \in Nat
  /\ call.client => call.busy /\ pc = "waiting"
  /\ waiting => pc = "waiting" /\ ~call.client
  /\ pc = "waiting" => waiting \/ call.client

Rested == {p \in 1..Pairs : failedUntil[p] > 0}

\* The protocols that failed of a pair which does not rest yet
Tried == IF call.busy /\ failedUntil[call.pair] = 0 THEN call.protocol - 1 ELSE 0

RouterInv ==
  /\ now \in Nat \ {0} /\ misses \in Nat
  /\ failedUntil \in [1..Pairs -> Nat]
  /\ CallOK /\ ClientOK
  /\ Total(Rested) + Tried <= misses

\* The router is as it was, and at most a client that waited for nothing went on
LEMMA RouterKept ==
  ASSUME RouterInv, UNCHANGED <<failedUntil, call, backlog, waiting, misses>>,
         now' \in Nat, now' >= now, pc = "waiting" <=> pc' = "waiting"
  PROVE  RouterInv'
  <1>1. CallOK'
    <2>1. call' = call /\ failedUntil' = failedUntil /\ now \in Nat /\ call \in Calls
      BY DEF RouterInv, CallOK
    <2>2. call.busy => call.start <= now'
      BY <2>1 DEF RouterInv, CallOK, Calls
    <2> QED BY <2>1, <2>2 DEF RouterInv, CallOK
  <1>2. ClientOK'
    BY DEF RouterInv, ClientOK
  <1>3. Total(Rested)' = Total(Rested) /\ Tried' = Tried
    <2>1. Rested' = Rested /\ Tried' = Tried
      BY DEF Rested, Tried
    <2> QED BY <2>1
  <1>4. Total(Rested) \in Nat
    BY TotalAdds DEF Rested
  <1>5. Tried \in Nat
    BY DEF Tried, RouterInv, CallOK
  <1> QED BY <1>1, <1>2, <1>3, <1>4, <1>5 DEF RouterInv

LEMMA RouterStart == Init => RouterInv
  <1> SUFFICES ASSUME Init PROVE RouterInv
    OBVIOUS
  <1>1. /\ now = 1 /\ misses = 0 /\ failedUntil = [p \in 1..Pairs |-> 0]
        /\ call = NoCall /\ waiting = FALSE /\ backlog = 0 /\ pc = "idle"
    BY DEF Init
  <1>2. Rested = {} /\ Tried = 0
    BY <1>1 DEF Rested, Tried, NoCall
  <1>3. Total({}) = 0
    BY TotalAdds
  <1>4. CallOK /\ ClientOK
    BY <1>1 DEF CallOK, ClientOK, Calls, NoCall
  <1> QED BY <1>1, <1>2, <1>3, <1>4 DEF RouterInv

\* The pairs open to a call, and the first of them
LEMMA UsableFacts ==
  ASSUME NEW until, NEW start, NEW from \in Nat \ {0}
  PROVE  /\ Usable(until, start, from) # {} =>
              /\ Min(Usable(until, start, from)) \in from..Pairs
              /\ \A p \in from..(Min(Usable(until, start, from)) - 1) : ~ (until[p] <= start)
         /\ Usable(until, start, from) = {} => \A p \in from..Pairs : ~ (until[p] <= start)
  <1> DEFINE open == Usable(until, start, from)
  <1>0. Pairs \in Nat
    BY DreamAssumption
  <1>1. open \in SUBSET Nat /\ open = {p \in from..Pairs : until[p] <= start}
    BY <1>0 DEF Usable
  <1> HIDE DEF open
  <1>2. ASSUME open # {}
        PROVE  /\ Min(open) \in from..Pairs /\ \A p \in from..(Min(open) - 1) : ~ (until[p] <= start)
    <2>1. Min(open) \in open /\ \A k \in open : Min(open) <= k
      BY <1>1, <1>2, MinOf
    <2>2. Min(open) \in from..Pairs
      BY <1>1, <2>1
    <2>3. ASSUME NEW p \in from..(Min(open) - 1), until[p] <= start PROVE FALSE
      <3>1. p \in from..Pairs /\ p < Min(open) /\ p \in Nat /\ Min(open) \in Nat
        BY <1>0, <2>2
      <3>2. p \in open
        BY <1>1, <2>3, <3>1
      <3> QED BY <2>1, <3>1, <3>2
    <2> QED BY <2>2, <2>3
  <1>3. open = {} => \A p \in from..Pairs : ~ (until[p] <= start)
    BY <1>1
  <1> QED BY <1>2, <1>3 DEF open

\* What a call skips because it rests, and what it tried
LEMMA Skipped ==
  ASSUME NEW until, NEW p, NEW start \in Nat, until[p] \in Nat, ~ (until[p] <= start)
  PROVE  PassedOver(until, p, start)
  BY DEF PassedOver

\* Gathering, an answer of a provider, the gate, a retry, the store and the clock
GatherSteps == SearchEpisodes \/ RecallBucket \/ ExpandBucket \/ RelateGroup \/ CloseBucket
QuietSteps ==
  \/ Load \/ LoadRaises \/ GatherSteps \/ PrepareFails \/ AnswerMcp
  \/ AssembleAndGate \/ AssembleRaises \/ Retry \/ Move \/ Tick

\* A step of the gathering leaves the router alone, and stays in it until there are tasks
LEMMA GatherLeaves ==
  ASSUME GatherSteps
  PROVE  /\ UNCHANGED routerVars /\ UNCHANGED storeVars
         /\ UNCHANGED <<now, fails, attempt, loaded, results, verdict>>
         /\ pc \in {"recall", "merge", "relate"}
         /\ pc' \in {"recall", "merge", "relate", "assemble", "reason"}
  <1>1. CASE SearchEpisodes
    BY <1>1 DEF SearchEpisodes
  <1>2. CASE RecallBucket
    BY <1>2 DEF RecallBucket, Ask
  <1>3. CASE ExpandBucket
    BY <1>3 DEF ExpandBucket, Ask
  <1>4. CASE RelateGroup
    BY <1>4 DEF RelateGroup
  <1>5. CASE CloseBucket
    BY <1>5 DEF CloseBucket
  <1> QED BY <1>1, <1>2, <1>3, <1>4, <1>5 DEF GatherSteps

LEMMA QuietKeeps ==
  ASSUME RouterInv, QuietSteps
  PROVE  RouterInv' /\ ~ (pc = "waiting" /\ pc' = "failed")
  <1>0. now \in Nat
    BY DEF RouterInv
  <1>1. UNCHANGED routerVars
    BY GatherLeaves DEF QuietSteps, Load, LoadRaises, PrepareFails, AnswerMcp,
           AssembleAndGate, AssembleRaises, Retry, Move, Tick
  <1>2. now' \in {now, now + 1}
    BY GatherLeaves DEF QuietSteps, Load, LoadRaises, PrepareFails, AnswerMcp,
           AssembleAndGate, AssembleRaises, Retry, Move, Tick
  <1>3. pc' = pc \/ (pc # "waiting" /\ pc' # "waiting")
    <2>1. CASE Load \/ LoadRaises \/ PrepareFails
      BY <2>1 DEF Load, LoadRaises, PrepareFails, Fail, Preparing
    <2>2. CASE GatherSteps
      BY <2>2, GatherLeaves
    <2>3. CASE AnswerMcp
      BY <2>3 DEF AnswerMcp, Answered
    <2>4. CASE AssembleAndGate \/ AssembleRaises \/ Retry \/ Move \/ Tick
      BY <2>4 DEF AssembleAndGate, AssembleRaises, Retry, Move, Tick, Fail
    <2> QED BY <2>1, <2>2, <2>3, <2>4 DEF QuietSteps
  <1>4. now' \in Nat /\ now' >= now
    BY <1>0, <1>2
  <1> QED BY <1>1, <1>3, <1>4, RouterKept DEF routerVars

LEMMA CallRouterKeeps ==
  ASSUME RouterInv, CallRouter
  PROVE  RouterInv' /\ pc # "waiting"
  <1>1. /\ pc = "reason" /\ pc' = "waiting" /\ waiting' = TRUE
        /\ UNCHANGED <<now, misses, failedUntil, call, backlog>>
    BY DEF CallRouter
  <1>2. CallOK' /\ ClientOK'
    BY <1>1 DEF RouterInv, CallOK, ClientOK
  <1>3. Rested' = Rested /\ Tried' = Tried
    BY <1>1 DEF Rested, Tried
  <1> QED BY <1>1, <1>2, <1>3 DEF RouterInv

\* The client is gone, the call goes on or stays in the queue
LEMMA ClientTimeoutKeeps ==
  ASSUME RouterInv, ClientTimeout
  PROVE  RouterInv' /\ (backlog' # backlog \/ call'.busy)
  <1>1. /\ pc = "waiting" /\ pc' = "failed"
        /\ waiting' = FALSE /\ backlog' = backlog + IF waiting THEN 1 ELSE 0
        /\ call' = [call EXCEPT !.client = FALSE] /\ UNCHANGED <<now, failedUntil, misses>>
    BY DEF ClientTimeout, Fail
  <1>2. /\ call' \in Calls /\ ~call'.client /\ call'.busy = call.busy /\ call'.start = call.start
        /\ call'.pair = call.pair /\ call'.protocol = call.protocol
    BY <1>1 DEF RouterInv, CallOK, Calls
  <1>3. CallOK' /\ ClientOK'
    <2>1. CallOK'
      BY <1>1, <1>2 DEF RouterInv, CallOK
    <2>2. backlog' \in Nat /\ waiting' = FALSE
      BY <1>1 DEF RouterInv, ClientOK
    <2>3. ClientOK'
      BY <1>1, <1>2, <2>2 DEF ClientOK
    <2> QED BY <2>1, <2>3
  <1>4. Rested' = Rested /\ Tried' = Tried
    BY <1>1, <1>2 DEF Rested, Tried
  <1>5. backlog' # backlog \/ call'.busy
    BY <1>1, <1>2 DEF RouterInv, ClientOK
  <1> QED BY <1>1, <1>3, <1>4, <1>5 DEF RouterInv

\* A call begins with the first pair that may be asked, or there is none
LEMMA ServeKeeps ==
  ASSUME RouterInv, Serve
  PROVE  /\ RouterInv' /\ ~call.busy
         /\ call'.busy \/ \A p \in 1..Pairs : PassedOver(failedUntil', p, now)
  <1> DEFINE open == Usable(failedUntil, now, 1)
             own == backlog = 0
  <1>1. /\ ~call.busy /\ UNCHANGED <<now, misses, failedUntil>>
        /\ own => waiting /\ waiting' = FALSE /\ backlog' = backlog
        /\ ~own => waiting' = waiting /\ backlog' = backlog - 1
    <2>1. backlog \in Nat /\ waiting \in BOOLEAN
      BY DEF RouterInv, ClientOK
    <2> QED BY <2>1 DEF Serve
  <1>0. /\ backlog \in Nat /\ backlog' \in Nat /\ waiting' \in BOOLEAN /\ ~call.client
        /\ own => pc = "waiting"
    <2>1. /\ backlog \in Nat /\ waiting \in BOOLEAN /\ (waiting => pc = "waiting")
          /\ call.client => call.busy
      BY DEF RouterInv, ClientOK
    <2>2. own \/ backlog - 1 \in Nat
      BY <2>1
    <2>3. backlog' \in Nat /\ waiting' \in BOOLEAN
      BY <1>1, <2>1, <2>2
    <2> QED BY <1>1, <2>1, <2>3
  <1>2. now \in Nat \ {0} /\ failedUntil \in [1..Pairs -> Nat] /\ Pairs \in Nat
    BY DreamAssumption DEF RouterInv
  <1>3. /\ open # {} => Min(open) \in 1..Pairs /\ \A p \in 1..(Min(open) - 1) : PassedOver(failedUntil, p, now)
        /\ open = {} => \A p \in 1..Pairs : PassedOver(failedUntil, p, now)
    <2>1. /\ open # {} => /\ Min(open) \in 1..Pairs
                          /\ \A p \in 1..(Min(open) - 1) : ~ (failedUntil[p] <= now)
          /\ open = {} => \A p \in 1..Pairs : ~ (failedUntil[p] <= now)
      BY UsableFacts
    <2>2. \A p \in 1..Pairs : failedUntil[p] \in Nat
      BY <1>2
    <2> HIDE DEF open
    <2>3. ASSUME open # {}, NEW p \in 1..(Min(open) - 1) PROVE p \in 1..Pairs
      BY <1>2, <2>1, <2>3
    <2> QED BY <1>2, <2>1, <2>2, <2>3, Skipped
  <1> HIDE DEF open
  <1>4. CASE open = {}
    <2>1. call' = NoCall /\ (own => pc' = "failed") /\ (~own => pc' = pc)
      BY <1>4 DEF Serve, open, Fail
    <2>2. CallOK' /\ ClientOK'
      BY <1>0, <1>1, <2>1 DEF RouterInv, CallOK, ClientOK, Calls, NoCall
    <2>3. Rested' = Rested /\ Tried' = Tried
      BY <1>1, <2>1 DEF Rested, Tried, NoCall
    <2> QED BY <1>1, <1>3, <1>4, <2>2, <2>3 DEF RouterInv
  <1>5. CASE open # {}
    <2>1. /\ call' = [busy |-> TRUE, start |-> now, pair |-> Min(open), protocol |-> 1,
                      client |-> own]
          /\ pc' = pc
      BY <1>5 DEF Serve, open
    <2>2. /\ call'.busy /\ call'.start = now /\ call'.pair = Min(open) /\ call'.protocol = 1
          /\ (call'.client <=> own) /\ call'.client \in BOOLEAN
      BY <2>1
    <2>3. Protocols[Min(open)] \in Nat \ {0} /\ Min(open) \in Nat
      BY <1>2, <1>3, <1>5, DreamAssumption
    <2>4. call' \in Calls
      BY <1>2, <2>1, <2>2, <2>3 DEF Calls
    <2>5. CallOK'
      BY <1>1, <1>2, <1>3, <1>5, <2>2, <2>3, <2>4 DEF CallOK
    <2>6. ClientOK'
      BY <1>0, <1>1, <2>1, <2>2 DEF RouterInv, ClientOK
    <2>7. Rested' = Rested /\ Tried' = 0 /\ Tried = 0
      BY <1>1, <2>2 DEF Rested, Tried
    <2> QED BY <1>1, <2>2, <2>5, <2>6, <2>7 DEF RouterInv
  <1> QED BY <1>4, <1>5

LEMMA ModelAnswersKeeps ==
  ASSUME RouterInv, ModelAnswers
  PROVE  RouterInv' /\ ~ (pc = "waiting" /\ pc' = "failed")
  <1>1. call.busy /\ call' = NoCall /\ UNCHANGED <<now, misses, failedUntil, backlog, waiting>>
    BY DEF ModelAnswers
  <1>2. /\ call.client => pc' \in {"assemble", "reason"}
        /\ ~call.client => pc' = pc
    BY DEF ModelAnswers, Answered
  <1>3. CallOK' /\ ClientOK'
    BY <1>1, <1>2 DEF RouterInv, CallOK, ClientOK, Calls, NoCall
  <1>4. Rested' = Rested /\ Tried' = 0
    BY <1>1 DEF Rested, Tried, NoCall
  <1>5. Total(Rested) <= misses
    <2>1. Total(Rested) \in Nat
      BY TotalAdds DEF Rested
    <2>2. Tried \in Nat
      BY DEF Tried, RouterInv, CallOK
    <2> QED BY <2>1, <2>2 DEF RouterInv
  <1>6. Total(Rested)' = Total(Rested) /\ Total(Rested) \in Nat
    BY <1>4, TotalAdds DEF Rested
  <1> QED BY <1>1, <1>2, <1>3, <1>4, <1>5, <1>6 DEF RouterInv

\* A protocol fails: the next one, the next pair, or the end of the call
LEMMA ModelFailsKeeps ==
  ASSUME RouterInv, ModelFails
  PROVE  /\ RouterInv' /\ call.busy
         /\ \/ call'.busy \/ ~ (pc = "waiting" /\ pc' = "failed")
            \/ \A p \in 1..Pairs : PassedOver(failedUntil', p, call.start)
  <1> DEFINE k == call.pair
             tired == CooldownPair(k)
             open == Usable(tired, call.start, k + 1)
  <1>1. call.busy /\ misses' = misses + 1 /\ UNCHANGED <<now, backlog, waiting>>
    BY DEF ModelFails
  <1>2. /\ now \in Nat \ {0} /\ misses \in Nat /\ failedUntil \in [1..Pairs -> Nat] /\ Pairs \in Nat
        /\ call \in Calls /\ call.start \in Nat /\ call.start <= now
        /\ k \in 1..Pairs /\ Protocols[k] \in Nat \ {0} /\ Cooldown[k] \in Nat
        /\ call.protocol \in 1..Protocols[k]
        /\ \A p \in 1..(k - 1) : PassedOver(failedUntil, p, call.start)
    BY <1>1, DreamAssumption DEF RouterInv, CallOK, Calls
  <1>3. Total(Rested) \in Nat /\ Total(Rested) + Tried <= misses
    BY TotalAdds DEF Rested, RouterInv
  <1>4. CASE call.protocol < Protocols[k]
    <2>1. call' = [call EXCEPT !.protocol = @ + 1] /\ UNCHANGED <<failedUntil, pc>>
      BY <1>4 DEF ModelFails
    <2>2. /\ call'.busy /\ call'.start = call.start /\ call'.pair = k
          /\ call'.protocol = call.protocol + 1 /\ call'.client = call.client
          /\ call' \in Calls
      <3>1. call \in Calls /\ call.protocol \in Nat /\ call.protocol + 1 \in Nat
        BY <1>2 DEF Calls
      <3>0. call' = [call EXCEPT !.protocol = @ + 1]
        BY <2>1
      <3> HIDE DEF k
      <3>2. /\ call'.busy = call.busy /\ call'.start = call.start /\ call'.pair = call.pair
            /\ call'.protocol = call.protocol + 1 /\ call'.client = call.client
            /\ call' \in Calls
        BY <3>0, <3>1 DEF Calls
      <3> QED BY <1>1, <3>2 DEF k
    <2>3. CallOK' /\ ClientOK'
      <3>1. CallOK'
        BY <1>1, <1>2, <1>4, <2>1, <2>2 DEF CallOK
      <3>2. ClientOK'
        BY <1>1, <2>1, <2>2 DEF ClientOK, RouterInv
      <3> QED BY <3>1, <3>2
    <2>4. Rested' = Rested /\ Tried' <= Tried + 1 /\ Tried \in Nat /\ Tried' \in Nat
      BY SMTT(40), <1>1, <1>2, <2>1, <2>2 DEF Rested, Tried
    <2>5. Total(Rested)' = Total(Rested)
      BY <2>4
    <2>6. Total(Rested) + Tried' <= misses + 1
      BY <1>2, <1>3, <2>4
    <2> QED BY <1>1, <1>2, <2>1, <2>2, <2>3, <2>5, <2>6 DEF RouterInv
  <1>5. CASE ~ (call.protocol < Protocols[k])
    <2>1. /\ failedUntil' = tired
          /\ open # {} => call' = [call EXCEPT !.pair = Min(open), !.protocol = 1] /\ pc' = pc
          /\ open = {} => call' = NoCall /\ (call.client => pc' = "failed") /\ (~call.client => pc' = pc)
      BY <1>5 DEF ModelFails, Fail
    <2>2. /\ tired \in [1..Pairs -> Nat] /\ tired[k] = now + Cooldown[k]
          /\ tired[k] >= call.start /\ (Cooldown[k] > 0 => tired[k] > call.start) /\ tired[k] > 0
          /\ \A p \in 1..Pairs : p # k => tired[p] = failedUntil[p]
      <3> DEFINE until == now + Cooldown[k]
      <3>1. tired = [failedUntil EXCEPT ![k] = until]
        BY DEF CooldownPair
      <3>2. until \in Nat /\ until >= call.start /\ (Cooldown[k] > 0 => until > call.start) /\ until > 0
        BY SMTT(40), <1>2
      <3> HIDE DEF tired, until
      <3>3. tired \in [1..Pairs -> Nat] /\ tired[k] = until
            /\ \A p \in 1..Pairs : p # k => tired[p] = failedUntil[p]
        BY <1>2, <3>1, <3>2
      <3> QED BY <3>2, <3>3 DEF until
    <2> HIDE DEF tired
    <2>3. Rested' = Rested \cup {k}
      BY <1>2, <2>1, <2>2 DEF Rested
    <2>4. Tried' = 0
      <3>1. CASE open = {}
        BY <2>1, <3>1 DEF Tried, NoCall
      <3>2. CASE open # {}
        <4>1. call'.protocol = 1
          BY <1>2, <2>1, <3>2 DEF Calls
        <4> QED BY <4>1 DEF Tried
      <3> QED BY <3>1, <3>2
    <2>5. Total(Rested \cup {k}) <= misses + 1
      <3>1. CASE k \in Rested
        <4>1. Rested \cup {k} = Rested
          BY <3>1
        <4>2. Tried \in Nat
          BY <1>2 DEF Tried
        <4>3. Total(Rested \cup {k}) = Total(Rested)
          BY <4>1
        <4> HIDE DEF k
        <4> QED BY <1>2, <1>3, <4>2, <4>3
      <3>2. CASE k \notin Rested
        <4>1. Total(Rested \cup {k}) = Total(Rested) + Protocols[k]
          BY <1>2, <3>2, TotalAdds DEF Rested
        <4>2. failedUntil[k] = 0
          BY <1>2, <3>2 DEF Rested
        <4>3. Tried = Protocols[k] - 1
          BY <1>1, <1>2, <1>5, <4>2 DEF Tried
        <4> QED BY <1>2, <1>3, <4>1, <4>3
      <3> QED BY <3>1, <3>2
    <2>6. Total(Rested)' + Tried' <= misses'
      <3>1. Total(Rested)' = Total(Rested \cup {k})
        BY <2>3
      <3>2. Total(Rested \cup {k}) \in Nat
        BY <1>2, TotalAdds DEF Rested
      <3> QED BY <1>1, <2>4, <2>5, <3>1, <3>2
    <2>7. /\ open # {} => /\ Min(open) \in (k + 1)..Pairs
                          /\ \A p \in (k + 1)..(Min(open) - 1) : ~ (tired[p] <= call.start)
          /\ open = {} => \A p \in (k + 1)..Pairs : ~ (tired[p] <= call.start)
      <3>1. k + 1 \in Nat \ {0}
        BY SMTT(40), <1>2
      <3> QED BY <3>1, UsableFacts
    <2> HIDE DEF open
    <2>8. \A p \in 1..k : PassedOver(tired, p, call.start)
      <3> SUFFICES ASSUME NEW p \in 1..k PROVE PassedOver(tired, p, call.start)
        OBVIOUS
      <3>1. CASE p = k
        BY <2>2, <3>1 DEF PassedOver
      <3>2. CASE p # k
        <4>1. p \in 1..(k - 1) /\ p \in 1..Pairs
          BY <1>2, <3>2
        <4> QED BY <1>2, <2>2, <3>2, <4>1 DEF PassedOver
      <3> QED BY <3>1, <3>2
    <2>9. CASE open # {}
      <3>1. /\ call'.busy /\ call'.start = call.start /\ call'.pair = Min(open)
            /\ call'.protocol = 1 /\ call'.client = call.client
        BY <1>1, <1>2, <2>1, <2>9 DEF Calls
      <3>2. Min(open) \in 1..Pairs /\ Min(open) \in Nat /\ Protocols[Min(open)] \in Nat \ {0}
        <4>1. Min(open) \in 1..Pairs
          BY <1>2, <2>7, <2>9
        <4> QED BY <4>1, DreamAssumption
      <3>3. call' \in Calls
        <4>1. call' = [busy |-> call.busy, start |-> call.start, pair |-> Min(open), protocol |-> 1,
                       client |-> call.client]
          BY <1>2, <2>1, <2>9 DEF Calls
        <4>2. call.busy \in BOOLEAN /\ call.client \in BOOLEAN
          BY <1>2 DEF Calls
        <4> HIDE DEF open
        <4> QED BY <1>2, <3>2, <4>1, <4>2 DEF Calls
      <3>4. \A p \in 1..(Min(open) - 1) : PassedOver(tired, p, call.start)
        <4> SUFFICES ASSUME NEW p \in 1..(Min(open) - 1) PROVE PassedOver(tired, p, call.start)
          OBVIOUS
        <4>1. p \in 1..k \/ p \in (k + 1)..(Min(open) - 1)
          BY <1>2, <3>2
        <4>2. p \in 1..Pairs /\ tired[p] \in Nat
          BY <1>2, <2>2, <3>2
        <4>3. CASE p \in 1..k
          BY <2>8, <4>3
        <4>4. CASE p \in (k + 1)..(Min(open) - 1)
          <5>1. ~ (tired[p] <= call.start)
            BY <2>7, <2>9, <4>4
          <5> HIDE DEF k
          <5> QED BY <1>2, <4>2, <5>1, Skipped
        <4> QED BY <4>1, <4>3, <4>4
      <3>5. CallOK'
        BY <1>1, <1>2, <2>1, <3>1, <3>2, <3>3, <3>4 DEF CallOK
      <3>6. ClientOK'
        BY <1>1, <2>1, <2>9, <3>1 DEF RouterInv, ClientOK
      <3> QED BY <1>1, <1>2, <2>1, <2>2, <2>6, <3>1, <3>5, <3>6 DEF RouterInv
    <2>10. CASE open = {}
      <3>1. \A p \in 1..Pairs : PassedOver(tired, p, call.start)
        <4> SUFFICES ASSUME NEW p \in 1..Pairs PROVE PassedOver(tired, p, call.start)
          OBVIOUS
        <4>1. p \in 1..k \/ p \in (k + 1)..Pairs
          BY <1>2
        <4>2. tired[p] \in Nat
          BY <2>2
        <4> QED BY <1>2, <2>7, <2>8, <2>10, <4>1, <4>2, Skipped
      <3>2. CallOK' /\ ClientOK'
        <4>1. call' = NoCall /\ (call.client => pc' = "failed") /\ (~call.client => pc' = pc)
          BY <2>1, <2>10
        <4>2. CallOK'
          BY <4>1 DEF CallOK, Calls, NoCall
        <4>3. ClientOK'
          BY <1>1, <4>1 DEF RouterInv, ClientOK, NoCall
        <4> QED BY <4>2, <4>3
      <3> QED BY <1>1, <1>2, <2>1, <2>2, <2>6, <3>1, <3>2 DEF RouterInv
    <2> QED BY <2>9, <2>10
  <1> QED BY <1>4, <1>5

LEMMA StutterKeeps ==
  ASSUME RouterInv, UNCHANGED vars
  PROVE  RouterInv' /\ ~ (pc = "waiting" /\ pc' = "failed")
  <1>1. UNCHANGED <<failedUntil, call, backlog, waiting, now, misses, pc>>
    BY DEF vars
  <1>2. now \in Nat
    BY DEF RouterInv
  <1> QED BY <1>1, <1>2, RouterKept

\* Every step keeps the invariant, and the order
LEMMA RouterNext == RouterInv /\ [Next]_vars => RouterInv' /\ PreferredRoute
  <1> SUFFICES ASSUME RouterInv, [Next]_vars PROVE RouterInv' /\ PreferredRoute
    OBVIOUS
  <1> DEFINE Gives == pc = "waiting" /\ pc' = "failed" /\ ~call'.busy /\ backlog' = backlog
             Since == IF call.busy THEN call.start ELSE now
  <1>1. CASE QuietSteps
    <2>1. RouterInv' /\ ~Gives
      BY <1>1, QuietKeeps
    <2> QED BY <2>1 DEF RouterInv, CallOK, PreferredRoute
  <1>2. CASE CallRouter
    <2>1. RouterInv' /\ ~Gives
      BY <1>2, CallRouterKeeps
    <2> QED BY <2>1 DEF RouterInv, CallOK, PreferredRoute
  <1>3. CASE ClientTimeout
    <2>1. RouterInv' /\ ~Gives
      BY <1>3, ClientTimeoutKeeps
    <2> QED BY <2>1 DEF RouterInv, CallOK, PreferredRoute
  <1>4. CASE Serve
    <2>1. RouterInv' /\ (Gives => \A p \in 1..Pairs : PassedOver(failedUntil', p, Since))
      BY <1>4, ServeKeeps
    <2> QED BY <2>1 DEF RouterInv, CallOK, PreferredRoute
  <1>5. CASE ModelAnswers
    <2>1. RouterInv' /\ ~Gives
      BY <1>5, ModelAnswersKeeps
    <2> QED BY <2>1 DEF RouterInv, CallOK, PreferredRoute
  <1>6. CASE ModelFails
    <2>1. RouterInv' /\ (Gives => \A p \in 1..Pairs : PassedOver(failedUntil', p, Since))
      BY <1>6, ModelFailsKeeps
    <2> QED BY <2>1 DEF RouterInv, CallOK, PreferredRoute
  <1>7. CASE UNCHANGED vars
    <2>1. RouterInv' /\ ~Gives
      BY <1>7, StutterKeeps
    <2> QED BY <2>1 DEF RouterInv, CallOK, PreferredRoute
  <1> QED BY <1>1, <1>2, <1>3, <1>4, <1>5, <1>6, <1>7 DEF Next, QuietSteps, GatherSteps

\* What the invariant says of the sum is what RestIsEarned says
LEMMA Earned == RouterInv => RestIsEarned
  <1> SUFFICES ASSUME RouterInv PROVE RestIsEarned
    OBVIOUS
  <1>1. Total(Rested) \in Nat
    BY TotalAdds DEF Rested
  <1>2. Tried \in Nat
    BY DEF Tried, RouterInv, CallOK
  <1>3. Total(Rested) <= misses
    BY <1>1, <1>2 DEF RouterInv
  <1> QED BY <1>3 DEF RestIsEarned, Total, Rested

(* The clock, the failures and the call of the router are of their types, a    *)
(* call names a pair and a protocol it may be at, every pair it has passed     *)
(* over failed since it began or still rests, and a client waits for the call  *)
(* it made and no other, however many abandoned calls are queued before it and *)
(* whatever the cooldowns, none included (reason_task, fallback_router.py).    *)
THEOREM RouterConsistent == Spec => []RouterInv
  BY RouterStart, RouterNext, PTL DEF Spec

(* The router turns to a pair, or gives a client up, only when every pair      *)
(* before it has failed since the call began or rests from an earlier failure, *)
(* whatever calls and clients came in between and whatever the cooldowns, none *)
(* included; the pairs that have rested have no more protocols than protocols  *)
(* have failed (reason_task, fallback_router.py).                              *)
THEOREM RouterKeepsOrder == Spec => RouterSound
  <1>1. RouterInv /\ RouterInv' /\ [Next]_vars => [PreferredRoute /\ RestIsEarned']_vars
    <2>1. RouterInv' => RestIsEarned'
      BY Earned, PTL
    <2> QED BY <2>1, RouterNext
  <1> QED BY <1>1, RouterConsistent, PTL DEF Spec, RouterSound

-----------------------------------------------------------------------------
(***************************************************************************)
(* The gate.                                                               *)
(***************************************************************************)
\* Positions of a list of ids that are told apart, counted
LEMMA Counted ==
  ASSUME NEW m \in Nat, NEW S \in SUBSET (1..m)
  PROVE  Cardinality(S) \in 0..m
  <1>1. IsFiniteSet(1..m) /\ Cardinality(1..m) = m
    BY FS_Interval
  <1>2. IsFiniteSet(S) /\ Cardinality(S) <= m /\ Cardinality(S) \in Nat
    BY <1>1, FS_Subset, FS_CardinalityType
  <1> QED BY <1>2

LEMMA CappedAt ==
  ASSUME NEW k \in Nat, NEW x \in Nat
  PROVE  Min({k, x}) \in Nat /\ Min({k, x}) <= k /\ Min({k, x}) <= x
  <1>1. {k, x} \in SUBSET Nat /\ {k, x} # {}
    OBVIOUS
  <1> QED BY <1>1, MinOf

\* The three thresholds of a promotion, with the weights of the signals cleared of fractions
LEMMA Weights ==
  ASSUME NEW m \in Nat, m >= 2, NEW conf \in 0..100, NEW d \in 0..3, NEW types \in 0..2,
         NEW s \in 0..m, NEW v \in 0..m,
         350 * conf * m + 65 * (150 * d * m + 40 * (7 * s + 3 * v) + 75 * types * m) >= 78000 * m
  PROVE  /\ ~ (s = 0 /\ v = 0)
         /\ ~ (d <= 1 /\ types <= 1)
  <1>1. 350 * conf * m <= 35000 * m
    BY Z3
  <1>2. 150 * d * m <= 450 * m /\ (d <= 1 => 150 * d * m <= 150 * m)
    BY Z3
  <1>3. 75 * types * m <= 150 * m /\ (types <= 1 => 75 * types * m <= 75 * m)
    BY Z3
  <1> DEFINE A == 350 * conf * m
             B == 150 * d * m
             C == 75 * types * m
  <1>4. A \in Int /\ B \in Int /\ C \in Int
    OBVIOUS
  <1>5. A + 65 * (B + 40 * (7 * s + 3 * v) + C) >= 78000 * m
    OBVIOUS
  <1> HIDE DEF A, B, C
  <1>6. A <= 35000 * m /\ B <= 450 * m /\ (d <= 1 => B <= 150 * m)
        /\ C <= 150 * m /\ (types <= 1 => C <= 75 * m)
    BY <1>1, <1>2, <1>3 DEF A, B, C
  <1> QED BY <1>4, <1>5, <1>6

(* Whatever the reasoner's own confidence, and whatever ids a claim repeats,   *)
(* the gate promotes it only if it cites two different pieces of evidence, all *)
(* of the request, one of which has a verification of its own (the weights and *)
(* thresholds of _promotion_confidence and _evaluate_candidate, gate.py).      *)
THEOREM PromotionIsSupported ==
  ASSUME NEW R, NEW c, c.ids \in Seq(R), c.confidence \in 0..100, NEW byId,
         Evaluate(c, byId) = "promote"
  PROVE  /\ ToSet(c.ids) \subseteq DOMAIN byId /\ Cardinality(ToSet(c.ids)) >= 2
         /\ \E r \in ToSet(c.ids) : ~byId[r].direct /\ Verification[r] # ""
  <1> DEFINE m == Len(c.ids)
             Of(n) == IF byId[c.ids[n]].direct THEN "" ELSE Verification[c.ids[n]]
             S == {n \in 1..m : Of(n) = "strong"}
             V == {n \in 1..m : Of(n) # ""}
             Y == {(c.ids[n] \in Episodes) : n \in 1..m}
             d == Min({3, Distinct(c.ids)})
             y == Min({2, Cardinality(Y)})
  <1>1. /\ ToSet(c.ids) \subseteq DOMAIN byId /\ m \in Nat /\ m >= 2
        /\ Confidence(c, byId) >= 78000 * m
    <2>1. m \in Nat
      OBVIOUS
    <2> QED BY <2>1 DEF Evaluate
  <1>2. ToSet(c.ids) = {c.ids[n] : n \in 1..m}
    BY DEF ToSet
  <1>3. Cardinality(S) \in 0..m /\ Cardinality(V) \in 0..m
    <2>1. S \in SUBSET (1..m) /\ V \in SUBSET (1..m)
      OBVIOUS
    <2> HIDE DEF S, V, m
    <2> QED BY <1>1, <2>1, Counted
  <1>4. IsFiniteSet(ToSet(c.ids)) /\ IsFiniteSet(Y)
    <2>1. IsFiniteSet(1..m)
      BY <1>1, FS_Interval
    <2> DEFINE g == [n \in 1..m |-> c.ids[n]]
               h == [n \in 1..m |-> (c.ids[n] \in Episodes)]
    <2>2. g \in Surjection(1..m, ToSet(c.ids))
      BY <1>2 DEF Surjection
    <2>3. h \in Surjection(1..m, Y)
      BY Zenon DEF Surjection
    <2> HIDE DEF g, h, Y, m
    <2> QED BY <2>1, <2>2, <2>3, FS_Surjection
  <1>5. Distinct(c.ids) \in Nat /\ Cardinality(Y) \in Nat
    BY <1>4, FS_CardinalityType DEF Distinct
  <1>6. d \in 0..3 /\ y \in 0..2 /\ d <= Distinct(c.ids) /\ y <= Cardinality(Y)
    <2> DEFINE x == Distinct(c.ids)
               z == Cardinality(Y)
    <2> HIDE DEF x, z
    <2>1. x \in Nat /\ z \in Nat
      BY <1>5 DEF x, z
    <2>2. /\ Min({3, x}) \in Nat /\ Min({3, x}) <= 3 /\ Min({3, x}) <= x
          /\ Min({2, z}) \in Nat /\ Min({2, z}) <= 2 /\ Min({2, z}) <= z
      BY <2>1, CappedAt
    <2>3. d = Min({3, x}) /\ y = Min({2, z})
      BY DEF x, z
    <2> HIDE DEF d, y
    <2>4. d <= x /\ y <= z /\ d \in 0..3 /\ y \in 0..2
      BY <2>2, <2>3
    <2> QED BY <2>4 DEF x, z
  <1>7. 350 * c.confidence * m
          + 65 * (150 * d * m + 40 * (7 * Cardinality(S) + 3 * Cardinality(V)) + 75 * y * m) >= 78000 * m
    <2>1. Confidence(c, byId) = 350 * c.confidence * m
            + 65 * (150 * d * m + 40 * (7 * Cardinality(S) + 3 * Cardinality(V)) + 75 * y * m)
      BY Zenon DEF Confidence
    <2> HIDE DEF d, y, S, V, Y, m
    <2> QED BY <1>1, <2>1
  <1> HIDE DEF d, y, S, V, Y, m
  <1>8. ~ (Cardinality(S) = 0 /\ Cardinality(V) = 0) /\ ~ (d <= 1 /\ y <= 1)
    <2> DEFINE s == Cardinality(S)
               v == Cardinality(V)
               conf == c.confidence
    <2>1. s \in 0..m /\ v \in 0..m /\ conf \in 0..100
      BY <1>3
    <2>2. 350 * conf * m + 65 * (150 * d * m + 40 * (7 * s + 3 * v) + 75 * y * m) >= 78000 * m
      BY <1>7
    <2> HIDE DEF s, v, conf
    <2>3. ~ (s = 0 /\ v = 0) /\ ~ (d <= 1 /\ y <= 1)
      BY <1>1, <1>6, <2>1, <2>2, Weights
    <2> QED BY <2>3 DEF s, v
  <1>9. \E r \in ToSet(c.ids) : ~byId[r].direct /\ Verification[r] # ""
    <2>1. V # {}
      <3>1. S \subseteq V
        BY DEF S, V
      <3> QED BY <1>8, <3>1, FS_EmptySet
    <2>2. PICK n \in 1..m : Of(n) # ""
      BY <2>1 DEF V
    <2> QED BY <1>2, <2>2
  <1>10. Cardinality(ToSet(c.ids)) >= 2
    <2> SUFFICES ASSUME Cardinality(ToSet(c.ids)) <= 1 PROVE FALSE
      BY <1>5 DEF Distinct
    <2>1. c.ids[1] \in ToSet(c.ids)
      BY <1>1, <1>2
    <2>2. ToSet(c.ids) = {c.ids[1]}
      <3>1. Cardinality(ToSet(c.ids) \ {c.ids[1]}) = Cardinality(ToSet(c.ids)) - 1
        BY <1>4, <2>1, FS_RemoveElement
      <3>2. IsFiniteSet(ToSet(c.ids) \ {c.ids[1]})
        BY <1>4, FS_Subset
      <3>3. Cardinality(ToSet(c.ids) \ {c.ids[1]}) = 0
        BY <1>5, <3>1, <3>2, FS_CardinalityType DEF Distinct
      <3>4. ToSet(c.ids) \ {c.ids[1]} = {}
        BY <3>2, <3>3, FS_EmptySet
      <3> QED BY <2>1, <3>4
    <2>3. Y = {(c.ids[1] \in Episodes)}
      <3>1. \A n \in 1..m : c.ids[n] = c.ids[1]
        BY <1>2, <2>2
      <3>2. 1 \in 1..m
        BY <1>1
      <3> QED BY <3>1, <3>2 DEF Y
    <2>4. Cardinality(Y) = 1
      BY <2>3, FS_Singleton
    <2> QED BY <1>5, <1>6, <1>8, <2>4 DEF Distinct
  <1>11. ToSet(c.ids) \subseteq DOMAIN byId
    BY <1>1
  <1> HIDE DEF Of
  <1> QED BY <1>9, <1>10, <1>11

-----------------------------------------------------------------------------
(***************************************************************************)
(* The merge of the gate is a fold over the candidates that rewrites its   *)
(* results as it goes: a fold runs through the values of its accumulator   *)
(* one position at a time, and each step keeps what holds of the           *)
(* candidates seen so far.                                                 *)
(***************************************************************************)
\* A bounded set of numbers contains its maximum
LEMMA MaxOf ==
  ASSUME NEW n \in Nat, NEW S \in SUBSET (1..n), S # {}
  PROVE  Max(S) \in S
  <1> DEFINE T == {n - x : x \in S}
  <1>0. \A x \in S : x \in Nat /\ n - x \in Nat
    OBVIOUS
  <1>1. T \in SUBSET Nat /\ T # {}
    BY <1>0
  <1> HIDE DEF T
  <1>2. PICK m \in T : \A k \in T : m <= k
    BY <1>1, LeastNat
  <1>3. PICK x \in S : m = n - x
    BY <1>2 DEF T
  <1>4. \A y \in S : x >= y
    <2>1. ASSUME NEW y \in S PROVE x >= y
      <3>1. n - y \in T
        BY DEF T
      <3> QED BY <1>2, <1>3, <3>1
    <2> QED BY <2>1
  <1> QED BY <1>4 DEF Max

\* Without its greatest element a set lies below it
LEMMA SmallerSet ==
  ASSUME NEW n \in Nat, NEW S \in SUBSET (1..n), S # {}
  PROVE  /\ Max(S) \in 1..n /\ S \ {Max(S)} \in SUBSET (1..n)
         /\ Cardinality(S) \in Nat /\ Cardinality(S \ {Max(S)}) = Cardinality(S) - 1
         /\ Cardinality(S) \in 1..n
  <1>0. 1 \in Int /\ n \in Int
    OBVIOUS
  <1>1. Max(S) \in S
    BY MaxOf
  <1>1a. IsFiniteSet(1..n) /\ Cardinality(1..n) = IF 1 > n THEN 0 ELSE n - 1 + 1
    BY <1>0, FS_Interval
  <1>1b. Cardinality(1..n) = n
    BY <1>1a
  <1>2. IsFiniteSet(S) /\ Cardinality(S) <= n
    BY <1>1a, <1>1b, FS_Subset
  <1>3. Cardinality(S \ {Max(S)}) = Cardinality(S) - 1
    BY <1>1, <1>2, FS_RemoveElement
  <1>4. Cardinality(S) \in Nat /\ Cardinality(S) # 0
    BY <1>2, FS_CardinalityType, FS_EmptySet
  <1>5. Max(S) \in 1..n
    BY <1>1
  <1>6. Cardinality(S) \in 1..n
    BY <1>2, <1>4
  <1> QED BY <1>3, <1>4, <1>5, <1>6

\* A set of the first n numbers is finite, and has at most n elements
LEMMA CardBound ==
  ASSUME NEW n \in Nat, NEW S \in SUBSET (1..n)
  PROVE  Cardinality(S) \in Nat /\ Cardinality(S) <= n /\ (S = {} <=> Cardinality(S) = 0)
  <1>1. CASE S = {}
    BY <1>1, FS_EmptySet
  <1>2. CASE S # {}
    <2>1. Cardinality(S) \in 1..n
      BY <1>2, SmallerSet
    <2>2. Cardinality(S) \in Nat /\ Cardinality(S) <= n /\ Cardinality(S) # 0
      BY <2>1
    <2> QED BY <1>2, <2>2
  <1> QED BY <1>1, <1>2

\* The value of a fold on each set of indices, the greatest taken last
FoldsTo(it, n, A, base, G) ==
  /\ it \in [SUBSET (1..n) -> A]
  /\ \A S \in SUBSET (1..n) : it[S] = IF S = {} THEN base ELSE G[<<Max(S), it[S \ {Max(S)}]>>]

\* A fold from the greatest element down is defined for every set of positions
LEMMA FoldExists ==
  ASSUME NEW n \in Nat, NEW A, NEW base \in A, NEW G \in [(1..n) \X A -> A]
  PROVE  \E it : FoldsTo(it, n, A, base, G)
  <1> DEFINE D(m) == {S \in SUBSET (1..n) : Cardinality(S) <= m}
             E(m) == \E f \in [D(m) -> A] :
                       f = [S \in D(m) |-> IF S = {} THEN base ELSE G[<<Max(S), f[S \ {Max(S)}]>>]]
             T == {m \in Nat : ~E(m)}
  <1>0. D(n) = SUBSET (1..n)
    <2>1. \A S \in SUBSET (1..n) : Cardinality(S) <= n
      BY CardBound
    <2> QED BY <2>1
  <1>1. \A m \in Nat : E(m)
    <2> SUFFICES ASSUME T # {} PROVE FALSE
      OBVIOUS
    <2> HIDE DEF E
    <2>1. PICK m \in T : \A k \in T : m <= k
      BY LeastNat
    <2>2. m \in Nat /\ ~E(m)
      OBVIOUS
    <2>3. CASE m = 0
      <3>1. D(0) = {{}}
        <4>1. ASSUME NEW S \in D(0) PROVE S = {}
          <5>1. S \in SUBSET (1..n) /\ Cardinality(S) <= 0
            OBVIOUS
          <5> QED BY <5>1, CardBound
        <4>2. {} \in D(0)
          BY FS_EmptySet
        <4> QED BY <4>1, <4>2
      <3>2. [S \in D(0) |-> base] \in [D(0) -> A]
        OBVIOUS
      <3>3. E(0)
        BY <3>1, <3>2 DEF E
      <3> QED BY <2>2, <2>3, <3>3
    <2>4. CASE m # 0
      <3> DEFINE p == m - 1
      <3>1. p \in Nat /\ E(p) /\ m = p + 1
        BY <2>1, <2>2, <2>4
      <3> HIDE DEF p
      <3>2. PICK f \in [D(p) -> A] :
              f = [S \in D(p) |-> IF S = {} THEN base ELSE G[<<Max(S), f[S \ {Max(S)}]>>]]
        BY <3>1 DEF E
      <3> DEFINE g == [S \in D(m) |-> IF S = {} THEN base ELSE G[<<Max(S), f[S \ {Max(S)}]>>]]
      <3>3. \A S \in D(m) : S # {} => S \ {Max(S)} \in D(p) /\ Max(S) \in 1..n
        <4>1. ASSUME NEW S \in D(m), S # {} PROVE S \ {Max(S)} \in D(p) /\ Max(S) \in 1..n
          <5>1. S \in SUBSET (1..n) /\ Cardinality(S) <= m
            OBVIOUS
          <5>2. /\ Max(S) \in 1..n /\ S \ {Max(S)} \in SUBSET (1..n)
                /\ Cardinality(S) \in Nat /\ Cardinality(S \ {Max(S)}) = Cardinality(S) - 1
            BY <4>1, <5>1, SmallerSet
          <5>3. Cardinality(S \ {Max(S)}) <= p
            BY <3>1, <5>1, <5>2
          <5> QED BY <5>2, <5>3
        <4> QED BY <4>1
      <3>4. \A S \in D(p) : S \in D(m) /\ g[S] = f[S]
        <4>1. \A S \in D(p) : S \in D(m)
          <5>1. ASSUME NEW S \in D(p) PROVE S \in D(m)
            <6>1. S \in SUBSET (1..n) /\ Cardinality(S) <= p
              OBVIOUS
            <6>2. Cardinality(S) <= m
              BY <3>1, <6>1, CardBound
            <6> QED BY <6>1, <6>2
          <5> QED BY <5>1
        <4> QED BY <3>2, <4>1
      <3>5. g \in [D(m) -> A]
        BY <3>2, <3>3
      <3>6. g = [S \in D(m) |-> IF S = {} THEN base ELSE G[<<Max(S), g[S \ {Max(S)}]>>]]
        <4> SUFFICES ASSUME NEW S \in D(m)
                     PROVE  g[S] = IF S = {} THEN base ELSE G[<<Max(S), g[S \ {Max(S)}]>>]
          OBVIOUS
        <4>1. CASE S = {}
          BY <4>1
        <4>2. CASE S # {}
          <5>1. g[S \ {Max(S)}] = f[S \ {Max(S)}]
            BY <3>3, <3>4, <4>2
          <5> QED BY <4>2, <5>1
        <4> QED BY <4>1, <4>2
      <3> HIDE DEF g
      <3>7. E(m)
        BY <3>5, <3>6 DEF E
      <3> QED BY <2>2, <3>7
    <2> QED BY <2>3, <2>4
  <1>2. E(n)
    BY <1>1
  <1>3. PICK f \in [D(n) -> A] :
          f = [S \in D(n) |-> IF S = {} THEN base ELSE G[<<Max(S), f[S \ {Max(S)}]>>]]
    BY <1>2
  <1>4. \A S \in D(n) : f[S] = IF S = {} THEN base ELSE G[<<Max(S), f[S \ {Max(S)}]>>]
    BY <1>3
  <1> HIDE DEF D
  <1> QED BY <1>0, <1>4 DEF FoldsTo

\* The first k positions, the last one taken first
LEMMA FirstPositions ==
  ASSUME NEW n \in Nat, NEW k \in 1..n
  PROVE  /\ 1..k \in SUBSET (1..n) /\ 1..k # {} /\ Max(1..k) = k
         /\ (1..k) \ {k} = 1..(k - 1)
  <1>1. Max(1..k) = k
    <2>1. \A x \in 1..k : k >= x
      OBVIOUS
    <2>2. k \in 1..k
      OBVIOUS
    <2>3. \A x \in 1..k : (\A y \in 1..k : x >= y) => x = k
      BY <2>2
    <2> QED BY <2>1, <2>2, <2>3 DEF Max
  <1> QED BY <1>1

\* What holds before the first position and is kept at each holds after the last
LEMMA StepByStep ==
  ASSUME NEW n \in Nat, NEW Good, 0 \in Good, \A k \in 1..n : k - 1 \in Good => k \in Good
  PROVE  n \in Good
  <1> DEFINE T == {k \in 0..n : k \notin Good}
  <1> SUFFICES ASSUME T # {} PROVE FALSE
    OBVIOUS
  <1>1. T \in SUBSET Nat
    OBVIOUS
  <1>2. PICK m \in T : \A k \in T : m <= k
    BY <1>1, LeastNat
  <1>3. m \in 1..n /\ m - 1 \notin T
    BY <1>2
  <1> QED BY <1>3

\* The greatest of a set
LEMMA MaxIs ==
  ASSUME NEW S \in SUBSET Nat, NEW x \in S, \A y \in S : y <= x
  PROVE  Max(S) = x
  <1>1. \A z \in S : (\A y \in S : z >= y) => z = x
    OBVIOUS
  <1>2. \A y \in S : x >= y
    OBVIOUS
  <1> QED BY <1>1, <1>2 DEF Max

-----------------------------------------------------------------------------
(***************************************************************************)
(* Merging.                                                                *)
(***************************************************************************)
\* Candidates with texts, kinds and topics of W that cite ids of R
CandidateSet(W, R) == [text : W, kind : W, topic : W, ids : Seq(R), confidence : Nat]

LEMMA Appended ==
  ASSUME NEW R, NEW s \in Seq(R), NEW x \in R
  PROVE  Append(s, x) \in Seq(R) /\ ToSet(Append(s, x)) = ToSet(s) \cup {x}
  <1>1. /\ Append(s, x) \in Seq(R) /\ DOMAIN s = 1..Len(s) /\ Len(s) \in Nat
        /\ DOMAIN Append(s, x) = 1..(Len(s) + 1) /\ Append(s, x)[Len(s) + 1] = x
        /\ \A n \in 1..Len(s) : Append(s, x)[n] = s[n]
    OBVIOUS
  <1>2. 1..(Len(s) + 1) = (1..Len(s)) \cup {Len(s) + 1}
    BY <1>1
  <1>3. ASSUME NEW r PROVE r \in ToSet(Append(s, x)) <=> r \in ToSet(s) \/ r = x
    BY <1>1, <1>2 DEF ToSet
  <1> QED BY <1>1, <1>3

\* Picking goes through a list position after position
PicksOf(all, P, A, it) ==
  /\ it \in [0..Len(all) -> A] /\ it[0] = <<>> /\ Picked(all, P) = it[Len(all)]
  /\ \A m \in 1..Len(all) : it[m] = IF m \in P THEN Append(it[m - 1], all[m]) ELSE it[m - 1]

LEMMA PickedSteps ==
  ASSUME NEW A0, NEW all \in Seq(A0), NEW P
  PROVE  \E picks : PicksOf(all, P, Seq(A0), picks)
  <1> DEFINE n == Len(all)
             A == Seq(A0)
             Put(acc, m) == IF m \in P THEN Append(acc, all[m]) ELSE acc
             iter[S \in SUBSET (DOMAIN all)] ==
               IF S = {} THEN <<>> ELSE LET m == Max(S) IN Put(iter[S \ {m}], [k \in DOMAIN all |-> k][m])
             G == [p \in (1..n) \X A |-> Put(p[2], p[1])]
  <1>1. Picked(all, P) = iter[DOMAIN all]
    BY DEF Picked, FoldLeft, MapThenFoldSet
  <1>2. n \in Nat /\ DOMAIN all = 1..n /\ \A m \in 1..n : all[m] \in A0
    OBVIOUS
  <1>3. G \in [(1..n) \X A -> A] /\ \A m \in 1..n, a \in A : G[<<m, a>>] = Put(a, m)
    <2>1. ASSUME NEW m \in 1..n, NEW a \in A PROVE Put(a, m) \in A
      BY <1>2
    <2> HIDE DEF A, n, Put
    <2> QED BY <2>1
  <1>0. <<>> \in A
    OBVIOUS
  <1> HIDE DEF n, G, iter, A
  <1>4. PICK it : FoldsTo(it, n, A, <<>>, G)
    BY <1>0, <1>2, <1>3, FoldExists
  <1> HIDE DEF Put
  <1>5. it = [S \in SUBSET (DOMAIN all) |->
                IF S = {} THEN <<>> ELSE LET m == Max(S) IN Put(it[S \ {m}], [k \in DOMAIN all |-> k][m])]
    <2>1. /\ it \in [SUBSET (1..n) -> A]
          /\ \A S \in SUBSET (1..n) : it[S] = IF S = {} THEN <<>> ELSE G[<<Max(S), it[S \ {Max(S)}]>>]
      BY <1>4 DEF FoldsTo
    <2>2. ASSUME NEW S \in SUBSET (1..n), S # {}
          PROVE  G[<<Max(S), it[S \ {Max(S)}]>>] = Put(it[S \ {Max(S)}], [k \in DOMAIN all |-> k][Max(S)])
      <3>1. Max(S) \in 1..n /\ S \ {Max(S)} \in SUBSET (1..n)
        BY <1>2, <2>2, SmallerSet
      <3>2. [k \in DOMAIN all |-> k][Max(S)] = Max(S)
        BY <1>2, <3>1
      <3> QED BY <1>3, <2>1, <3>1, <3>2
    <2> QED BY <1>2, <2>1, <2>2
  <1>6. iter = [S \in SUBSET (DOMAIN all) |->
                IF S = {} THEN <<>> ELSE LET m == Max(S) IN Put(iter[S \ {m}], [k \in DOMAIN all |-> k][m])]
    <2>1. iter = CHOOSE g : g = [S \in SUBSET (DOMAIN all) |->
                IF S = {} THEN <<>> ELSE LET m == Max(S) IN Put(g[S \ {m}], [k \in DOMAIN all |-> k][m])]
      BY DEF iter
    <2> QED BY <1>5, <2>1
  <1>7. iter[1..0] = <<>>
    <2>1. 1..0 = {} /\ 1..0 \in SUBSET (DOMAIN all)
      OBVIOUS
    <2> QED BY <1>6, <2>1
  <1>8. ASSUME NEW m \in 1..n PROVE iter[1..m] = Put(iter[1..(m - 1)], m)
    <2>1. /\ 1..m \in SUBSET (1..n) /\ 1..m # {} /\ Max(1..m) = m
          /\ (1..m) \ {m} = 1..(m - 1)
      BY <1>2, FirstPositions
    <2>2. [k \in DOMAIN all |-> k][m] = m
      BY <1>2
    <2> QED BY <1>2, <1>6, <2>1, <2>2
  <1> DEFINE Good == {m \in 0..n : iter[1..m] \in A}
             picks == [m \in 0..n |-> iter[1..m]]
  <1>9. ASSUME NEW k \in 0..n PROVE k \in Good
    <2>1. 0 \in Good
      BY <1>0, <1>2, <1>7
    <2>2. ASSUME NEW m \in 1..k, m - 1 \in Good PROVE m \in Good
      <3>1. m \in 1..n
        BY <1>2
      <3>2. iter[1..m] = Put(iter[1..(m - 1)], m) /\ iter[1..(m - 1)] \in A
        BY <1>8, <2>2, <3>1
      <3>3. iter[1..m] \in A
        BY <1>2, <3>1, <3>2 DEF Put, A
      <3> QED BY <1>2, <3>1, <3>3
    <2>3. k \in Nat
      BY <1>2
    <2> HIDE DEF Good
    <2> QED BY <2>1, <2>2, <2>3, StepByStep
  <1>10. picks \in [0..n -> A]
    BY <1>9
  <1>11. picks[0] = <<>> /\ picks[n] = Picked(all, P)
    BY <1>1, <1>2, <1>7
  <1>12. ASSUME NEW k \in 1..n PROVE picks[k] = IF k \in P THEN Append(picks[k - 1], all[k]) ELSE picks[k - 1]
    <2>1. k \in 0..n /\ k - 1 \in 0..n
      BY <1>2
    <2> QED BY <1>8, <2>1 DEF Put
  <1> HIDE DEF picks
  <1> QED BY <1>10, <1>11, <1>12 DEF PicksOf, n, A

\* It keeps the places of what it picks in order, and picks all of them
Selects(all, P, s, pos, m) ==
  /\ pos \in [1..Len(s) -> (1..m) \cap P]
  /\ \A i \in 1..Len(s) : s[i] = all[pos[i]] /\ i <= pos[i]
  /\ \A i, j \in 1..Len(s) : i < j => pos[i] < pos[j]
  /\ \A k \in (1..m) \cap P : \E i \in 1..Len(s) : pos[i] = k

LEMMA PickedPositions ==
  ASSUME NEW A0, NEW all \in Seq(A0), NEW P
  PROVE  \E pos : Selects(all, P, Picked(all, P), pos, Len(all))
  <1> DEFINE n == Len(all)
  <1>1. n \in Nat /\ \A k \in 1..n : all[k] \in A0
    OBVIOUS
  <1>2. PICK it : PicksOf(all, P, Seq(A0), it)
    BY PickedSteps
  <1>3. /\ \A k \in 0..n : it[k] \in Seq(A0)
        /\ it[0] = <<>> /\ Picked(all, P) = it[n]
        /\ \A m \in 1..n : it[m] = IF m \in P THEN Append(it[m - 1], all[m]) ELSE it[m - 1]
    BY <1>2 DEF PicksOf
  <1> HIDE DEF n
  <1> DEFINE Good == {m \in 0..n : \E pos : Selects(all, P, it[m], pos, m)}
  <1>4. 0 \in Good
    <2>1. Len(it[0]) = 0 /\ 1..0 = {} /\ 0 \in 0..n
      BY <1>1, <1>3
    <2>2. Selects(all, P, it[0], [i \in 1..0 |-> 1], 0)
      BY <2>1 DEF Selects
    <2> QED BY <2>1, <2>2
  <1>5. ASSUME NEW m \in 1..n, m - 1 \in Good PROVE m \in Good
    <2> DEFINE s == it[m - 1]
               l == Len(s)
    <2>1. PICK pos : Selects(all, P, s, pos, m - 1)
      BY <1>5
    <2>2. m - 1 \in 0..n /\ m \in 0..n
      BY <1>1
    <2>3. s \in Seq(A0) /\ l \in Nat
      BY <1>3, <2>2
    <2>4. /\ pos \in [1..l -> (1..(m - 1)) \cap P]
          /\ \A i \in 1..l : s[i] = all[pos[i]] /\ i <= pos[i]
          /\ \A i, j \in 1..l : i < j => pos[i] < pos[j]
          /\ \A k \in (1..(m - 1)) \cap P : \E i \in 1..l : pos[i] = k
      BY <2>1 DEF Selects
    <2>5. CASE m \in P
      <3> DEFINE t == Append(s, all[m])
                 next == [i \in 1..(l + 1) |-> IF i = l + 1 THEN m ELSE pos[i]]
      <3>1. it[m] = t /\ all[m] \in A0
        BY <1>1, <1>3, <2>5
      <3> HIDE DEF s, l
      <3>2. Len(t) = l + 1 /\ t[l + 1] = all[m] /\ \A i \in 1..l : t[i] = s[i]
        BY <2>3, <3>1 DEF l
      <3>3. \A i \in 1..l : pos[i] \in 1..(m - 1) /\ pos[i] \in P
        BY <2>4
      <3>4. next \in [1..(l + 1) -> (1..m) \cap P]
        BY <2>3, <2>5, <3>3
      <3>5. l + 1 <= m
        <4>1. CASE l = 0
          BY <4>1
        <4>2. CASE l # 0
          <5>1. l \in 1..l
            BY <2>3, <4>2
          <5>2. l <= pos[l] /\ pos[l] \in 1..(m - 1)
            BY <2>4, <3>3, <5>1
          <5> QED BY <2>3, <5>2
        <4> QED BY <4>1, <4>2
      <3>6. \A i \in 1..(l + 1) : t[i] = all[next[i]] /\ i <= next[i]
        BY <2>3, <2>4, <3>2, <3>5
      <3>7. \A i, j \in 1..(l + 1) : i < j => next[i] < next[j]
        <4>1. ASSUME NEW i \in 1..(l + 1), NEW j \in 1..(l + 1), i < j PROVE next[i] < next[j]
          <5>1. i \in 1..l /\ next[i] = pos[i] /\ pos[i] \in 1..(m - 1)
            BY <2>3, <3>3, <4>1
          <5>2. CASE j = l + 1
            BY <5>1, <5>2
          <5>3. CASE j # l + 1
            <6>1. j \in 1..l /\ next[j] = pos[j]
              BY <2>3, <5>3
            <6> QED BY <2>4, <4>1, <5>1, <6>1
          <5> QED BY <5>2, <5>3
        <4> QED BY <4>1
      <3>8. \A k \in (1..m) \cap P : \E i \in 1..(l + 1) : next[i] = k
        <4>1. ASSUME NEW k \in (1..m) \cap P PROVE \E i \in 1..(l + 1) : next[i] = k
          <5>1. CASE k = m
            <6>1. l + 1 \in 1..(l + 1) /\ next[l + 1] = m
              BY <2>3
            <6> QED BY <5>1, <6>1
          <5>2. CASE k # m
            <6>1. k \in (1..(m - 1)) \cap P
              BY <5>2
            <6>2. PICK i \in 1..l : pos[i] = k
              BY <2>4, <6>1
            <6>3. i \in 1..(l + 1) /\ next[i] = pos[i]
              BY <2>3
            <6> QED BY <6>2, <6>3
          <5> QED BY <5>1, <5>2
        <4> QED BY <4>1
      <3> HIDE DEF next, t
      <3>9. Selects(all, P, it[m], next, m)
        BY <3>1, <3>2, <3>4, <3>6, <3>7, <3>8 DEF Selects
      <3> QED BY <2>2, <3>9
    <2>6. CASE m \notin P
      <3>1. it[m] = s
        BY <1>3, <2>6
      <3>2. (1..m) \cap P = (1..(m - 1)) \cap P
        BY <2>6
      <3>3. Selects(all, P, it[m], pos, m)
        BY <2>4, <3>1, <3>2 DEF Selects
      <3> QED BY <2>2, <3>3
    <2> QED BY <2>5, <2>6
  <1>6. n \in Good
    <2> HIDE DEF Good
    <2> QED BY <1>1, <1>4, <1>5, StepByStep
  <1> QED BY <1>3, <1>6 DEF n

LEMMA PickedFacts ==
  ASSUME NEW A0, NEW all \in Seq(A0), NEW P
  PROVE  Picked(all, P) \in Seq(A0) /\ ToSet(Picked(all, P)) = {all[k] : k \in DOMAIN all \cap P}
  <1> DEFINE s == Picked(all, P)
  <1>1. s \in Seq(A0)
    <2>1. PICK it : PicksOf(all, P, Seq(A0), it)
      BY PickedSteps
    <2>2. Len(all) \in 0..Len(all)
      OBVIOUS
    <2> QED BY <2>1, <2>2 DEF PicksOf
  <1>2. PICK pos : Selects(all, P, s, pos, Len(all))
    BY PickedPositions
  <1> HIDE DEF s
  <1>3. DOMAIN s = 1..Len(s) /\ DOMAIN all = 1..Len(all)
    BY <1>1
  <1>4. \A i \in 1..Len(s) : s[i] = all[pos[i]] /\ pos[i] \in DOMAIN all \cap P
    BY <1>2, <1>3 DEF Selects
  <1>5. \A k \in DOMAIN all \cap P : \E i \in 1..Len(s) : s[i] = all[k]
    BY <1>2, <1>3, <1>4 DEF Selects
  <1>6. ToSet(s) = {all[k] : k \in DOMAIN all \cap P}
    <2>1. ToSet(s) = {s[i] : i \in 1..Len(s)}
      BY <1>3 DEF ToSet
    <2>2. ASSUME NEW i \in 1..Len(s) PROVE s[i] \in {all[k] : k \in DOMAIN all \cap P}
      BY <1>4
    <2>3. ASSUME NEW k \in DOMAIN all \cap P PROVE all[k] \in {s[i] : i \in 1..Len(s)}
      BY <1>5
    <2> QED BY <2>1, <2>2, <2>3
  <1> QED BY <1>1, <1>6 DEF s

\* A list without its repetitions has the same members
LEMMA NoRepeatKeepsAll ==
  ASSUME NEW R, NEW all \in Seq(R), NEW P, P = {n \in DOMAIN all : \A k \in 1..(n - 1) : all[k] # all[n]}
  PROVE  Picked(all, P) \in Seq(R) /\ ToSet(Picked(all, P)) = ToSet(all)
  <1>1. Picked(all, P) \in Seq(R) /\ ToSet(Picked(all, P)) = {all[k] : k \in DOMAIN all \cap P}
    BY PickedFacts
  <1>2. ASSUME NEW n \in DOMAIN all PROVE \E k \in DOMAIN all \cap P : all[k] = all[n]
    <2> DEFINE T == {k \in DOMAIN all : all[k] = all[n]}
    <2>1. T \in SUBSET Nat /\ T # {} /\ DOMAIN all = 1..Len(all) /\ Len(all) \in Nat
      OBVIOUS
    <2>2. PICK m \in T : \A k \in T : m <= k
      BY <2>1, LeastNat
    <2>3. \A k \in 1..(m - 1) : k \in DOMAIN all /\ k \notin T
      BY <2>1, <2>2
    <2> QED BY <2>2, <2>3
  <1>3. {all[k] : k \in DOMAIN all \cap P} = {all[k] : k \in DOMAIN all}
    BY <1>2
  <1> QED BY <1>1, <1>3 DEF ToSet

LEMMA Joined ==
  ASSUME NEW R, NEW s \in Seq(R), NEW t \in Seq(R)
  PROVE  s \o t \in Seq(R) /\ ToSet(s \o t) = ToSet(s) \cup ToSet(t)
  <1>1. s \o t \in Seq(R) /\ DOMAIN s = 1..Len(s) /\ DOMAIN t = 1..Len(t)
        /\ DOMAIN (s \o t) = 1..(Len(s) + Len(t)) /\ Len(s) \in Nat /\ Len(t) \in Nat
    OBVIOUS
  <1>2. ASSUME NEW n \in 1..Len(s)
        PROVE  n \in 1..(Len(s) + Len(t)) /\ (s \o t)[n] = s[n]
    BY <1>1
  <1>3. ASSUME NEW n \in 1..Len(t)
        PROVE  n + Len(s) \in 1..(Len(s) + Len(t)) /\ (s \o t)[n + Len(s)] = t[n]
    BY <1>1
  <1>4. ASSUME NEW n \in 1..(Len(s) + Len(t))
        PROVE  \/ n \in 1..Len(s) /\ (s \o t)[n] = s[n]
               \/ n - Len(s) \in 1..Len(t) /\ (s \o t)[n] = t[n - Len(s)]
    BY <1>1
  <1>5. ASSUME NEW r PROVE r \in ToSet(s \o t) <=> r \in ToSet(s) \/ r \in ToSet(t)
    <2>1. ASSUME r \in ToSet(s \o t) PROVE r \in ToSet(s) \/ r \in ToSet(t)
      BY <1>1, <1>4, <2>1 DEF ToSet
    <2>2. ASSUME r \in ToSet(s) PROVE r \in ToSet(s \o t)
      BY <1>1, <1>2, <2>2 DEF ToSet
    <2>3. ASSUME r \in ToSet(t) PROVE r \in ToSet(s \o t)
      <3>1. PICK n \in 1..Len(t) : r = t[n]
        BY <1>1, <2>3 DEF ToSet
      <3> QED BY <1>1, <1>3, <3>1 DEF ToSet
    <2> QED BY <2>1, <2>2, <2>3
  <1> QED BY <1>1, <1>5

LEMMA Replaced ==
  ASSUME NEW D, NEW s \in Seq(D), NEW j, NEW d \in D
  PROVE  [s EXCEPT ![j] = d] \in Seq(D)
  <1>1. s \in [1..Len(s) -> D] /\ Len(s) \in Nat
    OBVIOUS
  <1>2. [s EXCEPT ![j] = d] \in [1..Len(s) -> D]
    BY <1>1
  <1> QED BY <1>1, <1>2

\* Two candidates make one with the ids of both and the higher confidence
LEMMA MergedKeepsBoth ==
  ASSUME NEW W, NEW R, NEW c \in CandidateSet(W, R), NEW d \in CandidateSet(W, R)
  PROVE  /\ Merged(c, d) \in CandidateSet(W, R)
         /\ ToSet(Merged(c, d).ids) = ToSet(c.ids) \cup ToSet(d.ids)
         /\ Merged(c, d).topic = c.topic
         /\ Merged(c, d).confidence \in {c.confidence, d.confidence}
         /\ Merged(c, d).confidence >= c.confidence /\ Merged(c, d).confidence >= d.confidence
  <1> DEFINE all == c.ids \o d.ids
             P == {n \in DOMAIN all : \A k \in 1..(n - 1) : all[k] # all[n]}
             x == Max({c.confidence, d.confidence})
  <1>1. Merged(c, d) = [c EXCEPT !.ids = Picked(all, P), !.confidence = x]
    BY DEF Merged
  <1>2. c.ids \in Seq(R) /\ d.ids \in Seq(R) /\ c.confidence \in Nat /\ d.confidence \in Nat
    BY DEF CandidateSet
  <1>3. all \in Seq(R) /\ ToSet(all) = ToSet(c.ids) \cup ToSet(d.ids)
    BY <1>2, Joined
  <1>4. x \in {c.confidence, d.confidence} /\ x >= c.confidence /\ x >= d.confidence
    <2>1. CASE c.confidence >= d.confidence
      <3>1. x = c.confidence
        BY <1>2, <2>1, MaxIs
      <3> QED BY <1>2, <2>1, <3>1
    <2>2. CASE d.confidence >= c.confidence
      <3>1. x = d.confidence
        BY <1>2, <2>2, MaxIs
      <3> QED BY <1>2, <2>2, <3>1
    <2> QED BY <1>2, <2>1, <2>2
  <1>5. Picked(all, P) \in Seq(R) /\ ToSet(Picked(all, P)) = ToSet(all)
    BY <1>3, NoRepeatKeepsAll
  <1>6. x \in Nat
    BY <1>2, <1>4
  <1> HIDE DEF all, P, x
  <1>7. Merged(c, d) \in CandidateSet(W, R)
    BY <1>1, <1>5, <1>6 DEF CandidateSet
  <1>8. Merged(c, d).ids = Picked(all, P) /\ Merged(c, d).confidence = x /\ Merged(c, d).topic = c.topic
    BY <1>1 DEF CandidateSet
  <1> QED BY <1>3, <1>4, <1>5, <1>7, <1>8

\* One candidate more
Leaders(acc) == {j \in DOMAIN acc.leader : acc.leader[j] = j}
GateStep(cands, byId, acc, i) ==
  LET j == LeaderOf(cands, i, Leaders(acc), byId)
      c == IF j = i THEN cands[i] ELSE Merged(acc.cands[j], cands[i])
      decided == Append(acc.decision, IF j = i THEN Evaluate(c, byId) ELSE "reject")
  IN [cands |-> [acc.cands EXCEPT ![j] = c],
      decision |-> [decided EXCEPT ![j] = Evaluate(c, byId)],
      leader |-> Append(acc.leader, j)]

\* What a run of the gate over n candidates has in its hands
GateAcc(n, C) == [cands : [1..n -> C], decision : Seq(Decisions), leader : Seq(1..n)]

\* The leader of a candidate is one of those kept, equal or alike, or itself
LEMMA LeaderFacts ==
  ASSUME NEW cands, NEW i \in Nat, NEW kept \in SUBSET Nat, NEW byId,
         NEW j, j = LeaderOf(cands, i, kept, byId)
  PROVE  /\ j \in kept \/ j = i
         /\ cands[j].topic = cands[i].topic
         /\ j \notin kept => \A m \in kept : Fingerprint(cands[m], byId) # Fingerprint(cands[i], byId)
  <1> DEFINE equal == {m \in kept : Fingerprint(cands[m], byId) = Fingerprint(cands[i], byId)}
             near == {m \in kept : NearDuplicate(cands[i], cands[m], byId)}
  <1>1. j =
          IF equal # {} THEN Min(equal) ELSE IF near # {} THEN Min(near) ELSE i
    BY DEF LeaderOf
  <1>2. equal \in SUBSET Nat /\ near \in SUBSET Nat
    OBVIOUS
  <1>3. CASE equal # {}
    <2>1. Min(equal) \in equal
      BY <1>2, <1>3, MinOf
    <2>2. cands[j].topic = cands[i].topic
      <3>1. Fingerprint(cands[j], byId)[3] = Fingerprint(cands[i], byId)[3]
        BY <1>1, <1>3, <2>1
      <3> QED BY <3>1 DEF Fingerprint
    <2> QED BY <1>1, <1>3, <2>1, <2>2
  <1>4. CASE equal = {} /\ near # {}
    <2>1. Min(near) \in near
      BY <1>2, <1>4, MinOf
    <2>2. cands[j].topic = cands[i].topic
      <3>1. Signature(cands[i], byId)[2] = Signature(cands[j], byId)[2]
        BY <1>1, <1>4, <2>1 DEF NearDuplicate
      <3> QED BY <3>1 DEF Signature
    <2> QED BY <1>1, <1>4, <2>1, <2>2
  <1>5. CASE equal = {} /\ near = {}
    BY <1>1, <1>5
  <1> QED BY <1>3, <1>4, <1>5

LEMMA EvaluateDecides == \A c, byId : Evaluate(c, byId) \in Decisions
  BY DEF Evaluate, Decisions

LEMMA GateStepTyped ==
  ASSUME NEW W, NEW R, NEW cands \in Seq(CandidateSet(W, R)), NEW byId,
         NEW i \in 1..Len(cands), NEW acc \in GateAcc(Len(cands), CandidateSet(W, R))
  PROVE  GateStep(cands, byId, acc, i) \in GateAcc(Len(cands), CandidateSet(W, R))
  <1> DEFINE n == Len(cands)
             C == CandidateSet(W, R)
             j == LeaderOf(cands, i, Leaders(acc), byId)
             c == IF j = i THEN cands[i] ELSE Merged(acc.cands[j], cands[i])
             decided == Append(acc.decision, IF j = i THEN Evaluate(c, byId) ELSE "reject")
  <1>1. n \in Nat /\ i \in 1..n /\ cands[i] \in C
    OBVIOUS
  <1>2. acc.cands \in [1..n -> C] /\ acc.decision \in Seq(Decisions) /\ acc.leader \in Seq(1..n)
    BY DEF GateAcc
  <1>3. Leaders(acc) \subseteq 1..n
    BY <1>2 DEF Leaders
  <1>4. j \in 1..n
    <2>1. i \in Nat /\ Leaders(acc) \in SUBSET Nat /\ j = LeaderOf(cands, i, Leaders(acc), byId)
      BY <1>1, <1>3
    <2> HIDE DEF j
    <2>2. j \in Leaders(acc) \/ j = i
      BY <2>1, LeaderFacts
    <2> QED BY <1>1, <1>3, <2>2
  <1>5. GateStep(cands, byId, acc, i) =
          [cands |-> [acc.cands EXCEPT ![j] = c],
           decision |-> [decided EXCEPT ![j] = Evaluate(c, byId)],
           leader |-> Append(acc.leader, j)]
    BY DEF GateStep
  <1> HIDE DEF j, n, C
  <1>6. c \in C
    <2>1. acc.cands[j] \in C
      BY <1>2, <1>4
    <2> QED BY <1>1, <2>1, MergedKeepsBoth DEF C
  <1>7. decided \in Seq(Decisions)
    <2>1. "reject" \in Decisions
      BY DEF Decisions
    <2> QED BY <1>2, <2>1, EvaluateDecides
  <1>8. [decided EXCEPT ![j] = Evaluate(c, byId)] \in Seq(Decisions)
    <2> HIDE DEF c, decided
    <2> QED BY <1>7, EvaluateDecides, Replaced
  <1>9. [acc.cands EXCEPT ![j] = c] \in [1..n -> C] /\ Append(acc.leader, j) \in Seq(1..n)
    <2> HIDE DEF c
    <2> QED BY <1>2, <1>4, <1>6
  <1> HIDE DEF c, decided
  <1> QED BY <1>5, <1>8, <1>9 DEF GateAcc, n, C

\* The candidates up to k that follow j
LedBy(acc, k, j) == {n \in 1..k : acc.leader[n] = j}

\* A candidate written with a decision stands for those of L
StandsFor(cands, byId, L, c, decision) ==
  /\ ToSet(c.ids) = UNION {ToSet(cands[n].ids) : n \in L}
  /\ \E n \in L : c.confidence = cands[n].confidence
  /\ \A n \in L : cands[n].confidence <= c.confidence /\ cands[n].topic = c.topic
  /\ decision = Evaluate(c, byId)

\* What MergedExactly says of the first k candidates
MergedSoFar(cands, byId, k, acc) ==
  /\ Len(acc.leader) = k /\ Len(acc.decision) = k
  /\ \A j \in 1..k : acc.leader[j] = j =>
       /\ StandsFor(cands, byId, LedBy(acc, k, j), acc.cands[j], acc.decision[j])
       /\ \A n \in 1..k : acc.leader[n] = n /\ n # j
            => Fingerprint(cands[n], byId) # Fingerprint(cands[j], byId)
  /\ \A j \in 1..k : acc.leader[j] # j =>
       /\ acc.decision[j] = "reject"
       /\ acc.leader[j] \in 1..k /\ acc.leader[acc.leader[j]] = acc.leader[j]

\* What one step of the gate writes: candidate k follows j, which becomes c
Writes(acc, next, byId, k, j, c) ==
  /\ Len(next.leader) = k /\ Len(next.decision) = k
  /\ next.leader[k] = j /\ next.cands[j] = c /\ next.decision[j] = Evaluate(c, byId)
  /\ j # k => next.decision[k] = "reject"
  /\ \A m \in 1..(k - 1) :
       /\ next.leader[m] = acc.leader[m]
       /\ m # j => next.cands[m] = acc.cands[m] /\ next.decision[m] = acc.decision[m]

LEMMA GateStepWrites ==
  ASSUME NEW W, NEW R, NEW cands \in Seq(CandidateSet(W, R)), NEW byId,
         NEW k \in 1..Len(cands), NEW acc \in GateAcc(Len(cands), CandidateSet(W, R)),
         Len(acc.leader) = k - 1, Len(acc.decision) = k - 1,
         NEW j \in 1..k, j = LeaderOf(cands, k, Leaders(acc), byId),
         NEW c, c = IF j = k THEN cands[k] ELSE Merged(acc.cands[j], cands[k]),
         NEW next, next = GateStep(cands, byId, acc, k)
  PROVE  Writes(acc, next, byId, k, j, c)
  <1> DEFINE decided == Append(acc.decision, IF j = k THEN Evaluate(c, byId) ELSE "reject")
  <1>1. /\ acc.cands \in [1..Len(cands) -> CandidateSet(W, R)] /\ acc.decision \in Seq(Decisions)
        /\ acc.leader \in Seq(1..Len(cands)) /\ Len(cands) \in Nat
    BY DEF GateAcc
  <1>2. next = [cands |-> [acc.cands EXCEPT ![j] = c],
                decision |-> [decided EXCEPT ![j] = Evaluate(c, byId)],
                leader |-> Append(acc.leader, j)]
    BY DEF GateStep
  <1>3. /\ next.cands = [acc.cands EXCEPT ![j] = c]
        /\ next.decision = [decided EXCEPT ![j] = Evaluate(c, byId)]
        /\ next.leader = Append(acc.leader, j)
    BY <1>2
  <1> HIDE DEF decided
  <1>4. /\ Len(next.leader) = k /\ next.leader[k] = j
        /\ \A m \in 1..(k - 1) : next.leader[m] = acc.leader[m]
    BY <1>1, <1>3
  <1>5. /\ decided \in Seq(Decisions) /\ Len(decided) = k
        /\ decided[k] = (IF j = k THEN Evaluate(c, byId) ELSE "reject")
        /\ \A m \in 1..(k - 1) : decided[m] = acc.decision[m]
    <2> DEFINE d == IF j = k THEN Evaluate(c, byId) ELSE "reject"
    <2>1. d \in Decisions
      BY EvaluateDecides DEF Decisions
    <2>2. decided = Append(acc.decision, d)
      BY DEF decided
    <2> HIDE DEF d
    <2>3. /\ decided \in Seq(Decisions) /\ Len(decided) = k /\ decided[k] = d
          /\ \A m \in 1..(k - 1) : decided[m] = acc.decision[m]
      BY <1>1, <2>1, <2>2
    <2> QED BY <2>3 DEF d
  <1>6. /\ next.decision \in Seq(Decisions) /\ Len(next.decision) = k
        /\ next.decision[j] = Evaluate(c, byId)
        /\ \A m \in 1..k : m # j => next.decision[m] = decided[m]
    <2>1. decided \in [1..k -> Decisions] /\ k \in Nat
      BY <1>5
    <2> DEFINE e == Evaluate(c, byId)
    <2>2. e \in Decisions
      BY EvaluateDecides
    <2>3. next.decision = [decided EXCEPT ![j] = e]
      BY <1>3
    <2> HIDE DEF e
    <2>4. /\ next.decision \in [1..k -> Decisions] /\ next.decision[j] = e
          /\ \A m \in 1..k : m # j => next.decision[m] = decided[m]
      BY <2>1, <2>2, <2>3
    <2>5. next.decision \in Seq(Decisions) /\ Len(next.decision) = k
      BY <2>1, <2>4
    <2> QED BY <2>4, <2>5 DEF e
  <1>7. next.cands[j] = c /\ \A m \in 1..(k - 1) : m # j => next.cands[m] = acc.cands[m]
    BY <1>1, <1>3
  <1>8. j # k => next.decision[k] = "reject"
    BY <1>5, <1>6
  <1>9. \A m \in 1..(k - 1) : m # j => next.decision[m] = acc.decision[m]
    BY <1>5, <1>6
  <1> QED BY <1>4, <1>6, <1>7, <1>8, <1>9 DEF Writes

LEMMA GateStepKeeps ==
  ASSUME NEW W, NEW R, NEW cands \in Seq(CandidateSet(W, R)), NEW byId,
         NEW k \in 1..Len(cands), NEW acc \in GateAcc(Len(cands), CandidateSet(W, R)),
         MergedSoFar(cands, byId, k - 1, acc)
  PROVE  MergedSoFar(cands, byId, k, GateStep(cands, byId, acc, k))
  <1> DEFINE C == CandidateSet(W, R)
             j == LeaderOf(cands, k, Leaders(acc), byId)
             c == IF j = k THEN cands[k] ELSE Merged(acc.cands[j], cands[k])
             next == GateStep(cands, byId, acc, k)
  <1>1. /\ acc.cands \in [1..Len(cands) -> C] /\ acc.leader \in Seq(1..Len(cands))
        /\ Len(cands) \in Nat /\ k \in Nat /\ cands[k] \in C
        /\ \A m \in 1..k : cands[m] \in C /\ m \in 1..Len(cands)
    BY DEF GateAcc
  <1>2. Len(acc.leader) = k - 1 /\ Len(acc.decision) = k - 1 /\ DOMAIN acc.leader = 1..(k - 1)
    BY <1>1 DEF MergedSoFar
  <1>3. Leaders(acc) = {m \in 1..(k - 1) : acc.leader[m] = m}
    BY <1>2 DEF Leaders
  <1>4. /\ cands[j].topic = cands[k].topic
        /\ \/ j \in 1..(k - 1) /\ acc.leader[j] = j
           \/ /\ j = k
              /\ \A m \in 1..(k - 1) : acc.leader[m] = m
                   => Fingerprint(cands[m], byId) # Fingerprint(cands[k], byId)
    <2>1. Leaders(acc) \in SUBSET Nat /\ j = LeaderOf(cands, k, Leaders(acc), byId)
      BY <1>3
    <2>0. k \in Nat
      BY <1>1
    <2> DEFINE kept == Leaders(acc)
    <2> HIDE DEF j, kept, next, c
    <2>2. /\ j \in Leaders(acc) \/ j = k
          /\ cands[j].topic = cands[k].topic
          /\ j \notin Leaders(acc) => \A m \in Leaders(acc) : Fingerprint(cands[m], byId) # Fingerprint(cands[k], byId)
      <3>1. kept \in SUBSET Nat /\ j = LeaderOf(cands, k, kept, byId)
        BY <2>1 DEF kept
      <3>2. /\ j \in kept \/ j = k
            /\ cands[j].topic = cands[k].topic
            /\ j \notin kept => \A m \in kept : Fingerprint(cands[m], byId) # Fingerprint(cands[k], byId)
        BY <2>0, <3>1, LeaderFacts
      <3> QED BY <3>2 DEF kept
    <2>3. k \notin Leaders(acc)
      BY <1>1, <1>3
    <2> QED BY <1>3, <2>2, <2>3
  <1>5. j \in 1..k
    BY <1>1, <1>4
  <1>6. /\ Len(next.leader) = k /\ Len(next.decision) = k
        /\ next.leader[k] = j /\ next.cands[j] = c /\ next.decision[j] = Evaluate(c, byId)
        /\ j # k => next.decision[k] = "reject"
        /\ \A m \in 1..(k - 1) :
             /\ next.leader[m] = acc.leader[m]
             /\ m # j => next.cands[m] = acc.cands[m] /\ next.decision[m] = acc.decision[m]
    <2>1. /\ c = IF j = k THEN cands[k] ELSE Merged(acc.cands[j], cands[k])
          /\ next = GateStep(cands, byId, acc, k) /\ j = LeaderOf(cands, k, Leaders(acc), byId)
      OBVIOUS
    <2> HIDE DEF j, c, next, C
    <2>2. cands \in Seq(CandidateSet(W, R)) /\ acc \in GateAcc(Len(cands), CandidateSet(W, R)) /\ k \in 1..Len(cands)
      OBVIOUS
    <2>3. Writes(acc, next, byId, k, j, c)
      BY ONLY <1>2, <1>5, <2>1, <2>2, GateStepWrites
    <2> QED BY <2>3 DEF Writes
  <1>7. \A m \in 1..(k - 1) : acc.leader[m] \in 1..(k - 1)
    BY DEF MergedSoFar
  <1>8. /\ \A m \in 1..(k - 1) : acc.leader[m] = m =>
              /\ StandsFor(cands, byId, LedBy(acc, k - 1, m), acc.cands[m], acc.decision[m])
              /\ \A n \in 1..(k - 1) : acc.leader[n] = n /\ n # m
                   => Fingerprint(cands[n], byId) # Fingerprint(cands[m], byId)
        /\ \A m \in 1..(k - 1) : acc.leader[m] # m =>
             /\ acc.decision[m] = "reject"
             /\ acc.leader[m] \in 1..(k - 1) /\ acc.leader[acc.leader[m]] = acc.leader[m]
    BY DEF MergedSoFar
  <1>9. \A m \in 1..(k - 1) : m # j => LedBy(next, k, m) = LedBy(acc, k - 1, m)
    <2> HIDE DEF next, j
    <2> QED BY SMTT(40), <1>1, <1>6 DEF LedBy
  <1>10. c = IF j = k THEN cands[k] ELSE Merged(acc.cands[j], cands[k])
    OBVIOUS
  <1> HIDE DEF j, c, next
  <1>11. CASE j = k
    <2>1. LedBy(next, k, k) = {k}
      <3>1. \A m \in 1..(k - 1) : next.leader[m] # k
        BY <1>1, <1>6, <1>7
      <3> QED BY <1>1, <1>6, <1>11, <3>1 DEF LedBy
    <2>2. c = cands[k]
      BY <1>10, <1>11
    <2>3. \A m \in 1..(k - 1) : acc.leader[m] = m
             => Fingerprint(cands[m], byId) # Fingerprint(cands[k], byId)
      BY <1>1, <1>4, <1>11
    <2>4. ASSUME NEW m \in 1..k, next.leader[m] = m
          PROVE  /\ StandsFor(cands, byId, LedBy(next, k, m), next.cands[m], next.decision[m])
                 /\ \A n \in 1..k : next.leader[n] = n /\ n # m
                      => Fingerprint(cands[n], byId) # Fingerprint(cands[m], byId)
      <3>1. CASE m = k
        <4>1. next.cands[m] = cands[k] /\ next.decision[m] = Evaluate(next.cands[m], byId)
          BY <1>6, <1>11, <2>2, <3>1
        <4>2. cands[k].confidence \in Nat
          BY <1>1 DEF CandidateSet
        <4>3. UNION {ToSet(cands[n].ids) : n \in {k}} = ToSet(cands[k].ids)
          OBVIOUS
        <4>4. \A n \in 1..k : next.leader[n] = n /\ n # m
                => Fingerprint(cands[n], byId) # Fingerprint(cands[m], byId)
          BY <1>6, <2>3, <3>1
        <4>5. LedBy(next, k, m) = {k}
          BY <2>1, <3>1
        <4>6. StandsFor(cands, byId, {k}, next.cands[m], next.decision[m])
          BY <4>1, <4>2, <4>3 DEF StandsFor
        <4> QED BY <4>4, <4>5, <4>6
      <3>2. CASE m \in 1..(k - 1)
        <4>1. /\ next.cands[m] = acc.cands[m] /\ next.decision[m] = acc.decision[m]
              /\ LedBy(next, k, m) = LedBy(acc, k - 1, m) /\ acc.leader[m] = m
          BY <1>1, <1>6, <1>9, <1>11, <2>4, <3>2
        <4>2. \A n \in 1..k : next.leader[n] = n /\ n # m
                => Fingerprint(cands[n], byId) # Fingerprint(cands[m], byId)
          BY <1>6, <1>8, <2>3, <3>2, <4>1
        <4> QED BY <1>8, <3>2, <4>1, <4>2
      <3> QED BY <3>1, <3>2
    <2>5. ASSUME NEW m \in 1..k, next.leader[m] # m
          PROVE  next.decision[m] = "reject" /\ next.leader[m] \in 1..k
                 /\ next.leader[next.leader[m]] = next.leader[m]
      <3>1. m \in 1..(k - 1) /\ m # j
        BY <1>1, <1>6, <1>11, <2>5
      <3>2. acc.leader[m] # m /\ acc.leader[m] = next.leader[m] /\ next.decision[m] = acc.decision[m]
        BY <1>6, <2>5, <3>1
      <3>3. acc.decision[m] = "reject" /\ acc.leader[m] \in 1..(k - 1)
            /\ acc.leader[acc.leader[m]] = acc.leader[m]
        BY <1>8, <3>1, <3>2
      <3> QED BY <1>6, <3>2, <3>3
    <2> QED BY <1>6, <2>4, <2>5 DEF MergedSoFar, next
  <1>12. CASE j \in 1..(k - 1) /\ acc.leader[j] = j
    <2>0. j # k
      BY <1>1, <1>12
    <2>1. LedBy(next, k, j) = LedBy(acc, k - 1, j) \cup {k}
      BY <1>1, <1>6 DEF LedBy
    <2>2. c = Merged(acc.cands[j], cands[k])
      BY <1>10, <2>0
    <2>3. /\ ToSet(c.ids) = ToSet(acc.cands[j].ids) \cup ToSet(cands[k].ids)
          /\ c.topic = acc.cands[j].topic
          /\ c.confidence \in {acc.cands[j].confidence, cands[k].confidence}
          /\ c.confidence >= acc.cands[j].confidence /\ c.confidence >= cands[k].confidence
      <3>1. acc.cands[j] \in CandidateSet(W, R) /\ cands[k] \in CandidateSet(W, R)
        BY <1>1, <1>5
      <3> DEFINE a == acc.cands[j]
                 b == cands[k]
      <3> HIDE DEF a, b
      <3>2. /\ ToSet(Merged(a, b).ids) = ToSet(a.ids) \cup ToSet(b.ids)
            /\ Merged(a, b).topic = a.topic
            /\ Merged(a, b).confidence \in {a.confidence, b.confidence}
            /\ Merged(a, b).confidence >= a.confidence /\ Merged(a, b).confidence >= b.confidence
        <4>1. a \in CandidateSet(W, R) /\ b \in CandidateSet(W, R)
          BY <3>1 DEF a, b
        <4> QED BY ONLY <4>1, MergedKeepsBoth
      <3> QED BY <2>2, <3>2 DEF a, b
    <2>4. ASSUME NEW m \in 1..k, next.leader[m] = m
          PROVE  /\ StandsFor(cands, byId, LedBy(next, k, m), next.cands[m], next.decision[m])
                 /\ \A n \in 1..k : next.leader[n] = n /\ n # m
                      => Fingerprint(cands[n], byId) # Fingerprint(cands[m], byId)
      <3>0. m \in 1..(k - 1) /\ acc.leader[m] = m
        BY <1>1, <1>6, <1>12, <2>0, <2>4
      <3>1. \A n \in 1..k : next.leader[n] = n /\ n # m
              => Fingerprint(cands[n], byId) # Fingerprint(cands[m], byId)
        BY <1>6, <1>8, <2>0, <3>0
      <3>2. CASE m = j
        <4>1. next.cands[m] = c /\ next.decision[m] = Evaluate(c, byId)
          BY <1>6, <3>2
        <4> DEFINE L == LedBy(acc, k - 1, j)
        <4>2. /\ ToSet(acc.cands[j].ids) = UNION {ToSet(cands[n].ids) : n \in L}
              /\ \E n \in L : acc.cands[j].confidence = cands[n].confidence
              /\ \A n \in L : cands[n].confidence <= acc.cands[j].confidence
                              /\ cands[n].topic = acc.cands[j].topic
          BY <1>8, <3>0, <3>2 DEF StandsFor
        <4>3. UNION {ToSet(cands[n].ids) : n \in L \cup {k}}
                = (UNION {ToSet(cands[n].ids) : n \in L}) \cup ToSet(cands[k].ids)
          OBVIOUS
        <4>4. \A n \in L \cup {k} : cands[n].confidence \in Nat
          <5>1. L \cup {k} \subseteq 1..k
            BY <1>1 DEF LedBy
          <5>2. \A n \in 1..k : cands[n].confidence \in Nat
            BY <1>1 DEF CandidateSet
          <5> HIDE DEF L
          <5> QED BY <5>1, <5>2
        <4>5. acc.cands[j].confidence \in Nat /\ c.confidence \in Nat
          BY <2>3, <4>2, <4>4
        <4> HIDE DEF L
        <4>6. \E n \in L \cup {k} : c.confidence = cands[n].confidence
          BY <2>3, <4>2
        <4>7. \A n \in L \cup {k} : cands[n].confidence <= c.confidence
          BY <2>3, <4>2, <4>4, <4>5
        <4>11. \A n \in L \cup {k} : cands[n].topic = c.topic
          <5>1. j \in LedBy(acc, k - 1, j)
            BY <1>12 DEF LedBy
          <5> QED BY <1>4, <2>3, <4>2, <5>1 DEF L
        <4>8. ToSet(c.ids) = UNION {ToSet(cands[n].ids) : n \in L \cup {k}}
          BY <2>3, <4>2, <4>3
        <4>9. LedBy(next, k, m) = L \cup {k}
          BY <2>1, <3>2 DEF L
        <4>10. StandsFor(cands, byId, L \cup {k}, c, Evaluate(c, byId))
          BY <4>6, <4>7, <4>8, <4>11 DEF StandsFor
        <4> QED BY <3>1, <4>1, <4>9, <4>10
      <3>3. CASE m # j
        <4>1. /\ next.cands[m] = acc.cands[m] /\ next.decision[m] = acc.decision[m]
              /\ LedBy(next, k, m) = LedBy(acc, k - 1, m)
          BY <1>6, <1>9, <3>0, <3>3
        <4> QED BY <1>8, <3>0, <3>1, <4>1
      <3> QED BY <3>2, <3>3
    <2>5. ASSUME NEW m \in 1..k, next.leader[m] # m
          PROVE  next.decision[m] = "reject" /\ next.leader[m] \in 1..k
                 /\ next.leader[next.leader[m]] = next.leader[m]
      <3>1. CASE m = k
        BY <1>5, <1>6, <1>12, <2>0, <3>1
      <3>2. CASE m \in 1..(k - 1)
        <4>1. acc.leader[m] # m /\ acc.leader[m] = next.leader[m] /\ m # j
          BY <1>6, <1>12, <2>5, <3>2
        <4>2. acc.decision[m] = "reject" /\ acc.leader[m] \in 1..(k - 1)
              /\ acc.leader[acc.leader[m]] = acc.leader[m]
          BY <1>8, <3>2, <4>1
        <4> QED BY <1>6, <3>2, <4>1, <4>2
      <3> QED BY <3>1, <3>2
    <2> QED BY <1>6, <2>4, <2>5 DEF MergedSoFar, next
  <1> QED BY <1>4, <1>11, <1>12

\* The whole fold: candidate after candidate
LEMMA GateFacts ==
  ASSUME NEW W, NEW R, NEW cands \in Seq(CandidateSet(W, R)), NEW byId
  PROVE  /\ Gate(cands, byId) \in GateAcc(Len(cands), CandidateSet(W, R))
         /\ MergedSoFar(cands, byId, Len(cands), Gate(cands, byId))
  <1> DEFINE n == Len(cands)
             A == GateAcc(n, CandidateSet(W, R))
             base == [cands |-> cands, decision |-> <<>>, leader |-> <<>>]
             Step(acc, i) == GateStep(cands, byId, acc, i)
             index == [i \in DOMAIN cands |-> i]
             iter[S \in SUBSET (DOMAIN cands)] ==
               IF S = {} THEN base ELSE LET m == Max(S) IN Step(iter[S \ {m}], index[m])
             G == [p \in (1..n) \X A |-> Step(p[2], p[1])]
  <1>1. Gate(cands, byId) = iter[DOMAIN cands]
    BY DEF Gate, FoldLeft, MapThenFoldSet, GateStep, Leaders
  <1>2. n \in Nat /\ DOMAIN cands = 1..n /\ \A m \in 1..n : index[m] = m
    OBVIOUS
  <1>0. base \in A
    BY DEF GateAcc
  <1>3. G \in [(1..n) \X A -> A] /\ \A m \in 1..n, a \in A : G[<<m, a>>] = Step(a, m)
    <2>1. ASSUME NEW m \in 1..n, NEW a \in A PROVE Step(a, m) \in A
      BY GateStepTyped
    <2> HIDE DEF A, n, Step
    <2> QED BY <2>1
  <1> HIDE DEF n, G, iter, A, base, Step, index
  <1>4. PICK it : FoldsTo(it, n, A, base, G)
    BY <1>0, <1>2, <1>3, FoldExists
  <1>5. it = [S \in SUBSET (DOMAIN cands) |->
                IF S = {} THEN base ELSE LET m == Max(S) IN Step(it[S \ {m}], index[m])]
    <2>1. /\ it \in [SUBSET (1..n) -> A]
          /\ \A S \in SUBSET (1..n) : it[S] = IF S = {} THEN base ELSE G[<<Max(S), it[S \ {Max(S)}]>>]
      BY <1>4 DEF FoldsTo
    <2>2. ASSUME NEW S \in SUBSET (1..n), S # {}
          PROVE  G[<<Max(S), it[S \ {Max(S)}]>>] = Step(it[S \ {Max(S)}], index[Max(S)])
      <3>1. Max(S) \in 1..n /\ S \ {Max(S)} \in SUBSET (1..n)
        BY <1>2, <2>2, SmallerSet
      <3> QED BY <1>2, <1>3, <2>1, <3>1
    <2> QED BY <1>2, <2>1, <2>2
  <1>6. iter = [S \in SUBSET (DOMAIN cands) |->
                IF S = {} THEN base ELSE LET m == Max(S) IN Step(iter[S \ {m}], index[m])]
    <2>1. iter = CHOOSE g : g = [S \in SUBSET (DOMAIN cands) |->
                IF S = {} THEN base ELSE LET m == Max(S) IN Step(g[S \ {m}], index[m])]
      BY DEF iter
    <2> QED BY <1>5, <2>1
  <1>7. iter[1..0] = base
    <2>1. 1..0 = {} /\ 1..0 \in SUBSET (DOMAIN cands)
      OBVIOUS
    <2> QED BY <1>6, <2>1
  <1>8. ASSUME NEW m \in 1..n PROVE iter[1..m] = Step(iter[1..(m - 1)], m)
    <2>1. /\ 1..m \in SUBSET (1..n) /\ 1..m # {} /\ Max(1..m) = m
          /\ (1..m) \ {m} = 1..(m - 1)
      BY <1>2, FirstPositions
    <2>2. iter[1..m] = Step(iter[(1..m) \ {Max(1..m)}], index[Max(1..m)])
      BY <1>2, <1>6, <2>1
    <2>3. index[m] = m
      BY <1>2
    <2> QED BY <2>1, <2>2, <2>3
  <1> DEFINE Good == {m \in 0..n : iter[1..m] \in A /\ MergedSoFar(cands, byId, m, iter[1..m])}
  <1>9. 0 \in Good
    <2>1. MergedSoFar(cands, byId, 0, base)
      BY DEF MergedSoFar, base
    <2> QED BY <1>0, <1>2, <1>7, <2>1
  <1>10. ASSUME NEW m \in 1..n, m - 1 \in Good PROVE m \in Good
    <2> DEFINE acc == iter[1..(m - 1)]
    <2>1. acc \in A /\ MergedSoFar(cands, byId, m - 1, acc)
      BY <1>10
    <2>2. iter[1..m] = Step(acc, m)
      BY <1>8
    <2> HIDE DEF acc
    <2>3. m \in 1..Len(cands) /\ acc \in GateAcc(Len(cands), CandidateSet(W, R))
      BY <2>1 DEF A, n
    <2>4. GateStep(cands, byId, acc, m) \in GateAcc(Len(cands), CandidateSet(W, R))
      BY <2>3, GateStepTyped
    <2>5. MergedSoFar(cands, byId, m, GateStep(cands, byId, acc, m))
      BY <2>1, <2>3, GateStepKeeps
    <2>6. iter[1..m] \in A /\ MergedSoFar(cands, byId, m, iter[1..m])
      BY <2>2, <2>4, <2>5 DEF Step, A, n
    <2> QED BY <2>6
  <1>11. n \in Good
    <2> HIDE DEF Good
    <2> QED BY <1>2, <1>9, <1>10, StepByStep
  <1> QED BY <1>1, <1>2, <1>11 DEF A, n

(* The merge of duplicates loses nothing and keeps no duplicate, for every list *)
(* of candidates and all evidence: each leader is written with the evidence of  *)
(* all it leads, their highest confidence and the decision that evidence earns, *)
(* those it leads are rejected, and no two leaders are equal (evaluate,         *)
(* gate.py, which changes its results in place while it iterates).              *)
THEOREM MergeIsExact ==
  ASSUME NEW W, NEW R, NEW cands \in Seq(CandidateSet(W, R)), NEW byId
  PROVE  MergedExactly(cands, byId, Gate(cands, byId))
  <1> DEFINE n == Len(cands)
             v == Gate(cands, byId)
  <1>2. n \in Nat /\ DOMAIN cands = 1..n
    OBVIOUS
  <1>12. MergedSoFar(cands, byId, n, v)
    BY GateFacts
  <1> HIDE DEF v
  <1>13. \A i \in 1..n : cands[i].confidence \in Nat
    <2>1. \A i \in 1..Len(cands) : cands[i] \in CandidateSet(W, R)
      OBVIOUS
    <2> QED BY <2>1 DEF CandidateSet, n
  <1>14. ASSUME NEW j \in DOMAIN cands, v.leader[j] = j
         PROVE  /\ ToSet(v.cands[j].ids) = UNION {ToSet(cands[i].ids) : i \in {i \in DOMAIN cands : v.leader[i] = j}}
                /\ v.cands[j].confidence
                     = Max({cands[i].confidence : i \in {i \in DOMAIN cands : v.leader[i] = j}})
                /\ v.decision[j] = Evaluate(v.cands[j], byId)
                /\ \A i \in DOMAIN cands \ {j} : v.leader[i] = i
                     => Fingerprint(cands[i], byId) # Fingerprint(cands[j], byId)
    <2> DEFINE L == {i \in DOMAIN cands : v.leader[i] = j}
               S == {cands[i].confidence : i \in L}
    <2>1. L = LedBy(v, n, j) /\ L \subseteq 1..n
      BY <1>2 DEF LedBy
    <2>2. /\ StandsFor(cands, byId, LedBy(v, n, j), v.cands[j], v.decision[j])
          /\ \A i \in 1..n : v.leader[i] = i /\ i # j
               => Fingerprint(cands[i], byId) # Fingerprint(cands[j], byId)
      BY <1>2, <1>12, <1>14 DEF MergedSoFar
    <2> HIDE DEF L
    <2>3. /\ ToSet(v.cands[j].ids) = UNION {ToSet(cands[i].ids) : i \in L}
          /\ \E i \in L : v.cands[j].confidence = cands[i].confidence
          /\ \A i \in L : cands[i].confidence <= v.cands[j].confidence
          /\ v.decision[j] = Evaluate(v.cands[j], byId)
      BY <2>1, <2>2 DEF StandsFor
    <2>4. S \in SUBSET Nat /\ v.cands[j].confidence \in S /\ \A y \in S : y <= v.cands[j].confidence
      BY <1>13, <2>1, <2>3
    <2>5. v.cands[j].confidence = Max(S)
      <3> HIDE DEF S
      <3> QED BY <2>4, MaxIs
    <2> QED BY <1>2, <2>2, <2>3, <2>5 DEF L
  <1>15. ASSUME NEW j \in DOMAIN cands, v.leader[j] # j
         PROVE  v.decision[j] = "reject" /\ v.leader[v.leader[j]] = v.leader[j]
    BY <1>2, <1>12, <1>15 DEF MergedSoFar
  <1> QED BY <1>14, <1>15 DEF MergedExactly, v

-----------------------------------------------------------------------------
(***************************************************************************)
(* Lists.                                                                  *)
(***************************************************************************)
\* The lesser of two numbers
LEMMA LesserOf ==
  ASSUME NEW a \in Int, NEW b \in Int
  PROVE  Min({a, b}) = IF a <= b THEN a ELSE b
  <1> DEFINE m == IF a <= b THEN a ELSE b
  <1>1. m \in {a, b} /\ \A y \in {a, b} : m <= y
    OBVIOUS
  <1>2. \A x \in {a, b} : (\A y \in {a, b} : x <= y) => x = m
    OBVIOUS
  <1> HIDE DEF m
  <1>3. Min({a, b}) = m
    BY <1>1, <1>2 DEF Min
  <1> QED BY <1>3 DEF m

\* The list of a finite set
LEMMA ListOfSet ==
  ASSUME NEW S, IsFiniteSet(S)
  PROVE  SetToSeq(S) \in Seq(S)
  <1> DEFINE n == Cardinality(S)
  <1>1. n \in Nat /\ ExistsBijection(1..n, S)
    BY FS_CardinalityType
  <1> HIDE DEF n
  <1>2. PICK f \in Bijection(1..n, S) : TRUE
    BY <1>1 DEF ExistsBijection
  <1>3. f \in [1..n -> S] /\ IsInjective(f)
    BY <1>2 DEF Bijection, Injection, IsInjective
  <1>4. SetToSeq(S) \in [1..n -> S]
    BY <1>3 DEF SetToSeq, n
  <1> QED BY <1>1, <1>4

\* The list of lists, one after the other
LEMMA Flattened ==
  ASSUME NEW B, NEW s \in Seq(Seq(B))
  PROVE  FlattenSeq(s) \in Seq(B)
  <1> DEFINE n == Len(s)
             A == Seq(B)
             flatten[i \in 1..Len(s)] == IF i = 1 THEN s[i] ELSE flatten[i - 1] \o s[i]
             G == [p \in (1..n) \X A |-> IF p[1] = 1 THEN s[1] ELSE p[2] \o s[p[1]]]
  <1>1. n \in Nat /\ DOMAIN s = 1..n /\ \A k \in 1..n : s[k] \in A
    OBVIOUS
  <1>2. CASE n = 0
    <2>1. FlattenSeq(s) = s /\ s = <<>>
      BY <1>2 DEF FlattenSeq
    <2> QED BY <2>1
  <1>3. CASE n # 0
    <2>1. FlattenSeq(s) = flatten[n]
      BY <1>3 DEF FlattenSeq
    <2>2. G \in [(1..n) \X A -> A]
          /\ \A k \in 1..n, a \in A : G[<<k, a>>] = IF k = 1 THEN s[1] ELSE a \o s[k]
      <3>1. ASSUME NEW k \in 1..n, NEW a \in A PROVE (IF k = 1 THEN s[1] ELSE a \o s[k]) \in A
        BY <1>1
      <3> HIDE DEF A, n
      <3> QED BY <3>1
    <2>3. <<>> \in A
      OBVIOUS
    <2> HIDE DEF A, n, G, flatten
    <2>4. PICK it : FoldsTo(it, n, A, <<>>, G)
      BY <1>1, <2>2, <2>3, FoldExists
    <2> DEFINE f == [k \in 1..n |-> it[1..k]]
    <2>5. ASSUME NEW k \in 1..n
          PROVE  it[1..k] \in A /\ it[1..k] = IF k = 1 THEN s[1] ELSE it[1..(k - 1)] \o s[k]
      <3>1. /\ 1..k \in SUBSET (1..n) /\ 1..k # {} /\ Max(1..k) = k
            /\ (1..k) \ {k} = 1..(k - 1)
        BY <1>1, FirstPositions
      <3>2. 1..(k - 1) \in SUBSET (1..n)
        BY <1>1
      <3>3. it[1..k] \in A /\ it[1..(k - 1)] \in A /\ it[1..k] = G[<<k, it[1..(k - 1)]>>]
        BY <2>4, <3>1, <3>2 DEF FoldsTo
      <3> QED BY <2>2, <3>3
    <2>6. f = [i \in 1..Len(s) |-> IF i = 1 THEN s[i] ELSE f[i - 1] \o s[i]]
      <3>1. ASSUME NEW i \in 1..n PROVE f[i] = IF i = 1 THEN s[i] ELSE f[i - 1] \o s[i]
        <4>1. i # 1 => i - 1 \in 1..n
          BY <1>1
        <4> QED BY <2>5, <4>1
      <3> HIDE DEF f
      <3>2. f = [i \in 1..n |-> f[i]]
        BY DEF f
      <3> QED BY <3>1, <3>2 DEF n
    <2> HIDE DEF f
    <2>7. flatten = [i \in 1..Len(s) |-> IF i = 1 THEN s[i] ELSE flatten[i - 1] \o s[i]]
      <3>1. flatten = CHOOSE g : g = [i \in 1..Len(s) |-> IF i = 1 THEN s[i] ELSE g[i - 1] \o s[i]]
        BY DEF flatten
      <3> QED BY <2>6, <3>1
    <2> DEFINE Good == {k \in 0..n : k # 0 => flatten[k] \in A}
    <2>8. 0 \in Good
      BY <1>1
    <2>9. ASSUME NEW k \in 1..n, k - 1 \in Good PROVE k \in Good
      <3>1. flatten[k] = IF k = 1 THEN s[k] ELSE flatten[k - 1] \o s[k]
        BY <2>7 DEF n
      <3>2. k # 1 => flatten[k - 1] \in A
        BY <1>1, <2>9
      <3>3. flatten[k] \in A
        BY <1>1, <3>1, <3>2 DEF A
      <3> QED BY <3>3
    <2>10. n \in Good
      <3> HIDE DEF Good
      <3> QED BY <1>1, <2>8, <2>9, StepByStep
    <2> QED BY <1>3, <2>1, <2>10 DEF A
  <1> QED BY <1>2, <1>3

\* The claims counted so far, list after list
Counts(s, c) ==
  /\ c \in [0..Len(s) -> Nat] /\ c[0] = 0 /\ \A k \in 1..Len(s) : c[k] = c[k - 1] + Len(s[k])
  /\ Claims(s) = c[Len(s)]

LEMMA ClaimsCounted ==
  ASSUME NEW B, NEW s \in Seq(Seq(B))
  PROVE  \E c : Counts(s, c)
  <1> DEFINE n == Len(s)
             Put(acc, r) == acc + Len(r)
             iter[S \in SUBSET (DOMAIN s)] ==
               IF S = {} THEN 0 ELSE LET m == Max(S) IN Put(iter[S \ {m}], s[m])
             G == [p \in (1..n) \X Nat |-> Put(p[2], s[p[1]])]
  <1>1. Claims(s) = iter[DOMAIN s]
    BY DEF Claims, FoldLeft, MapThenFoldSet
  <1>2. n \in Nat /\ DOMAIN s = 1..n /\ \A k \in 1..n : s[k] \in Seq(B) /\ Len(s[k]) \in Nat
    OBVIOUS
  <1>3. G \in [(1..n) \X Nat -> Nat] /\ \A m \in 1..n, a \in Nat : G[<<m, a>>] = Put(a, s[m])
    <2>1. ASSUME NEW m \in 1..n, NEW a \in Nat PROVE Put(a, s[m]) \in Nat
      BY <1>2
    <2> HIDE DEF n, Put
    <2> QED BY <2>1
  <1> HIDE DEF n, G, iter
  <1>4. PICK it : FoldsTo(it, n, Nat, 0, G)
    BY <1>2, <1>3, FoldExists
  <1> HIDE DEF Put
  <1>5. it = [S \in SUBSET (DOMAIN s) |->
                IF S = {} THEN 0 ELSE LET m == Max(S) IN Put(it[S \ {m}], s[m])]
    <2>1. /\ it \in [SUBSET (1..n) -> Nat]
          /\ \A S \in SUBSET (1..n) : it[S] = IF S = {} THEN 0 ELSE G[<<Max(S), it[S \ {Max(S)}]>>]
      BY <1>4 DEF FoldsTo
    <2>2. ASSUME NEW S \in SUBSET (1..n), S # {}
          PROVE  G[<<Max(S), it[S \ {Max(S)}]>>] = Put(it[S \ {Max(S)}], s[Max(S)])
      <3>1. Max(S) \in 1..n /\ S \ {Max(S)} \in SUBSET (1..n)
        BY <1>2, <2>2, SmallerSet
      <3> QED BY <1>3, <2>1, <3>1
    <2> QED BY <1>2, <2>1, <2>2
  <1>6. iter = [S \in SUBSET (DOMAIN s) |->
                IF S = {} THEN 0 ELSE LET m == Max(S) IN Put(iter[S \ {m}], s[m])]
    <2>1. iter = CHOOSE g : g = [S \in SUBSET (DOMAIN s) |->
                IF S = {} THEN 0 ELSE LET m == Max(S) IN Put(g[S \ {m}], s[m])]
      BY DEF iter
    <2> QED BY <1>5, <2>1
  <1>7. iter[1..0] = 0
    <2>1. 1..0 = {} /\ 1..0 \in SUBSET (DOMAIN s)
      OBVIOUS
    <2> QED BY <1>6, <2>1
  <1>8. ASSUME NEW m \in 1..n PROVE iter[1..m] = Put(iter[1..(m - 1)], s[m])
    <2>1. /\ 1..m \in SUBSET (1..n) /\ 1..m # {} /\ Max(1..m) = m
          /\ (1..m) \ {m} = 1..(m - 1)
      BY <1>2, FirstPositions
    <2> QED BY <1>2, <1>6, <2>1
  <1> DEFINE Good == {m \in 0..n : iter[1..m] \in Nat}
             c == [m \in 0..n |-> iter[1..m]]
  <1>9. ASSUME NEW k \in 0..n PROVE k \in Good
    <2>1. 0 \in Good
      BY <1>2, <1>7
    <2>2. ASSUME NEW m \in 1..k, m - 1 \in Good PROVE m \in Good
      <3>1. m \in 1..n
        BY <1>2
      <3>2. iter[1..m] = Put(iter[1..(m - 1)], s[m]) /\ iter[1..(m - 1)] \in Nat
        BY <1>8, <2>2, <3>1
      <3> QED BY <1>2, <3>1, <3>2 DEF Put
    <2>3. k \in Nat
      BY <1>2
    <2> HIDE DEF Good
    <2> QED BY <2>1, <2>2, <2>3, StepByStep
  <1>10. c \in [0..n -> Nat]
    BY <1>9
  <1>11. c[0] = 0 /\ c[n] = Claims(s)
    BY <1>1, <1>2, <1>7
  <1>12. ASSUME NEW k \in 1..n PROVE c[k] = c[k - 1] + Len(s[k])
    <2>1. k \in 0..n /\ k - 1 \in 0..n
      BY <1>2
    <2> QED BY <1>8, <2>1 DEF Put
  <1> HIDE DEF c
  <1> QED BY <1>10, <1>11, <1>12 DEF Counts, n

\* One more list of claims
LEMMA ClaimsAdded ==
  ASSUME NEW B, NEW s \in Seq(Seq(B)), NEW a \in Seq(B)
  PROVE  Claims(s) \in Nat /\ Claims(Append(s, a)) = Claims(s) + Len(a)
  <1> DEFINE t == Append(s, a)
             n == Len(s)
  <1>1. /\ n \in Nat /\ t \in Seq(Seq(B)) /\ Len(t) = n + 1 /\ t[n + 1] = a
        /\ \A k \in 1..n : t[k] = s[k]
    OBVIOUS
  <1> HIDE DEF t, n
  <1>2. PICK c : Counts(s, c)
    BY ClaimsCounted
  <1>3. PICK d : Counts(t, d)
    BY <1>1, ClaimsCounted
  <1>4. /\ c \in [0..n -> Nat] /\ c[0] = 0 /\ \A k \in 1..n : c[k] = c[k - 1] + Len(s[k])
        /\ Claims(s) = c[n]
    BY <1>2 DEF Counts, n
  <1>5. /\ d[0] = 0 /\ \A k \in 1..(n + 1) : d[k] = d[k - 1] + Len(t[k])
        /\ Claims(t) = d[n + 1]
    BY <1>1, <1>3 DEF Counts
  <1> DEFINE Good == {k \in 0..n : d[k] = c[k]}
  <1>6. 0 \in Good
    BY <1>1, <1>4, <1>5
  <1>7. ASSUME NEW k \in 1..n, k - 1 \in Good PROVE k \in Good
    <2>1. k \in 1..(n + 1) /\ d[k - 1] = c[k - 1]
      BY <1>1, <1>7
    <2>2. d[k] = c[k]
      BY <1>1, <1>4, <1>5, <2>1
    <2> QED BY <2>2
  <1>8. n \in Good
    <2> HIDE DEF Good
    <2> QED BY <1>1, <1>6, <1>7, StepByStep
  <1>9. d[n + 1] = d[n] + Len(a) /\ d[n] = c[n]
    <2>1. n + 1 \in 1..(n + 1) /\ (n + 1) - 1 = n
      BY <1>1
    <2>2. d[n + 1] = d[(n + 1) - 1] + Len(t[n + 1])
      BY <1>5, <2>1
    <2> QED BY <1>1, <1>8, <2>1, <2>2
  <1>10. c[n] \in Nat
    <2>1. n \in 0..n
      BY <1>1
    <2> QED BY <1>4, <2>1
  <1> QED BY <1>4, <1>5, <1>9, <1>10 DEF t

\* Ordered by time a list has the same length, no other members, and the latest last
LEMMA Ordered ==
  ASSUME NEW E, NEW items \in Seq(E), \A k \in DOMAIN items : items[k].time \in Int
  PROVE  /\ ByTime(items) \in Seq(E) /\ Len(ByTime(items)) = Len(items)
         /\ \A k \in 1..Len(items) : \E m \in 1..Len(items) : ByTime(items)[k] = items[m]
         /\ \A k \in 1..Len(items) : items[k].time <= ByTime(items)[Len(items)].time
  <1> DEFINE n == Len(items)
             time(k) == items[k].time
             Earlier(m, k) == \/ items[m].time < items[k].time
                              \/ items[m].time = items[k].time /\ m < k
             Before(k) == {m \in DOMAIN items : Earlier(m, k)}
             At(k) == CHOOSE m \in DOMAIN items : Cardinality(Before(m)) + 1 = k
             rank == [k \in 1..n |-> Cardinality(Before(k)) + 1]
  <1>1. n \in Nat /\ DOMAIN items = 1..n /\ \A k \in 1..n : items[k] \in E /\ time(k) \in Int
    OBVIOUS
  <1>2. ByTime(items) = [k \in DOMAIN items |-> items[At(k)]]
    BY DEF ByTime
  <1>3. ASSUME NEW k \in 1..n, NEW l \in 1..n, NEW m \in 1..n
        PROVE  /\ ~Earlier(k, k) /\ (k # l => Earlier(k, l) \/ Earlier(l, k))
               /\ Earlier(m, l) /\ Earlier(l, k) => Earlier(m, k)
    <2>1. time(m) \in Int /\ time(l) \in Int /\ time(k) \in Int
      BY <1>1
    <2>2. k \in Int /\ l \in Int /\ m \in Int
      BY <1>1
    <2>3. ~Earlier(k, k)
      BY <2>1, <2>2
    <2>4. k # l => Earlier(k, l) \/ Earlier(l, k)
      BY <2>1, <2>2
    <2>5. Earlier(m, l) /\ Earlier(l, k) => Earlier(m, k)
      BY <2>1, <2>2
    <2> QED BY <2>3, <2>4, <2>5
  <1> HIDE DEF Earlier
  <1>4. ASSUME NEW k \in 1..n
        PROVE  Before(k) \in SUBSET (1..n) /\ k \notin Before(k)
    BY <1>1, <1>3
  <1>5. ASSUME NEW k \in 1..n, NEW l \in 1..n, l \in Before(k)
        PROVE  Before(l) \subseteq Before(k)
    BY <1>1, <1>3, <1>5
  <1>6. ASSUME NEW k \in 1..n, NEW l \in 1..n, k # l
        PROVE  k \in Before(l) \/ l \in Before(k)
    BY <1>1, <1>3, <1>6
  <1> HIDE DEF Before, time
  <1>7. ASSUME NEW k \in 1..n
        PROVE  /\ IsFiniteSet(Before(k)) /\ Cardinality(Before(k)) \in Nat
               /\ Cardinality(Before(k)) < n
    <2>0. 1 \in Int /\ n \in Int
      BY <1>1
    <2>1. IsFiniteSet(1..n) /\ Cardinality(1..n) = IF 1 > n THEN 0 ELSE n - 1 + 1
      BY <2>0, FS_Interval
    <2>2. IsFiniteSet(Before(k)) /\ Cardinality(Before(k)) <= n /\ Cardinality(Before(k)) \in Nat
          /\ (Cardinality(1..n) = Cardinality(Before(k)) => 1..n = Before(k))
      BY <1>4, <2>1, FS_Subset, FS_CardinalityType
    <2> QED BY <1>1, <1>4, <2>1, <2>2
  <1>8. ASSUME NEW k \in 1..n, NEW l \in 1..n, l \in Before(k)
        PROVE  Cardinality(Before(l)) < Cardinality(Before(k))
    <2>1. Before(l) \in SUBSET Before(k) /\ Before(l) # Before(k)
      BY <1>4, <1>5, <1>8
    <2>2. Cardinality(Before(l)) <= Cardinality(Before(k))
          /\ Cardinality(Before(k)) # Cardinality(Before(l))
      BY <1>7, <2>1, FS_Subset
    <2> QED BY <1>7, <2>2
  <1>9. rank \in [1..n -> 1..n]
    <2>1. ASSUME NEW k \in 1..n PROVE Cardinality(Before(k)) + 1 \in 1..n
      BY <1>1, <1>7
    <2> QED BY <2>1
  <1>10. \A k, l \in 1..n : k # l => rank[k] # rank[l]
    <2>1. ASSUME NEW k \in 1..n, NEW l \in 1..n, k # l PROVE rank[k] # rank[l]
      <3>1. Cardinality(Before(k)) # Cardinality(Before(l))
        <4>1. Cardinality(Before(k)) \in Nat /\ Cardinality(Before(l)) \in Nat
          BY <1>7
        <4> QED BY <1>6, <1>8, <2>1, <4>1
      <3> QED BY <1>7, <3>1
    <2> QED BY <2>1
  <1>11. rank \in Surjection(1..n, 1..n)
    <2> HIDE DEF rank
    <2>1. rank \in Injection(1..n, 1..n)
      BY <1>9, <1>10 DEF Injection, IsInjective
    <2>2. IsFiniteSet(1..n)
      <3>1. 1 \in Int /\ n \in Int
        BY <1>1
      <3> QED BY <3>1, FS_Interval
    <2> QED BY <2>1, <2>2, FS_Injection
  <1>12. ASSUME NEW k \in 1..n PROVE At(k) \in 1..n /\ Cardinality(Before(At(k))) + 1 = k
    <2>1. \E m \in 1..n : rank[m] = k
      <3> HIDE DEF rank
      <3> QED BY <1>11 DEF Surjection
    <2>2. \E m \in DOMAIN items : Cardinality(Before(m)) + 1 = k
      BY <1>1, <2>1
    <2> QED BY <1>1, <2>2
  <1> HIDE DEF At
  <1>13. \A k \in 1..n : items[At(k)] \in E
    BY <1>1, <1>12
  <1>14. ByTime(items) \in [1..n -> E]
    <2> HIDE DEF n
    <2> QED BY <1>1, <1>2, <1>13
  <1>15. ASSUME NEW k \in 1..n PROVE items[k].time <= items[At(n)].time
    <2>1. n \in 1..n
      BY <1>1
    <2>2. At(n) \in 1..n /\ Cardinality(Before(At(n))) = n - 1
      <3>1. At(n) \in 1..n /\ Cardinality(Before(At(n))) + 1 = n
        BY <1>12, <2>1
      <3>2. Cardinality(Before(At(n))) \in Nat
        BY <1>7, <3>1
      <3> QED BY <1>1, <3>1, <3>2
    <2>3. At(n) \notin Before(k)
      <3>1. Cardinality(Before(k)) < n /\ Cardinality(Before(k)) \in Nat
        BY <1>7
      <3>2. ~(n - 1 < Cardinality(Before(k)))
        BY <1>1, <3>1
      <3> QED BY <1>8, <2>2, <3>2
    <2>4. k = At(n) \/ k \in Before(At(n))
      BY <1>6, <2>2, <2>3
    <2>5. items[k].time \in Int /\ items[At(n)].time \in Int
      BY <1>1, <2>2 DEF time
    <2>6. k \in Before(At(n)) => items[k].time <= items[At(n)].time
      BY <2>5 DEF Before, Earlier
    <2> QED BY <2>4, <2>5, <2>6
  <1>16. \A k \in 1..n : ByTime(items)[k] = items[At(k)] /\ At(k) \in 1..n
    <2> HIDE DEF n
    <2> QED BY <1>1, <1>2, <1>12
  <1> HIDE DEF n, rank
  <1>17. ASSUME NEW k \in 1..n PROVE items[k].time <= ByTime(items)[n].time
    <2>1. n \in 1..n
      BY <1>1
    <2> QED BY <1>15, <1>16, <2>1
  <1>18. ByTime(items) \in Seq(E) /\ Len(ByTime(items)) = n
    BY <1>1, <1>14
  <1>19. \A k \in 1..n : \E m \in 1..n : ByTime(items)[k] = items[m]
    BY <1>16
  <1> QED BY <1>17, <1>18, <1>19 DEF n

\* A part of a list
LEMMA PartOf ==
  ASSUME NEW E, NEW s \in Seq(E), NEW a \in Nat \ {0}, NEW b \in Int, b <= Len(s)
  PROVE  SubSeq(s, a, b) \in Seq(E) /\ (a <= b => SubSeq(s, a, b) # <<>>)
  <1>1. CASE a <= b
    <2>1. SubSeq(s, a, b) \in Seq(E) /\ Len(SubSeq(s, a, b)) = b - a + 1
      BY <1>1
    <2> QED BY <2>1
  <1>2. CASE ~(a <= b)
    BY <1>2
  <1> QED BY <1>1, <1>2

\* A list over a larger set
LEMMA Widened ==
  ASSUME NEW A, NEW B, A \subseteq B, NEW s \in Seq(A)
  PROVE  s \in Seq(B)
  <1>1. DOMAIN s = 1..Len(s) /\ Len(s) \in Nat /\ \A n \in DOMAIN s : s[n] \in B
    OBVIOUS
  <1>2. s \in [1..Len(s) -> B]
    BY <1>1
  <1> QED BY <1>1, <1>2

\* A list whose members are all of a set
LEMMA Narrowed ==
  ASSUME NEW A, NEW B, NEW s \in Seq(A), ToSet(s) \subseteq B
  PROVE  s \in Seq(B)
  <1>1. DOMAIN s = 1..Len(s) /\ Len(s) \in Nat /\ \A n \in DOMAIN s : s[n] \in B
    BY DEF ToSet
  <1>2. s \in [1..Len(s) -> B]
    BY <1>1
  <1> QED BY <1>1, <1>2

-----------------------------------------------------------------------------
(***************************************************************************)
(* What a run gathers: evidence of the records, whatever the store does.   *)
(***************************************************************************)
StoreSet == [Records -> [live : BOOLEAN, time : Int]]
EvidenceSet == [id : Records, direct : BOOLEAN, time : Int]

\* The records of a bucket
Within(st, b, end) == {r \in Records : InBucket(st[r].time, b, end)}

\* What is picked of a list, up to a limit: of the list's first members none is cut off
LEMMA CutPicked ==
  ASSUME NEW R, NEW list \in Seq(R), NEW P, NEW limit \in Nat
  PROVE  /\ Cut(Picked(list, P), limit) \in Seq(R) /\ Len(Cut(Picked(list, P), limit)) <= limit
         /\ ToSet(Cut(Picked(list, P), limit)) \subseteq {list[k] : k \in DOMAIN list \cap P}
         /\ \A n \in 1..limit : n \in DOMAIN list \cap P
              => list[n] \in ToSet(Cut(Picked(list, P), limit))
  <1> DEFINE s == Picked(list, P)
             m == Min({limit, Len(s)})
  <1>1. s \in Seq(R) /\ ToSet(s) = {list[k] : k \in DOMAIN list \cap P}
    BY PickedFacts
  <1>2. PICK pos : Selects(list, P, s, pos, Len(list))
    BY PickedPositions
  <1>3. Cut(s, limit) = SubSeq(s, 1, m)
    BY DEF Cut
  <1>4. DOMAIN list = 1..Len(list)
    OBVIOUS
  <1> HIDE DEF s
  <1>5. Len(s) \in Nat /\ DOMAIN s = 1..Len(s)
    BY <1>1
  <1>6. m \in Nat /\ m <= Len(s) /\ m <= limit /\ (m = limit \/ m = Len(s))
    BY <1>5, LesserOf
  <1> HIDE DEF m
  <1>7. /\ SubSeq(s, 1, m) \in Seq(R) /\ Len(SubSeq(s, 1, m)) = m
        /\ DOMAIN SubSeq(s, 1, m) = 1..m
        /\ \A i \in 1..m : i \in DOMAIN s /\ SubSeq(s, 1, m)[i] = s[i]
    BY <1>1, <1>5, <1>6
  <1>8. ToSet(SubSeq(s, 1, m)) \subseteq ToSet(s)
    BY <1>7 DEF ToSet
  <1>9. ASSUME NEW n \in 1..limit, n \in DOMAIN list \cap P
        PROVE  list[n] \in ToSet(SubSeq(s, 1, m))
    <2>1. PICK i \in 1..Len(s) : pos[i] = n
      BY <1>2, <1>4, <1>9 DEF Selects
    <2>2. s[i] = list[n] /\ i <= n
      BY <1>2, <2>1 DEF Selects
    <2>3. i \in 1..m
      <3>1. i \in Nat /\ i >= 1 /\ i <= Len(s) /\ i <= limit
        BY <1>5, <2>1, <2>2
      <3> QED BY <1>6, <3>1
    <2> QED BY <1>7, <2>2, <2>3 DEF ToSet
  <1> QED BY <1>1, <1>3, <1>6, <1>7, <1>8, <1>9 DEF s

\* A search finds records of its collection and its bucket, and all those among its first hits
LEMMA SearchFinds ==
  ASSUME NEW st, NEW collection, NEW q \in DOMAIN Hits, NEW b, NEW end, NEW limit \in Nat
  PROVE  /\ ToSet(Search(st, collection, q, b, end, limit)) \subseteq collection \cap Within(st, b, end)
         /\ \A n \in 1..limit : /\ n \in DOMAIN Hits[q] /\ Hits[q][n] \in collection
                                /\ st[Hits[q][n]].live /\ InBucket(st[Hits[q][n]].time, b, end)
              => Hits[q][n] \in ToSet(Search(st, collection, q, b, end, limit))
  <1> DEFINE hits == Hits[q]
             P == {n \in DOMAIN hits : /\ hits[n] \in collection /\ st[hits[n]].live
                                       /\ InBucket(st[hits[n]].time, b, end)}
  <1>1. hits \in Seq(Records)
    BY EvidenceAssumption
  <1>2. Search(st, collection, q, b, end, limit) = Cut(Picked(hits, P), limit)
    BY DEF Search
  <1>3. \A k \in DOMAIN hits \cap P : hits[k] \in collection \cap Within(st, b, end)
    <2>1. \A k \in DOMAIN hits : hits[k] \in Records
      BY <1>1
    <2> HIDE DEF hits
    <2> QED BY <2>1 DEF Within
  <1>4. \A n \in DOMAIN hits : hits[n] \in collection /\ st[hits[n]].live
                               /\ InBucket(st[hits[n]].time, b, end) => n \in DOMAIN hits \cap P
    OBVIOUS
  <1> HIDE DEF hits, P
  <1>5. /\ ToSet(Cut(Picked(hits, P), limit)) \subseteq {hits[k] : k \in DOMAIN hits \cap P}
        /\ \A n \in 1..limit : n \in DOMAIN hits \cap P => hits[n] \in ToSet(Cut(Picked(hits, P), limit))
    BY <1>1, CutPicked
  <1> QED BY <1>2, <1>3, <1>4, <1>5 DEF hits

\* The merge keeps to what the two searches returned, and drops none of the first hits
LEMMA BestOf ==
  ASSUME NEW q \in DOMAIN Hits, NEW episodes, NEW knowledge, NEW limit \in Nat
  PROVE  /\ Best(q, episodes, knowledge, limit) \in Seq(Records)
         /\ ToSet(Best(q, episodes, knowledge, limit)) \subseteq episodes \cup knowledge
         /\ \A n \in 1..limit : n \in DOMAIN Hits[q] /\ Hits[q][n] \in episodes \cup knowledge
              => Hits[q][n] \in ToSet(Best(q, episodes, knowledge, limit))
  <1> DEFINE hits == Hits[q]
             P == {n \in DOMAIN hits : hits[n] \in episodes \cup knowledge}
  <1>1. hits \in Seq(Records)
    BY EvidenceAssumption
  <1>2. Best(q, episodes, knowledge, limit) = Cut(Picked(hits, P), limit)
    BY DEF Best
  <1>3. /\ \A k \in DOMAIN hits \cap P : hits[k] \in episodes \cup knowledge
        /\ \A n \in DOMAIN hits : hits[n] \in episodes \cup knowledge => n \in DOMAIN hits \cap P
    OBVIOUS
  <1> HIDE DEF hits, P
  <1>4. /\ Cut(Picked(hits, P), limit) \in Seq(Records)
        /\ ToSet(Cut(Picked(hits, P), limit)) \subseteq {hits[k] : k \in DOMAIN hits \cap P}
        /\ \A n \in 1..limit : n \in DOMAIN hits \cap P => hits[n] \in ToSet(Cut(Picked(hits, P), limit))
    BY <1>1, CutPicked
  <1> QED BY <1>2, <1>3, <1>4 DEF hits

\* What a query adds was recalled, and the limit of the expansion holds
LEMMA AddedTo ==
  ASSUME NEW recalled \in Seq(Records), NEW seen, NEW sofar \in Seq(Records),
         Len(sofar) <= TotalExpanded
  PROVE  /\ Added(recalled, seen, sofar) \in Seq(Records)
         /\ ToSet(Added(recalled, seen, sofar)) \subseteq ToSet(recalled)
         /\ Len(sofar \o Added(recalled, seen, sofar)) <= TotalExpanded
  <1> DEFINE P == {n \in DOMAIN recalled : recalled[n] \notin seen \cup ToSet(sofar)}
             limit == TotalExpanded - Len(sofar)
             new == Added(recalled, seen, sofar)
  <1>1. Len(sofar) \in Nat /\ TotalExpanded \in Nat
    BY EvidenceAssumption
  <1>2. limit \in Nat /\ Len(sofar) + limit = TotalExpanded
    BY <1>1
  <1>3. new = Cut(Picked(recalled, P), limit)
    BY DEF Added
  <1>4. {recalled[k] : k \in DOMAIN recalled \cap P} \subseteq ToSet(recalled)
    BY DEF ToSet
  <1> HIDE DEF P, limit, new
  <1>5. /\ new \in Seq(Records) /\ Len(new) <= limit
        /\ ToSet(new) \subseteq {recalled[k] : k \in DOMAIN recalled \cap P}
    BY <1>2, <1>3, CutPicked
  <1>6. Len(sofar \o new) = Len(sofar) + Len(new) /\ Len(new) \in Nat
    BY <1>5
  <1>7. Len(sofar \o new) <= TotalExpanded
    BY <1>1, <1>2, <1>5, <1>6
  <1> QED BY <1>4, <1>5, <1>7 DEF new

LEMMA ItemsOf ==
  ASSUME NEW st \in StoreSet, NEW rs \in Seq(Records)
  PROVE  Items(st, rs) \in Seq(EvidenceSet)
  <1>1. \A n \in DOMAIN rs : Item(st, rs[n], FALSE) \in EvidenceSet
    <2>1. ASSUME NEW r \in Records PROVE Item(st, r, FALSE) \in EvidenceSet
      <3>1. st[r].time \in Int
        BY DEF StoreSet
      <3> QED BY <3>1 DEF EvidenceSet, Item
    <2>2. \A n \in DOMAIN rs : rs[n] \in Records
      OBVIOUS
    <2> QED BY <2>1, <2>2
  <1>2. DOMAIN rs = 1..Len(rs) /\ Len(rs) \in Nat
    OBVIOUS
  <1>3. Items(st, rs) \in [1..Len(rs) -> EvidenceSet]
    BY <1>1, <1>2 DEF Items
  <1> QED BY <1>2, <1>3

LEMMA ScopeAndTopic ==
  ASSUME NEW items \in Seq(EvidenceSet), NEW project, NEW t
  PROVE  InScope(project, items) \in Seq(EvidenceSet) /\ OnTopic(t, items) \in Seq(EvidenceSet)
  BY PickedFacts DEF InScope, OnTopic

LEMMA OfTheSession ==
  ASSUME NEW st \in StoreSet, NEW rs \in Seq(Records), NEW t
  PROVE  SessionEvidence(st, rs, t) \in Seq(EvidenceSet)
  <1> DEFINE own == OnTopic(t, Items(st, rs))
  <1>1. own \in Seq(EvidenceSet)
    BY ItemsOf, ScopeAndTopic
  <1>2. SessionEvidence(st, rs, t) = [n \in DOMAIN own |-> [own[n] EXCEPT !.direct = TRUE]]
    BY DEF SessionEvidence
  <1> HIDE DEF own
  <1>3. \A n \in DOMAIN own : [own[n] EXCEPT !.direct = TRUE] \in EvidenceSet
    <2>1. \A e \in EvidenceSet : [e EXCEPT !.direct = TRUE] \in EvidenceSet
      BY DEF EvidenceSet
    <2> QED BY <1>1, <2>1
  <1>4. DOMAIN own = 1..Len(own) /\ Len(own) \in Nat
    BY <1>1
  <1> QED BY <1>2, <1>3, <1>4

\* The queries of a frontier, and the relation recall
LEMMA Asked ==
  ASSUME NEW frontier \in Seq(Records), NEW asked
  PROVE  Queries(frontier, asked) \in Seq(DOMAIN Hits)
  <1> DEFINE lists == [n \in DOMAIN frontier |-> Associations[frontier[n]]]
             all == FlattenSeq(lists)
  <1>1. DOMAIN frontier = 1..Len(frontier) /\ Len(frontier) \in Nat
        /\ \A n \in DOMAIN frontier : frontier[n] \in Records
    OBVIOUS
  <1>2. lists \in Seq(Seq(DOMAIN Hits))
    <2>1. \A n \in DOMAIN frontier : Associations[frontier[n]] \in Seq(DOMAIN Hits)
      BY <1>1, EvidenceAssumption
    <2>2. lists \in [1..Len(frontier) -> Seq(DOMAIN Hits)]
      BY <1>1, <2>1
    <2> QED BY <1>1, <2>2
  <1> HIDE DEF lists
  <1>3. all \in Seq(DOMAIN Hits)
    BY <1>2, Flattened
  <1>4. Queries(frontier, asked) = Picked(all, {n \in DOMAIN all : /\ all[n] \notin asked
                                                                 /\ \A m \in 1..(n - 1) : all[m] # all[n]})
    BY DEF Queries, lists
  <1> HIDE DEF all
  <1> QED BY <1>3, <1>4, PickedFacts

\* What some reviewed relation leads to
Linked == {r \in Records : \E q \in Records : r \in ToSet(Related[q])}

LEMMA RelatedTo ==
  ASSUME NEW st, NEW seed \in Seq(Records)
  PROVE  RelatedOf(st, seed) \in Seq(Linked)
  <1> DEFINE lists == [n \in DOMAIN seed |-> Related[seed[n]]]
             all == FlattenSeq(lists)
  <1>1. DOMAIN seed = 1..Len(seed) /\ Len(seed) \in Nat
        /\ \A n \in DOMAIN seed : seed[n] \in Records
    OBVIOUS
  <1>2. lists \in Seq(Seq(Linked))
    <2>1. \A n \in DOMAIN seed : Related[seed[n]] \in Seq(Linked)
      <3>1. ASSUME NEW r \in Records PROVE Related[r] \in Seq(Linked)
        <4>1. Related[r] \in Seq(Records)
          BY EvidenceAssumption
        <4>2. ToSet(Related[r]) \subseteq Linked
          BY <4>1 DEF Linked, ToSet
        <4> QED BY <4>1, <4>2, Narrowed
      <3> QED BY <1>1, <3>1
    <2>2. lists \in [1..Len(seed) -> Seq(Linked)]
      BY <1>1, <2>1
    <2> QED BY <1>1, <2>2
  <1> HIDE DEF lists
  <1>3. all \in Seq(Linked)
    BY <1>2, Flattened
  <1>4. RelatedOf(st, seed) = Picked(all, {n \in DOMAIN all : st[all[n]].live})
    BY DEF RelatedOf, lists
  <1> HIDE DEF all
  <1> QED BY <1>3, <1>4, PickedFacts

-----------------------------------------------------------------------------
(***************************************************************************)
(* The tasks made of the evidence, each of which cites some of its topic.  *)
(***************************************************************************)
Kinds == {"current_state", "superseded_or_removed", "durable_lesson", "caveat"}
TaskSet(ts, R) == [kind : Kinds, topic : ts, ids : Seq(R) \ {<<>>}]

LEMMA TaskOf ==
  ASSUME NEW kind \in Kinds, NEW t, NEW R, NEW E, \A e \in E : e.id \in R,
         NEW items \in Seq(E), items # <<>>
  PROVE  Task(kind, t, items) \in TaskSet({t}, R)
  <1> DEFINE ids == [n \in DOMAIN items |-> items[n].id]
  <1>1. DOMAIN items = 1..Len(items) /\ Len(items) \in Nat /\ Len(items) # 0
        /\ \A n \in DOMAIN items : items[n] \in E
    OBVIOUS
  <1>2. ids \in [1..Len(items) -> R]
    BY <1>1
  <1> HIDE DEF ids
  <1>3. ids \in Seq(R) /\ Len(ids) = Len(items)
    BY <1>1, <1>2
  <1>4. ids # <<>>
    BY <1>1, <1>3
  <1> QED BY <1>3, <1>4 DEF Task, TaskSet, ids

LEMMA Matched ==
  ASSUME NEW E, NEW items \in Seq(E), NEW marker
  PROVE  Matching(items, marker) \in Seq(E)
  BY PickedFacts DEF Matching

LEMMA Distinguished ==
  ASSUME NEW E, NEW items \in Seq(E)
  PROVE  Deduplicate(items) \in Seq(E)
  BY PickedFacts DEF Deduplicate

LEMMA FrontOf ==
  ASSUME NEW E, NEW s \in Seq(E), NEW n \in Nat \ {0}, n <= Len(s)
  PROVE  Front2(s, n) \in Seq(E) /\ Front2(s, n) # <<>>
  <1> DEFINE m == Min({n + 1, Len(s)})
  <1>1. Len(s) \in Nat
    OBVIOUS
  <1>2. m \in Int /\ m <= Len(s) /\ n <= m
    BY <1>1, LesserOf
  <1> HIDE DEF m
  <1>3. SubSeq(s, n, m) \in Seq(E) /\ SubSeq(s, n, m) # <<>>
    BY <1>2, PartOf
  <1> QED BY <1>3 DEF Front2, m

\* A list of tasks, as many as a limit and the items allow
LEMMA AsMany ==
  ASSUME NEW T, NEW k \in Int, NEW f, \A n \in 1..k : f[n] \in T, DOMAIN f = 1..k,
         f = [n \in 1..k |-> f[n]]
  PROVE  f \in Seq(T)
  <1>1. CASE k \in Nat
    <2>1. f \in [1..k -> T]
      OBVIOUS
    <2> QED BY <1>1, <2>1
  <1>2. CASE k \notin Nat
    <2>1. 1..k = 1..0
      BY <1>2
    <2>2. f \in [1..0 -> T]
      BY <2>1
    <2> QED BY <2>2
  <1> QED BY <1>1, <1>2

LEMMA TasksOf ==
  ASSUME NEW t, NEW R, NEW E, \A e \in E : e.id \in R /\ e.time \in Int, NEW items \in Seq(E)
  PROVE  TasksOfTopic(t, items) \in Seq(TaskSet({t}, R))
  <1> DEFINE T == TaskSet({t}, R)
             ordered == ByTime(items)
             newest == Reverse(ordered)
             latest == SubSeq(newest, 1, Min({MaxEvidence, Len(newest)}))
             replaced == Matching(ordered, "replacement")
             caveats == Matching(ordered, "caveat")
             sources == Deduplicate(Matching(ordered, "decision") \o Matching(ordered, "validation")
                                    \o latest)
             some == Min({TaskCount, Len(latest)})
             more == Min({TaskCount, Len(sources) - 1})
             few == Min({TaskCount, Len(caveats)})
             current == [n \in 1..some |-> Task("current_state", t, Front2(latest, n))]
             superseded == IF replaced = <<>> THEN <<>>
                           ELSE <<Task("superseded_or_removed", t,
                                       SubSeq(replaced, 1, Min({MaxEvidence, Len(replaced)})))>>
             lessons == [n \in 1..more |-> Task("durable_lesson", t, Front2(sources, n))]
             warned == [n \in 1..few |-> Task("caveat", t, <<caveats[n]>>)]
  <1>1. TasksOfTopic(t, items) = IF items = <<>> THEN <<>> ELSE current \o superseded \o lessons \o warned
    BY DEF TasksOfTopic
  <1>2. ordered \in Seq(E)
    <2>1. \A k \in DOMAIN items : items[k].time \in Int
      OBVIOUS
    <2> QED BY <2>1, Ordered
  <1> HIDE DEF ordered
  <1>3. newest \in Seq(E)
    BY <1>2 DEF Reverse
  <1> HIDE DEF newest
  <1>4. latest \in Seq(E)
    <2> DEFINE m == Min({MaxEvidence, Len(newest)})
    <2>1. m \in Int /\ m <= Len(newest)
      BY <1>3, LesserOf DEF MaxEvidence
    <2> HIDE DEF m
    <2>2. SubSeq(newest, 1, m) \in Seq(E)
      BY <1>3, <2>1, PartOf
    <2> QED BY <2>2 DEF m
  <1> HIDE DEF latest
  <1>5. replaced \in Seq(E) /\ caveats \in Seq(E)
    BY <1>2, Matched
  <1> HIDE DEF replaced, caveats
  <1>6. sources \in Seq(E)
    <2> DEFINE a == Matching(ordered, "decision")
               b == Matching(ordered, "validation")
    <2>1. a \in Seq(E) /\ b \in Seq(E)
      BY <1>2, Matched
    <2> HIDE DEF a, b
    <2>2. a \o b \o latest \in Seq(E)
      BY <1>4, <2>1
    <2> QED BY <2>2, Distinguished DEF a, b
  <1> HIDE DEF sources
  <1>7. current \in Seq(T)
    <2>1. some \in Int /\ some <= Len(latest)
      BY SMTT(40), <1>4, LesserOf DEF TaskCount
    <2> HIDE DEF some
    <2>2. \A n \in 1..some : Task("current_state", t, Front2(latest, n)) \in T
      <3>1. ASSUME NEW n \in 1..some PROVE Task("current_state", t, Front2(latest, n)) \in T
        <4>1. n \in Nat \ {0} /\ n <= Len(latest)
          BY <1>4, <2>1
        <4>2. Front2(latest, n) \in Seq(E) /\ Front2(latest, n) # <<>>
          BY <1>4, <4>1, FrontOf
        <4> QED BY <4>2, TaskOf DEF Kinds
      <3> QED BY <3>1
    <2> HIDE DEF T
    <2> QED BY <2>1, <2>2, AsMany
  <1>8. superseded \in Seq(T)
    <2> DEFINE m == Min({MaxEvidence, Len(replaced)})
    <2>1. CASE replaced # <<>>
      <3>1. Len(replaced) \in Nat /\ Len(replaced) # 0
        BY <1>5, <2>1
      <3>2. m \in Int /\ m <= Len(replaced) /\ 1 <= m
        BY <3>1, LesserOf DEF MaxEvidence
      <3> HIDE DEF m
      <3>3. SubSeq(replaced, 1, m) \in Seq(E) /\ SubSeq(replaced, 1, m) # <<>>
        <4>1. 1 \in Nat \ {0} /\ replaced \in Seq(E)
          BY <1>5
        <4>2. SubSeq(replaced, 1, m) \in Seq(E) /\ (1 <= m => SubSeq(replaced, 1, m) # <<>>)
          BY <3>2, <4>1, PartOf
        <4> QED BY <3>2, <4>2
      <3>4. Task("superseded_or_removed", t, SubSeq(replaced, 1, m)) \in T
        BY <3>3, TaskOf DEF Kinds
      <3> QED BY <2>1, <3>4 DEF m
    <2> QED BY <2>1
  <1>9. lessons \in Seq(T)
    <2>1. more \in Int /\ more <= Len(sources) - 1
      BY <1>6, LesserOf DEF TaskCount
    <2> HIDE DEF more
    <2>2. \A n \in 1..more : Task("durable_lesson", t, Front2(sources, n)) \in T
      <3>1. ASSUME NEW n \in 1..more PROVE Task("durable_lesson", t, Front2(sources, n)) \in T
        <4>1. n \in Nat \ {0} /\ n <= Len(sources)
          BY <1>6, <2>1
        <4>2. Front2(sources, n) \in Seq(E) /\ Front2(sources, n) # <<>>
          BY <1>6, <4>1, FrontOf
        <4> QED BY <4>2, TaskOf DEF Kinds
      <3> QED BY <3>1
    <2> HIDE DEF T
    <2> QED BY <2>1, <2>2, AsMany
  <1>10. warned \in Seq(T)
    <2>1. few \in Int /\ few <= Len(caveats)
      <3> DEFINE count == Len(caveats)
      <3>1. count \in Nat
        BY <1>5
      <3> HIDE DEF count
      <3>2. Min({TaskCount, count}) \in Int /\ Min({TaskCount, count}) <= count
        BY <3>1, LesserOf DEF TaskCount
      <3> QED BY <3>2 DEF count
    <2> HIDE DEF few
    <2>2. \A n \in 1..few : Task("caveat", t, <<caveats[n]>>) \in T
      <3>1. ASSUME NEW n \in 1..few PROVE Task("caveat", t, <<caveats[n]>>) \in T
        <4>1. n \in 1..Len(caveats)
          BY <1>5, <2>1
        <4>2. <<caveats[n]>> \in Seq(E) /\ <<caveats[n]>> # <<>>
          BY <1>5, <4>1
        <4> QED BY <4>2, TaskOf DEF Kinds
      <3> QED BY <3>1
    <2> HIDE DEF T
    <2> QED BY <2>1, <2>2, AsMany
  <1> HIDE DEF current, superseded, lessons, warned, T
  <1>11. current \o superseded \o lessons \o warned \in Seq(T)
    BY <1>7, <1>8, <1>9, <1>10
  <1> QED BY <1>1, <1>11 DEF T

\* Tasks whose ids are of the evidence on their topic
TasksFrom(ev) ==
  {k \in TaskSet(ToSet(Topics), Records) :
     ToSet(k.ids) \subseteq {ev[k.topic][n].id : n \in DOMAIN ev[k.topic]}}

LEMMA Built ==
  ASSUME NEW ev \in [ToSet(Topics) -> Seq(EvidenceSet)]
  PROVE  BuildTasks(ev) \in Seq(TasksFrom(ev))
  <1> DEFINE lists == [n \in DOMAIN Topics |-> TasksOfTopic(Topics[n], ev[Topics[n]])]
  <1>1. DOMAIN Topics = 1..Len(Topics) /\ Len(Topics) \in Nat
    BY EvidenceAssumption
  <1>2. ASSUME NEW t \in ToSet(Topics) PROVE TasksOfTopic(t, ev[t]) \in Seq(TasksFrom(ev))
    <2> DEFINE R == {ev[t][n].id : n \in DOMAIN ev[t]}
               E == {e \in EvidenceSet : e.id \in R}
    <2>1. ev[t] \in Seq(EvidenceSet)
      OBVIOUS
    <2>2. ev[t] \in Seq(E)
      <3>1. \A n \in DOMAIN ev[t] : ev[t][n] \in E
        BY <2>1
      <3>2. DOMAIN ev[t] = 1..Len(ev[t]) /\ Len(ev[t]) \in Nat
        BY <2>1
      <3>3. ev[t] \in [1..Len(ev[t]) -> E]
        <4> HIDE DEF E
        <4> QED BY <2>1, <3>1, <3>2
      <3> HIDE DEF E
      <3> QED BY <3>2, <3>3
    <2>3. \A e \in E : e.id \in R /\ e.time \in Int
      BY DEF EvidenceSet
    <2>4. R \subseteq Records
      <3>1. \A n \in DOMAIN ev[t] : ev[t][n] \in EvidenceSet
        BY <2>1
      <3> QED BY <3>1 DEF EvidenceSet
    <2>5. TasksOfTopic(t, ev[t]) \in Seq(TaskSet({t}, R))
      <3> HIDE DEF E, R
      <3> QED BY <2>2, <2>3, TasksOf
    <2>6. TaskSet({t}, R) \subseteq TasksFrom(ev)
      <3>1. ASSUME NEW k \in TaskSet({t}, R) PROVE k \in TasksFrom(ev)
        <4> HIDE DEF R
        <4>1. /\ k \in [kind : Kinds, topic : {t}, ids : Seq(R) \ {<<>>}]
              /\ k.topic = t /\ k.ids \in Seq(R) /\ k.ids # <<>>
          BY DEF TaskSet
        <4>2. k.ids \in Seq(Records) /\ ToSet(k.ids) \subseteq R
          BY <2>4, <4>1 DEF ToSet
        <4>3. k \in TaskSet(ToSet(Topics), Records)
          BY <4>1, <4>2 DEF TaskSet
        <4> QED BY <4>1, <4>2, <4>3 DEF TasksFrom, R
      <3> QED BY <3>1
    <2> HIDE DEF R
    <2> QED BY <2>5, <2>6, Widened
  <1>3. lists \in [1..Len(Topics) -> Seq(TasksFrom(ev))]
    <2>1. \A n \in DOMAIN Topics : Topics[n] \in ToSet(Topics)
      BY DEF ToSet
    <2> QED BY <1>1, <1>2, <2>1
  <1> HIDE DEF lists
  <1>4. lists \in Seq(Seq(TasksFrom(ev)))
    BY <1>1, <1>3
  <1>5. BuildTasks(ev) = FlattenSeq(lists)
    BY DEF BuildTasks, lists
  <1> QED BY <1>4, <1>5, Flattened

-----------------------------------------------------------------------------
(***************************************************************************)
(* The candidates of a run.                                                *)
(***************************************************************************)
Words == {Pool[p].text : p \in 1..Len(Pool)} \cup Kinds \cup ToSet(Topics)

\* Candidates that cite evidence on their own topic
CandidatesFrom(ev) ==
  {c \in CandidateSet(Words, Records) :
     /\ c.confidence \in 0..100
     /\ ToSet(c.ids) \subseteq {ev[c.topic][n].id : n \in DOMAIN ev[c.topic]}}

LEMMA CitedFrom ==
  ASSUME NEW R, NEW ids \in Seq(R), NEW cites \in Seq(Nat \ {0}), ToSet(cites) \subseteq DOMAIN ids
  PROVE  Cited(ids, cites) \in Seq(R) /\ ToSet(Cited(ids, cites)) \subseteq ToSet(ids)
  <1>1. DOMAIN cites = 1..Len(cites) /\ Len(cites) \in Nat
    OBVIOUS
  <1>2. \A n \in DOMAIN cites : cites[n] \in DOMAIN ids /\ ids[cites[n]] \in R
    <2>1. \A n \in DOMAIN cites : cites[n] \in DOMAIN ids
      BY DEF ToSet
    <2> QED BY <2>1
  <1>3. Cited(ids, cites) = [n \in 1..Len(cites) |-> ids[cites[n]]]
    BY <1>1 DEF Cited
  <1>4. Cited(ids, cites) \in [1..Len(cites) -> R]
    BY <1>1, <1>2, <1>3
  <1>5. ToSet(Cited(ids, cites)) \subseteq ToSet(ids)
    <2> DEFINE made == Cited(ids, cites)
    <2>1. DOMAIN made = DOMAIN cites /\ \A n \in DOMAIN cites : made[n] = ids[cites[n]]
      BY DEF Cited
    <2> HIDE DEF made
    <2>2. \A n \in DOMAIN made : made[n] \in {ids[i] : i \in DOMAIN ids}
      BY <1>2, <2>1
    <2> QED BY <2>2 DEF ToSet, made
  <1>6. Cited(ids, cites) \in Seq(R)
    <2> DEFINE made == Cited(ids, cites)
               m == Len(cites)
    <2>1. m \in Nat /\ made \in [1..m -> R]
      BY <1>1, <1>4
    <2> HIDE DEF made, m
    <2>2. made \in Seq(R)
      BY <2>1
    <2> QED BY <2>2 DEF made
  <1> QED BY <1>5, <1>6

LEMMA CandidateOf ==
  ASSUME tasks \in Seq(TasksFrom(evidence)), NEW n \in DOMAIN tasks, NEW p \in 1..Len(Pool),
         ToSet(Pool[p].cites) \subseteq DOMAIN tasks[n].ids
  PROVE  Candidate(n, p) \in CandidatesFrom(evidence)
  <1> DEFINE k == tasks[n]
             R == {evidence[k.topic][m].id : m \in DOMAIN evidence[k.topic]}
             ids == Cited(k.ids, Pool[p].cites)
  <1>1. k \in TasksFrom(evidence)
    OBVIOUS
  <1>2. k \in TaskSet(ToSet(Topics), Records) /\ ToSet(k.ids) \subseteq R
    BY <1>1 DEF TasksFrom
  <1>3. k.kind \in Kinds /\ k.topic \in ToSet(Topics) /\ k.ids \in Seq(Records) /\ k.ids # <<>>
    BY <1>2 DEF TaskSet
  <1>4. Pool[p].confidence \in 0..100 /\ Pool[p].cites \in Seq(Nat \ {0})
        /\ ToSet(Pool[p].cites) \subseteq DOMAIN k.ids
    BY DreamAssumption
  <1>5. ids \in Seq(Records) /\ ToSet(ids) \subseteq R
    BY <1>2, <1>3, <1>4, CitedFrom
  <1>6. /\ Candidate(n, p) = [text |-> Pool[p].text, kind |-> k.kind, topic |-> k.topic,
                              ids |-> ids, confidence |-> Pool[p].confidence]
    BY DEF Candidate
  <1>7. Pool[p].text \in Words /\ k.kind \in Words /\ k.topic \in Words
    BY <1>3 DEF Words
  <1> HIDE DEF k, ids
  <1>8. Candidate(n, p) \in CandidateSet(Words, Records)
    <2>0. \A x \in 0..100 : x \in Nat
      OBVIOUS
    <2>1. Pool[p].confidence \in Nat
      BY <1>4, <2>0
    <2> QED BY <1>5, <1>6, <1>7, <2>1 DEF CandidateSet
  <1>9. Candidate(n, p).confidence \in 0..100 /\ Candidate(n, p).ids = ids
        /\ Candidate(n, p).topic = k.topic
    BY <1>4, <1>6
  <1> QED BY <1>5, <1>8, <1>9 DEF CandidatesFrom

\* The claims of a task cite its own evidence
CitesOwn(r) ==
  \A n \in DOMAIN r : \A k \in DOMAIN r[n] : ToSet(Pool[r[n][k]].cites) \subseteq DOMAIN tasks[n].ids

LEMMA KeptFrom ==
  ASSUME tasks \in Seq(TasksFrom(evidence)), results \in Seq(Seq(1..Len(Pool))),
         Len(results) = Len(tasks), CitesOwn(results)
  PROVE  Kept(Claimed) \in Seq(CandidatesFrom(evidence))
  <1> DEFINE C == CandidatesFrom(evidence)
             lists == [n \in DOMAIN tasks |-> [k \in DOMAIN results[n] |-> Candidate(n, results[n][k])]]
  <1>1. DOMAIN tasks = 1..Len(tasks) /\ Len(tasks) \in Nat
    OBVIOUS
  <1>2. ASSUME NEW n \in DOMAIN tasks
        PROVE  [k \in DOMAIN results[n] |-> Candidate(n, results[n][k])] \in Seq(C)
    <2>1. results[n] \in Seq(1..Len(Pool))
      BY <1>1
    <2>2. /\ DOMAIN results[n] = 1..Len(results[n]) /\ Len(results[n]) \in Nat
          /\ \A k \in DOMAIN results[n] : results[n][k] \in 1..Len(Pool)
      BY <2>1
    <2>3. ASSUME NEW k \in DOMAIN results[n] PROVE Candidate(n, results[n][k]) \in C
      <3> DEFINE p == results[n][k]
      <3>1. n \in DOMAIN results /\ p \in 1..Len(Pool)
        BY <1>1, <2>2
      <3>2. ToSet(Pool[p].cites) \subseteq DOMAIN tasks[n].ids
        BY <3>1 DEF CitesOwn
      <3> HIDE DEF p
      <3>3. Candidate(n, p) \in CandidatesFrom(evidence)
        BY <3>1, <3>2, CandidateOf
      <3> QED BY <3>3 DEF p
    <2> HIDE DEF C
    <2>4. [k \in DOMAIN results[n] |-> Candidate(n, results[n][k])] \in [1..Len(results[n]) -> C]
      BY <2>2, <2>3
    <2> QED BY <2>2, <2>4
  <1> HIDE DEF C
  <1>3. lists \in [1..Len(tasks) -> Seq(C)]
    BY <1>1, <1>2
  <1>4. Claimed = FlattenSeq(lists)
    BY DEF Claimed
  <1> HIDE DEF lists
  <1>5. lists \in Seq(Seq(C))
    <2> DEFINE B == Seq(C)
    <2>1. lists \in [1..Len(tasks) -> B]
      BY <1>3
    <2> DEFINE m == Len(tasks)
    <2>2. m \in Nat /\ lists \in [1..m -> B]
      BY <1>1, <2>1
    <2> HIDE DEF B, m
    <2>3. lists \in Seq(B)
      BY <2>2
    <2> QED BY <2>3 DEF B
  <1>6. Claimed \in Seq(C)
    BY <1>4, <1>5, Flattened
  <1> QED BY <1>6, PickedFacts DEF Kept, C

\* What the gate makes of such candidates
FollowsFrom(ev, cands, byId, v) ==
  /\ \A n \in DOMAIN v.decision : v.decision[n] \in Decisions
  /\ MergedExactly(cands, byId, v)
  /\ \A n \in DOMAIN v.decision : v.decision[n] = "promote" =>
       LET c == v.cands[n]
       IN /\ Cardinality(ToSet(c.ids)) >= 2
          /\ ToSet(c.ids) \subseteq {ev[c.topic][m].id : m \in DOMAIN ev[c.topic]}
          /\ \E r \in ToSet(c.ids) : Verification[r] # ""

LEMMA GatedFrom ==
  ASSUME NEW ev, NEW cands \in Seq(CandidatesFrom(ev)), NEW byId
  PROVE  FollowsFrom(ev, cands, byId, Gate(cands, byId))
  <1> DEFINE v == Gate(cands, byId)
             C == CandidateSet(Words, Records)
             l == Len(cands)
             Cites(c) == ToSet(c.ids) \subseteq {ev[c.topic][m].id : m \in DOMAIN ev[c.topic]}
  <1>1. cands \in Seq(C)
    <2>1. CandidatesFrom(ev) \subseteq C
      BY DEF CandidatesFrom
    <2> HIDE DEF C
    <2> QED BY <2>1, Widened
  <1>2. v \in GateAcc(l, C) /\ MergedSoFar(cands, byId, l, v) /\ MergedExactly(cands, byId, v)
    BY <1>1, GateFacts, MergeIsExact
  <1>3. l \in Nat /\ \A i \in 1..l : cands[i] \in CandidatesFrom(ev)
    OBVIOUS
  <1>4. \A i \in 1..l : cands[i].confidence \in 0..100 /\ Cites(cands[i])
    BY <1>3 DEF CandidatesFrom
  <1> HIDE DEF v, C, l
  <1>5. v.decision \in Seq(Decisions) /\ v.cands \in [1..l -> C] /\ DOMAIN v.decision = 1..l
    BY <1>2, <1>3 DEF GateAcc, MergedSoFar
  <1>6. ASSUME NEW n \in 1..l, v.decision[n] = "promote"
        PROVE  LET c == v.cands[n]
               IN /\ Cardinality(ToSet(c.ids)) >= 2 /\ Cites(c)
                  /\ \E r \in ToSet(c.ids) : Verification[r] # ""
    <2> DEFINE c == v.cands[n]
               L == LedBy(v, l, n)
    <2>1. v.leader[n] = n
      BY <1>2, <1>6 DEF MergedSoFar
    <2>2. StandsFor(cands, byId, L, c, v.decision[n]) /\ L \subseteq 1..l
      BY <1>2, <2>1 DEF MergedSoFar, LedBy
    <2>3. c.ids \in Seq(Records)
      BY <1>5 DEF C, CandidateSet
    <2> HIDE DEF L, c
    <2>4. /\ ToSet(c.ids) = UNION {ToSet(cands[i].ids) : i \in L}
          /\ \E i \in L : c.confidence = cands[i].confidence
          /\ \A i \in L : cands[i].topic = c.topic
          /\ Evaluate(c, byId) = "promote"
      BY <1>6, <2>2 DEF StandsFor
    <2>5. c.confidence \in 0..100
      BY <1>4, <2>2, <2>4
    <2>6. Cites(c)
      <3>1. ASSUME NEW r \in ToSet(c.ids) PROVE r \in {ev[c.topic][m].id : m \in DOMAIN ev[c.topic]}
        <4>1. PICK i \in L : r \in ToSet(cands[i].ids)
          BY <2>4
        <4>2. Cites(cands[i]) /\ cands[i].topic = c.topic
          BY <1>4, <2>2, <2>4
        <4> QED BY <4>1, <4>2
      <3> QED BY <3>1
    <2>7. Cardinality(ToSet(c.ids)) >= 2 /\ \E r \in ToSet(c.ids) : Verification[r] # ""
      BY <2>3, <2>4, <2>5, PromotionIsSupported
    <2> QED BY <2>6, <2>7 DEF c
  <1>7. \A n \in DOMAIN v.decision : v.decision[n] \in Decisions
    <2> DEFINE d == v.decision
    <2>1. d \in Seq(Decisions)
      BY <1>5
    <2> HIDE DEF d
    <2>2. \A n \in DOMAIN d : d[n] \in Decisions
      BY <2>1
    <2> QED BY <2>2 DEF d
  <1> QED BY <1>2, <1>5, <1>6, <1>7 DEF v, FollowsFrom

-----------------------------------------------------------------------------
(***************************************************************************)
(* The invariant of the run: what has been gathered, what of the tasks has *)
(* been resolved, and where the verdict comes from.                        *)
(***************************************************************************)
GatheringOK ==
  /\ store \in StoreSet /\ moved \subseteq Records
  /\ attempt \in 1..MaxAttempts /\ now \in 1..MaxTime
  /\ topic \in DOMAIN Topics /\ bucket \in DOMAIN Ages
  /\ loaded \in Seq(Records) /\ direct \in Seq(Records) /\ seeds \in Seq(Records)
  /\ found \in Seq(Records) /\ Len(found) <= TotalExpanded
  /\ level \in 0..AssociationDepth /\ queue \in Seq(DOMAIN Hits)
  /\ evidence \in [ToSet(Topics) -> Seq(EvidenceSet)]

\* A recall has a query to make, and the direct one the topic's
AskingOK ==
  /\ pc \in {"recall", "merge"} => queue # <<>> /\ (level = 0 => queue = <<Topics[topic]>>)
  /\ pc \notin {"recall", "merge"} => level = 0

ResolvingOK ==
  /\ pc \in {"idle", "recall", "merge", "relate", "reason", "waiting", "assemble", "done", "failed"}
  /\ tasks \in Seq(TasksFrom(evidence)) /\ results \in Seq(Seq(1..Len(Pool)))
  /\ Claims(results) <= MaxClaims /\ CitesOwn(results)
  /\ Preparing \/ pc = "failed" => tasks = <<>> /\ results = <<>>
  /\ pc \in {"reason", "waiting"} => Len(results) < Len(tasks)
  /\ pc \in {"assemble", "done"} => Len(results) = Len(tasks)

VerdictOK == verdict = IF pc = "done" THEN Gate(Kept(Claimed), EvidenceById(evidence)) ELSE NoVerdict

RunInv == GatheringOK /\ AskingOK /\ ResolvingOK /\ VerdictOK

LEMMA NoClaims == Claims(<<>>) = 0
  <1>1. <<>> \in Seq(Seq(1..0))
    OBVIOUS
  <1>2. PICK c : Counts(<<>>, c)
    BY <1>1, ClaimsCounted
  <1> QED BY <1>2 DEF Counts

LEMMA RunStart == Init => RunInv
  <1> SUFFICES ASSUME Init PROVE RunInv
    OBVIOUS
  <1>1. store \in StoreSet
    <2>1. PICK S \in Missing : store = [r \in Records |-> [live |-> r \notin S, time |-> Time[r]]]
      BY DEF Init
    <2>2. \A r \in Records : Time[r] \in Int
      BY DreamAssumption
    <2> QED BY <2>1, <2>2 DEF StoreSet
  <1>2. topic \in DOMAIN Topics /\ bucket \in DOMAIN Ages
    BY EvidenceAssumption DEF Init
  <1>3. attempt \in 1..MaxAttempts /\ now \in 1..MaxTime /\ MaxClaims \in Nat
    BY DreamAssumption DEF Init
  <1>4. evidence \in [ToSet(Topics) -> Seq(EvidenceSet)]
    BY DEF Init
  <1>5. pc = "idle" /\ tasks = <<>> /\ results = <<>> /\ verdict = NoVerdict
    BY DEF Init
  <1>6. Claims(results) <= MaxClaims
    BY <1>3, <1>5, NoClaims
  <1>7. GatheringOK
    <2>1. level = 0 /\ found = <<>> /\ AssociationDepth \in 0..2 /\ TotalExpanded \in Nat
      BY EvidenceAssumption DEF Init
    <2>2. level \in 0..AssociationDepth /\ Len(found) <= TotalExpanded
      BY <2>1
    <2>3. /\ moved = {} /\ loaded = <<>> /\ direct = <<>> /\ seeds = <<>> /\ queue = <<>>
      BY DEF Init
    <2> QED BY <1>1, <1>2, <1>3, <1>4, <2>1, <2>2, <2>3 DEF GatheringOK
  <1>8. ResolvingOK /\ AskingOK
    <2>1. CitesOwn(results) /\ level = 0
      BY <1>5 DEF CitesOwn, Init
    <2> QED BY <1>5, <1>6, <2>1 DEF ResolvingOK, AskingOK, Preparing
  <1> QED BY <1>5, <1>7, <1>8 DEF RunInv, VerdictOK

\* The run waits or stands still while the router, the clock or the store move
LEMMA RunKept ==
  ASSUME RunInv, UNCHANGED runVars, UNCHANGED results,
         pc' = pc \/ (pc = "reason" /\ pc' = "waiting") \/ (pc = "failed" /\ pc' = "idle"),
         store' \in StoreSet, moved' \subseteq Records, attempt' \in 1..MaxAttempts, now' \in 1..MaxTime
  PROVE  RunInv'
  <1>1. /\ UNCHANGED <<loaded, topic, bucket, direct, evidence, tasks, verdict, results>>
        /\ UNCHANGED <<level, queue, found, seeds>>
    BY DEF runVars
  <1>2. GatheringOK' /\ AskingOK'
    BY <1>1 DEF RunInv, GatheringOK, AskingOK
  <1>3. TasksFrom(evidence)' = TasksFrom(evidence) /\ Claims(results)' = Claims(results)
        /\ (CitesOwn(results)' <=> CitesOwn(results))
    BY <1>1 DEF CitesOwn
  <1>4. ResolvingOK'
    BY <1>1, <1>3 DEF RunInv, ResolvingOK, Preparing
  <1>5. Claimed' = Claimed
    BY <1>1 DEF Claimed, Candidate
  <1>6. Gate(Kept(Claimed), EvidenceById(evidence))' = Gate(Kept(Claimed), EvidenceById(evidence))
    BY <1>1, <1>5
  <1>7. VerdictOK'
    BY <1>1, <1>6 DEF RunInv, VerdictOK
  <1> QED BY <1>2, <1>4, <1>7 DEF RunInv

\* What an exception leaves behind
LEMMA FailKeeps ==
  ASSUME RunInv, pc # "done", Fail, UNCHANGED storeVars, UNCHANGED <<attempt, now>>
  PROVE  RunInv'
  <1>1. /\ pc' = "failed" /\ loaded' = <<>> /\ topic' = 1 /\ bucket' = 1 /\ direct' = <<>>
        /\ evidence' = [t \in ToSet(Topics) |-> <<>>] /\ tasks' = <<>> /\ results' = <<>>
        /\ level' = 0 /\ queue' = <<>> /\ found' = <<>> /\ seeds' = <<>> /\ verdict' = NoVerdict
    BY DEF Fail, Dropped, RunInv, VerdictOK
  <1>2. GatheringOK' /\ AskingOK'
    <2>1. topic' \in DOMAIN Topics /\ bucket' \in DOMAIN Ages
      BY <1>1, EvidenceAssumption
    <2>2. AssociationDepth \in 0..2 /\ TotalExpanded \in Nat
      BY EvidenceAssumption
    <2>3. level' \in 0..AssociationDepth /\ Len(found') <= TotalExpanded
      BY <1>1, <2>2
    <2>4. /\ store' \in StoreSet /\ moved' \subseteq Records /\ attempt' \in 1..MaxAttempts
          /\ now' \in 1..MaxTime
      BY DEF RunInv, GatheringOK, storeVars
    <2> QED BY <1>1, <2>1, <2>3, <2>4 DEF GatheringOK, AskingOK
  <1>3. ResolvingOK'
    <2>1. Claims(results') = 0 /\ MaxClaims \in Nat
      BY <1>1, NoClaims, DreamAssumption
    <2>2. CitesOwn(results)'
      BY <1>1 DEF CitesOwn
    <2> QED BY <1>1, <2>1, <2>2 DEF ResolvingOK, Preparing
  <1> QED BY <1>1, <1>2, <1>3 DEF RunInv, VerdictOK

\* A task resolved
LEMMA AnsweredKeeps ==
  ASSUME RunInv, pc \in {"reason", "waiting"}, NEW a \in Answers, Answered(a),
         UNCHANGED runVars, UNCHANGED storeVars, UNCHANGED <<attempt, now>>
  PROVE  RunInv'
  <1>1. /\ UNCHANGED <<loaded, topic, bucket, direct, evidence, tasks, verdict, store, moved>>
        /\ UNCHANGED <<level, queue, found, seeds>>
    BY DEF runVars, storeVars
  <1>2. GatheringOK' /\ AskingOK'
    BY <1>1 DEF RunInv, GatheringOK, AskingOK, Answered
  <1>3. /\ a \in Seq(1..Len(Pool)) /\ Claims(results) + Len(a) <= MaxClaims
        /\ \A k \in DOMAIN a : ToSet(Pool[a[k]].cites) \subseteq DOMAIN tasks[Len(results) + 1].ids
    <2>1. PICK n \in 0..2 : a \in [1..n -> 1..Len(Pool)]
      BY DEF Answers
    <2>2. n \in Nat
      OBVIOUS
    <2>3. a \in Seq(1..Len(Pool))
      BY <2>1, <2>2
    <2> QED BY <2>3 DEF Answers
  <1>4. /\ results \in Seq(Seq(1..Len(Pool))) /\ tasks \in Seq(TasksFrom(evidence))
        /\ Len(results) < Len(tasks) /\ verdict = NoVerdict /\ CitesOwn(results)
    BY DEF RunInv, ResolvingOK, VerdictOK
  <1>5. results' = Append(results, a) /\ pc' = IF Len(results) + 1 = Len(tasks) THEN "assemble" ELSE "reason"
    BY DEF Answered
  <1>6. /\ results' \in Seq(Seq(1..Len(Pool))) /\ Len(results') = Len(results) + 1
        /\ \A n \in DOMAIN results' : \/ n \in DOMAIN results /\ results'[n] = results[n]
                                      \/ n = Len(results) + 1 /\ results'[n] = a
    <2> DEFINE B == Seq(1..Len(Pool))
    <2>1. a \in B /\ results \in Seq(B)
      BY <1>3, <1>4
    <2> HIDE DEF B
    <2>2. /\ Append(results, a) \in Seq(B) /\ Len(Append(results, a)) = Len(results) + 1
          /\ \A n \in DOMAIN Append(results, a) :
               \/ n \in DOMAIN results /\ Append(results, a)[n] = results[n]
               \/ n = Len(results) + 1 /\ Append(results, a)[n] = a
      BY <2>1
    <2> QED BY <1>5, <2>2 DEF B
  <1>7. Claims(results') <= MaxClaims
    BY <1>3, <1>4, <1>5, ClaimsAdded
  <1>8. Len(results) \in Nat /\ Len(tasks) \in Nat
    BY <1>4
  <1>9. ResolvingOK'
    <2>1. TasksFrom(evidence)' = TasksFrom(evidence)
      BY <1>1
    <2>2. tasks' \in Seq(TasksFrom(evidence))'
      BY <1>1, <1>4, <2>1
    <2>3. \/ pc' = "assemble" /\ Len(results') = Len(tasks')
          \/ pc' = "reason" /\ Len(results') < Len(tasks')
      BY <1>1, <1>4, <1>5, <1>6, <1>8
    <2>4. CitesOwn(results)'
      BY <1>1, <1>3, <1>4, <1>6 DEF CitesOwn
    <2> QED BY <1>6, <1>7, <2>2, <2>3, <2>4 DEF ResolvingOK, Preparing
  <1>10. VerdictOK'
    BY <1>1, <1>4, <1>5 DEF VerdictOK
  <1> QED BY <1>2, <1>9, <1>10 DEF RunInv

\* While it gathers, a run has no tasks
LEMMA GatheringKeeps ==
  ASSUME RunInv, Preparing, pc' \in {"recall", "merge", "relate"},
         store' \in StoreSet, moved' \subseteq Records, UNCHANGED <<attempt, now>>,
         topic' \in DOMAIN Topics, bucket' \in DOMAIN Ages,
         loaded' \in Seq(Records), direct' \in Seq(Records), seeds' \in Seq(Records),
         found' \in Seq(Records), Len(found') <= TotalExpanded,
         level' \in 0..AssociationDepth, queue' \in Seq(DOMAIN Hits), AskingOK',
         evidence' \in [ToSet(Topics) -> Seq(EvidenceSet)], UNCHANGED <<tasks, results, verdict>>
  PROVE  RunInv'
  <1>1. GatheringOK'
    BY DEF RunInv, GatheringOK
  <1>2. tasks' = <<>> /\ results' = <<>> /\ verdict' = NoVerdict /\ Claims(results)' <= MaxClaims
    BY DEF RunInv, ResolvingOK, VerdictOK, Preparing
  <1>3. CitesOwn(results)'
    BY <1>2 DEF CitesOwn
  <1>4. ResolvingOK'
    BY <1>2, <1>3 DEF ResolvingOK, Preparing
  <1> QED BY <1>1, <1>2, <1>4 DEF RunInv, VerdictOK

LEMMA TopicFacts ==
  /\ DOMAIN Topics = 1..Len(Topics) /\ Len(Topics) \in Nat /\ 1 \in DOMAIN Topics
  /\ DOMAIN Ages = 1..Len(Ages) /\ Len(Ages) \in Nat /\ 1 \in DOMAIN Ages
  /\ \A n \in DOMAIN Topics : Topics[n] \in ToSet(Topics) /\ Topics[n] \in DOMAIN Hits
  <1>1. Topics \in Seq(DOMAIN Hits) /\ Topics # <<>> /\ Ages \in Seq(Nat) /\ Ages # <<>>
    BY EvidenceAssumption
  <1>2. \A n \in DOMAIN Topics : Topics[n] \in ToSet(Topics)
    BY DEF ToSet
  <1> QED BY <1>1, <1>2

LEMMA LoadKeeps ==
  ASSUME RunInv, Load
  PROVE  RunInv'
  <1> DEFINE usable == {e \in Session : store[e].live}
             listed == SetToSeq(usable)
             items == Items(store, listed)
             sorted == [n \in DOMAIN listed |-> ByTime(items)[n].id]
  <1>1. store \in StoreSet /\ evidence \in [ToSet(Topics) -> Seq(EvidenceSet)]
    BY DEF RunInv, GatheringOK
  <1>2. listed \in Seq(Records)
    <2>1. IsFiniteSet(usable) /\ usable \subseteq Records
      BY EvidenceAssumption, FS_Subset DEF Records
    <2> HIDE DEF usable
    <2>2. listed \in Seq(usable)
      BY <2>1, ListOfSet
    <2> QED BY <2>1, <2>2, Widened
  <1> HIDE DEF listed
  <1>3. DOMAIN listed = 1..Len(listed) /\ Len(listed) \in Nat /\ items \in Seq(EvidenceSet)
        /\ Len(items) = Len(listed)
    <2>1. DOMAIN listed = 1..Len(listed) /\ Len(listed) \in Nat /\ items \in Seq(EvidenceSet)
      BY <1>1, <1>2, ItemsOf
    <2>2. DOMAIN items = DOMAIN listed
      BY DEF Items
    <2>3. DOMAIN items = 1..Len(items) /\ Len(items) \in Nat
      BY <2>1
    <2> HIDE DEF items
    <2> QED BY <2>1, <2>2, <2>3
  <1> HIDE DEF items
  <1>4. ByTime(items) \in Seq(EvidenceSet) /\ Len(ByTime(items)) = Len(listed)
    <2>1. \A k \in DOMAIN items : items[k].time \in Int
      <3>1. \A k \in DOMAIN items : items[k] \in EvidenceSet
        BY <1>3
      <3> QED BY <3>1 DEF EvidenceSet
    <2> QED BY <1>3, <2>1, Ordered
  <1>5. sorted \in Seq(Records)
    <2>1. \A n \in 1..Len(listed) : ByTime(items)[n] \in EvidenceSet
      BY <1>4
    <2>2. \A n \in 1..Len(listed) : ByTime(items)[n].id \in Records
      BY <2>1 DEF EvidenceSet
    <2>3. sorted \in [1..Len(listed) -> Records]
      BY <1>3, <2>2
    <2> HIDE DEF sorted
    <2> QED BY <1>3, <2>3
  <1>6. /\ pc = "idle" /\ pc' = "recall" /\ loaded' = sorted /\ moved' = {}
        /\ topic' = 1 /\ bucket' = 1 /\ direct' = direct
        /\ evidence' = [evidence EXCEPT ![Topics[1]] = SessionEvidence(store, sorted, Topics[1])]
        /\ queue' = <<Topics[1]>>
        /\ UNCHANGED <<store, attempt, now, tasks, results, verdict, level, found, seeds>>
    BY DEF Load, listed, items, usable
  <1> HIDE DEF sorted
  <1>7. SessionEvidence(store, sorted, Topics[1]) \in Seq(EvidenceSet)
    BY <1>1, <1>5, OfTheSession
  <1>8. evidence' \in [ToSet(Topics) -> Seq(EvidenceSet)]
    BY <1>1, <1>6, <1>7
  <1>9. direct' \in Seq(Records) /\ loaded' \in Seq(Records) /\ topic' \in DOMAIN Topics
        /\ bucket' \in DOMAIN Ages /\ store' \in StoreSet /\ moved' \subseteq Records
        /\ seeds' \in Seq(Records) /\ found' \in Seq(Records) /\ Len(found') <= TotalExpanded
        /\ level' \in 0..AssociationDepth
    BY <1>1, <1>5, <1>6, TopicFacts DEF RunInv, GatheringOK
  <1>10. UNCHANGED <<attempt, now, tasks, results, verdict>> /\ Preparing
         /\ pc' \in {"recall", "merge", "relate"}
    BY <1>6 DEF Preparing
  <1>11. queue' \in Seq(DOMAIN Hits) /\ AskingOK'
    <2>1. Topics[1] \in DOMAIN Hits
      BY TopicFacts
    <2> QED BY <1>6, <2>1 DEF AskingOK
  <1> QED BY <1>8, <1>9, <1>10, <1>11, GatheringKeeps

\* What a bucket's recall finds, in the scope and on the topic
LEMMA FoundInScope ==
  ASSUME NEW st \in StoreSet, NEW rs \in Seq(Records), NEW t, NEW project
  PROVE  /\ OnTopic(t, InScope(project, Items(st, rs))) \in Seq(EvidenceSet)
         /\ InScope(project, Items(st, rs)) \in Seq(EvidenceSet)
  <1>1. InScope(project, Items(st, rs)) \in Seq(EvidenceSet)
    BY ItemsOf, ScopeAndTopic
  <1> QED BY <1>1, ScopeAndTopic

\* The evidence of one topic grows
LEMMA EvidenceGrows ==
  ASSUME NEW ev \in [ToSet(Topics) -> Seq(EvidenceSet)], NEW t \in ToSet(Topics),
         NEW new \in Seq(EvidenceSet), NEW grown, grown = [ev EXCEPT ![t] = @ \o new]
  PROVE  /\ grown \in [ToSet(Topics) -> Seq(EvidenceSet)] /\ grown[t] = ev[t] \o new
         /\ \A u \in ToSet(Topics) : u # t => grown[u] = ev[u]
  <1> DEFINE B == Seq(EvidenceSet)
             joined == ev[t] \o new
  <1>1. joined \in B
    OBVIOUS
  <1>2. ev \in [ToSet(Topics) -> B] /\ grown = [ev EXCEPT ![t] = joined]
    OBVIOUS
  <1> HIDE DEF B, joined
  <1>3. /\ grown \in [ToSet(Topics) -> B] /\ grown[t] = joined
        /\ \A u \in ToSet(Topics) : u # t => grown[u] = ev[u]
    BY <1>1, <1>2
  <1> QED BY <1>3 DEF B, joined

\* A recall follows, or the reading of the relations
LEMMA AskKeeps ==
  ASSUME NEW depth, NEW queries \in Seq(DOMAIN Hits), NEW own \in Seq(Records),
         queries = <<>> \/ depth \in 1..AssociationDepth, Ask(depth, queries, own)
  PROVE  /\ pc' \in {"recall", "relate"} /\ AskingOK' /\ level' \in 0..AssociationDepth
         /\ queue' \in Seq(DOMAIN Hits) /\ seeds' \in Seq(Records)
         /\ pc' = "recall" => level' > 0
  <1>0. AssociationDepth \in Nat
    <2>1. AssociationDepth \in 0..2
      BY EvidenceAssumption
    <2> QED BY <2>1
  <1>1. CASE queries = <<>>
    <2>1. /\ pc' = "relate" /\ level' = 0 /\ queue' = <<>>
          /\ seeds' = Picked(own, {n \in DOMAIN own : own[n] \in Knowledge})
      BY <1>1 DEF Ask
    <2>2. seeds' \in Seq(Records)
      BY <2>1, PickedFacts
    <2> QED BY <1>0, <2>1, <2>2 DEF AskingOK
  <1>2. CASE queries # <<>>
    <2>1. pc' = "recall" /\ level' = depth /\ queue' = queries /\ seeds' = <<>>
      BY <1>2 DEF Ask
    <2>2. depth \in 1..AssociationDepth
      BY <1>2
    <2>3. level' \in 0..AssociationDepth /\ level' > 0 /\ level' # 0
      BY <1>0, <2>1, <2>2
    <2> QED BY <1>2, <2>1, <2>3 DEF AskingOK
  <1> QED BY <1>1, <1>2

\* What a step of the gathering reads, and what it leaves alone
LEMMA GatherReads ==
  ASSUME RunInv, GatherSteps
  PROVE  /\ store \in StoreSet /\ evidence \in [ToSet(Topics) -> Seq(EvidenceSet)]
         /\ topic \in DOMAIN Topics /\ bucket \in DOMAIN Ages /\ moved \subseteq Records
         /\ Topics[topic] \in ToSet(Topics) /\ Topics[topic] \in DOMAIN Hits
         /\ loaded \in Seq(Records) /\ direct \in Seq(Records) /\ seeds \in Seq(Records)
         /\ found \in Seq(Records) /\ Len(found) <= TotalExpanded
         /\ level \in 0..AssociationDepth /\ queue \in Seq(DOMAIN Hits) /\ AskingOK
         /\ PerBucket \in Nat /\ PerQuery \in Nat /\ Limit \in Nat
         /\ UNCHANGED <<store, moved, attempt, now, loaded, results, verdict>>
         /\ Preparing
  <1>1. /\ store \in StoreSet /\ evidence \in [ToSet(Topics) -> Seq(EvidenceSet)]
        /\ topic \in DOMAIN Topics /\ bucket \in DOMAIN Ages /\ moved \subseteq Records
        /\ loaded \in Seq(Records) /\ direct \in Seq(Records) /\ seeds \in Seq(Records)
        /\ found \in Seq(Records) /\ Len(found) <= TotalExpanded
        /\ level \in 0..AssociationDepth /\ queue \in Seq(DOMAIN Hits) /\ AskingOK
    BY DEF RunInv, GatheringOK
  <1>2. Topics[topic] \in ToSet(Topics) /\ Topics[topic] \in DOMAIN Hits
    BY <1>1, TopicFacts
  <1>3. PerBucket \in Nat /\ PerQuery \in Nat /\ Limit \in Nat
    BY EvidenceAssumption DEF Limit
  <1>4. UNCHANGED <<store, moved, attempt, now, loaded, results, verdict>> /\ Preparing
    BY GatherLeaves DEF storeVars, Preparing
  <1> QED BY <1>1, <1>2, <1>3, <1>4

\* A recall returns records
LEMMA RecalledRecords ==
  ASSUME queue \in Seq(DOMAIN Hits), queue # <<>>, Limit \in Nat
  PROVE  Recalled \in Seq(Records)
  <1>1. Head(queue) \in DOMAIN Hits
    OBVIOUS
  <1> QED BY <1>1, BestOf DEF Recalled

LEMMA SearchEpisodesKeeps ==
  ASSUME RunInv, SearchEpisodes
  PROVE  RunInv'
  <1>1. GatherSteps
    BY DEF GatherSteps
  <1>2. /\ pc = "recall" /\ pc' = "merge"
        /\ UNCHANGED <<topic, bucket, level, queue, direct, found, seeds, evidence, tasks>>
    BY DEF SearchEpisodes
  <1>3. AskingOK'
    BY <1>2 DEF AskingOK, RunInv
  <1> QED BY <1>1, <1>2, <1>3, GatherReads, GatheringKeeps

LEMMA RecallBucketKeeps ==
  ASSUME RunInv, RecallBucket
  PROVE  RunInv'
  <1> DEFINE t == Topics[topic]
             own == OnTopic(t, InScope(Scope, Items(store, Recalled)))
             ids == [n \in DOMAIN own |-> own[n].id]
             asked == IF AssociationDepth = 0 THEN <<>> ELSE Queries(ids, {})
  <1>0. GatherSteps
    BY DEF GatherSteps
  <1>1. /\ pc = "merge" /\ direct' = ids /\ Ask(1, asked, ids)
        /\ evidence' = [evidence EXCEPT ![t] = @ \o own]
        /\ UNCHANGED <<topic, bucket, found, tasks>>
    BY DEF RecallBucket
  <1>2. own \in Seq(EvidenceSet)
    <2>1. Recalled \in Seq(Records) /\ store \in StoreSet
      BY <1>0, <1>1, GatherReads, RecalledRecords DEF AskingOK
    <2> HIDE DEF t
    <2> QED BY <2>1, FoundInScope
  <1> HIDE DEF own
  <1>3. ids \in Seq(Records)
    <2>1. DOMAIN own = 1..Len(own) /\ Len(own) \in Nat /\ \A n \in DOMAIN own : own[n] \in EvidenceSet
      BY <1>2
    <2>2. ids \in [1..Len(own) -> Records]
      BY <2>1 DEF EvidenceSet
    <2> HIDE DEF ids
    <2> QED BY <2>1, <2>2
  <1> HIDE DEF ids
  <1>4. evidence' \in [ToSet(Topics) -> Seq(EvidenceSet)]
    BY <1>0, <1>1, <1>2, GatherReads, EvidenceGrows
  <1>5. /\ pc' \in {"recall", "relate"} /\ AskingOK' /\ level' \in 0..AssociationDepth
        /\ queue' \in Seq(DOMAIN Hits) /\ seeds' \in Seq(Records)
    <2>1. asked \in Seq(DOMAIN Hits)
      <3>1. Queries(ids, {}) \in Seq(DOMAIN Hits)
        BY <1>3, Asked
      <3>2. <<>> \in Seq(DOMAIN Hits)
        OBVIOUS
      <3>3. asked = <<>> \/ asked = Queries(ids, {})
        OBVIOUS
      <3> HIDE DEF asked
      <3> QED BY <3>1, <3>2, <3>3
    <2>2. asked = <<>> \/ 1 \in 1..AssociationDepth
      <3>1. AssociationDepth \in 0..2
        BY EvidenceAssumption
      <3> QED BY <3>1
    <2> HIDE DEF asked
    <2> QED BY <1>1, <1>3, <2>1, <2>2, AskKeeps
  <1>6. direct' \in Seq(Records)
    BY <1>1, <1>3
  <1> QED BY <1>0, <1>1, <1>4, <1>5, <1>6, GatherReads, GatheringKeeps

LEMMA ExpandBucketKeeps ==
  ASSUME RunInv, ExpandBucket
  PROVE  RunInv'
  <1> DEFINE t == Topics[topic]
             new == Added(Recalled, ToSet(direct), found)
             items == OnTopic(t, InScope(Scope, Items(store, new)))
             all == found \o new
  <1>0. GatherSteps
    BY DEF GatherSteps
  <1>1. /\ pc = "merge" /\ level > 0 /\ found' = all
        /\ evidence' = [evidence EXCEPT ![t] = @ \o items]
        /\ UNCHANGED <<topic, bucket, direct, tasks>>
        /\ \/ Len(queue) > 1 /\ Ask(level, Tail(queue), direct)
           \/ level < AssociationDepth
              /\ Ask(level + 1, Queries(all, ToSet(Queries(direct, {}))), direct)
           \/ Ask(level, <<>>, direct)
    BY DEF ExpandBucket
  <1>2. new \in Seq(Records) /\ Len(all) <= TotalExpanded
    <2>1. Recalled \in Seq(Records)
      BY <1>0, <1>1, GatherReads, RecalledRecords DEF AskingOK
    <2> QED BY <1>0, <2>1, GatherReads, AddedTo
  <1> HIDE DEF new
  <1>3. all \in Seq(Records)
    BY <1>0, <1>2, GatherReads
  <1>4. items \in Seq(EvidenceSet)
    <2> HIDE DEF t
    <2> QED BY <1>0, <1>2, GatherReads, FoundInScope
  <1> HIDE DEF items, all
  <1>5. evidence' \in [ToSet(Topics) -> Seq(EvidenceSet)]
    BY <1>0, <1>1, <1>4, GatherReads, EvidenceGrows
  <1>6. /\ pc' \in {"recall", "relate"} /\ AskingOK' /\ level' \in 0..AssociationDepth
        /\ queue' \in Seq(DOMAIN Hits) /\ seeds' \in Seq(Records)
    <2>1. /\ level \in 1..AssociationDepth /\ AssociationDepth \in Nat
          /\ direct \in Seq(Records) /\ queue \in Seq(DOMAIN Hits)
      <3>1. AssociationDepth \in 0..2 /\ level \in 0..AssociationDepth
        BY <1>0, EvidenceAssumption, GatherReads
      <3> QED BY <1>0, <1>1, <3>1, GatherReads
    <2>2. CASE Len(queue) > 1 /\ Ask(level, Tail(queue), direct)
      <3>1. Tail(queue) \in Seq(DOMAIN Hits)
        BY <2>1, <2>2
      <3> QED BY <2>1, <2>2, <3>1, AskKeeps
    <2>3. CASE level < AssociationDepth
               /\ Ask(level + 1, Queries(all, ToSet(Queries(direct, {}))), direct)
      <3> DEFINE qs == Queries(all, ToSet(Queries(direct, {})))
      <3>1. qs \in Seq(DOMAIN Hits)
        BY <1>3, Asked
      <3>2. level + 1 \in 1..AssociationDepth
        BY <2>1, <2>3
      <3>3. Ask(level + 1, qs, direct)
        BY <2>3
      <3> HIDE DEF qs
      <3> QED BY <2>1, <3>1, <3>2, <3>3, AskKeeps
    <2>4. CASE Ask(level, <<>>, direct)
      <3> DEFINE none == <<>>
      <3>1. none \in Seq(DOMAIN Hits) /\ none = <<>> /\ Ask(level, none, direct)
        BY <2>4
      <3> HIDE DEF none
      <3> QED BY <2>1, <3>1, AskKeeps
    <2> QED BY <1>1, <2>2, <2>3, <2>4
  <1>7. found' \in Seq(Records) /\ Len(found') <= TotalExpanded
    BY <1>1, <1>2, <1>3 DEF all
  <1> QED BY <1>0, <1>1, <1>5, <1>6, <1>7, GatherReads, GatheringKeeps

\* What the relation recall returns, with the time of the record itself
RelatedItems(rs) == [n \in DOMAIN rs |-> [id |-> rs[n], direct |-> FALSE, time |-> Time[rs[n]]]]

LEMMA RelatedItemsOf ==
  ASSUME NEW rs \in Seq(Linked)
  PROVE  /\ RelatedItems(rs) \in Seq(EvidenceSet)
         /\ \A e \in ToSet(RelatedItems(rs)) : e.id \in Linked
  <1> DEFINE items == RelatedItems(rs)
  <1>1. /\ DOMAIN rs = 1..Len(rs) /\ Len(rs) \in Nat /\ Linked \subseteq Records
        /\ \A n \in DOMAIN rs : rs[n] \in Linked
    BY DEF Linked
  <1>2. /\ DOMAIN items = DOMAIN rs
        /\ \A n \in DOMAIN rs : items[n] = [id |-> rs[n], direct |-> FALSE, time |-> Time[rs[n]]]
    BY DEF RelatedItems
  <1>3. \A n \in DOMAIN rs : items[n] \in EvidenceSet /\ items[n].id \in Linked
    <2>1. \A r \in Records : Time[r] \in Int
      BY DreamAssumption
    <2> SUFFICES ASSUME NEW n \in DOMAIN rs PROVE items[n] \in EvidenceSet /\ items[n].id \in Linked
      OBVIOUS
    <2>2. items[n] = [id |-> rs[n], direct |-> FALSE, time |-> Time[rs[n]]]
      BY <1>2
    <2>3. rs[n] \in Linked /\ rs[n] \in Records /\ Time[rs[n]] \in Int
      BY <1>1, <2>1
    <2> HIDE DEF items
    <2> QED BY <2>2, <2>3 DEF EvidenceSet
  <1>4. items = [n \in 1..Len(rs) |-> items[n]]
    BY <1>1 DEF RelatedItems
  <1> HIDE DEF items
  <1>5. items \in [1..Len(rs) -> EvidenceSet]
    BY <1>1, <1>3, <1>4
  <1>6. items \in Seq(EvidenceSet)
    BY <1>1, <1>5
  <1>7. \A e \in ToSet(items) : e.id \in Linked
    BY <1>2, <1>3 DEF ToSet
  <1> QED BY <1>6, <1>7 DEF items

LEMMA RelateGroupKeeps ==
  ASSUME RunInv, RelateGroup
  PROVE  RunInv'
  <1> DEFINE t == Topics[topic]
             same == {n \in DOMAIN seeds : Project[seeds[n]] = Project[seeds[1]]}
             rs == RelatedOf(store, Picked(seeds, same))
             items == InScope(Scope, RelatedItems(rs))
  <1>0. GatherSteps
    BY DEF GatherSteps
  <1>1. /\ pc = "relate" /\ pc' = "relate" /\ seeds' = Picked(seeds, DOMAIN seeds \ same)
        /\ evidence' = [evidence EXCEPT ![t] = @ \o items]
        /\ UNCHANGED <<topic, bucket, level, queue, direct, found, tasks>>
    BY DEF RelateGroup, RelatedItems
  <1>2. seeds' \in Seq(Records) /\ Picked(seeds, same) \in Seq(Records)
    BY <1>0, <1>1, GatherReads, PickedFacts
  <1>3. items \in Seq(EvidenceSet)
    <2>1. rs \in Seq(Linked)
      <3> HIDE DEF same
      <3> QED BY <1>2, RelatedTo
    <2> HIDE DEF rs
    <2>2. RelatedItems(rs) \in Seq(EvidenceSet)
      BY <2>1, RelatedItemsOf
    <2> QED BY <2>2, ScopeAndTopic
  <1> HIDE DEF items
  <1>4. evidence' \in [ToSet(Topics) -> Seq(EvidenceSet)]
    BY <1>0, <1>1, <1>3, GatherReads, EvidenceGrows
  <1>5. AskingOK'
    BY <1>0, <1>1, GatherReads DEF AskingOK
  <1> QED BY <1>0, <1>1, <1>2, <1>4, <1>5, GatherReads, GatheringKeeps

LEMMA CloseBucketKeeps ==
  ASSUME RunInv, CloseBucket
  PROVE  RunInv'
  <1> DEFINE t == Topics[topic]
             lastBucket == bucket = Len(Ages)
             lastTopic == topic = Len(Topics)
             B == Seq(EvidenceSet)
             next(u) == IF u = t THEN IF lastBucket THEN Deduplicate(evidence[t]) ELSE evidence[t]
                        ELSE IF lastBucket /\ ~lastTopic /\ u = Topics[topic + 1]
                             THEN SessionEvidence(store, loaded, u)
                        ELSE evidence[u]
  <1>0. GatherSteps
    BY DEF GatherSteps
  <1>1. /\ store \in StoreSet /\ evidence \in [ToSet(Topics) -> B]
        /\ topic \in DOMAIN Topics /\ moved \subseteq Records /\ loaded \in Seq(Records)
        /\ bucket \in DOMAIN Ages /\ seeds \in Seq(Records) /\ t \in ToSet(Topics)
        /\ level \in 0..AssociationDepth /\ AskingOK
        /\ UNCHANGED <<store, moved, attempt, now, loaded, results, verdict>> /\ Preparing
    BY <1>0, GatherReads
  <1>2. attempt \in 1..MaxAttempts /\ now \in 1..MaxTime
    BY DEF RunInv, GatheringOK
  <1>3. /\ pc = "relate" /\ direct' = <<>> /\ found' = <<>>
        /\ bucket' = IF lastBucket THEN 1 ELSE bucket + 1
        /\ topic' = IF lastBucket /\ ~lastTopic THEN topic + 1 ELSE topic
        /\ queue' = IF lastBucket /\ lastTopic THEN <<>> ELSE <<Topics[topic']>>
        /\ evidence' = [u \in DOMAIN evidence |-> next(u)]
        /\ tasks' = IF lastBucket /\ lastTopic THEN BuildTasks(evidence') ELSE tasks
        /\ pc' = IF ~(lastBucket /\ lastTopic) THEN "recall"
                  ELSE IF tasks' = <<>> THEN "assemble" ELSE "reason"
        /\ UNCHANGED <<level, seeds>>
    BY DEF CloseBucket
  <1>4. Deduplicate(evidence[t]) \in B /\ evidence[t] \in B
    BY <1>1, Distinguished
  <1>5. \A u \in ToSet(Topics) : next(u) \in B
    <2>1. \A u : SessionEvidence(store, loaded, u) \in B
      BY <1>1, OfTheSession
    <2> HIDE DEF t, lastBucket, lastTopic
    <2> QED BY <1>1, <1>4, <2>1
  <1>6. evidence' \in [ToSet(Topics) -> B]
    <2> HIDE DEF next, B
    <2> QED BY <1>1, <1>3, <1>5
  <1> HIDE DEF next
  <1>7. topic' \in DOMAIN Topics /\ bucket' \in DOMAIN Ages
    BY <1>1, <1>3, TopicFacts
  <1>8. level = 0 /\ level' = 0
    BY <1>1, <1>3 DEF AskingOK
  <1>9. queue' \in Seq(DOMAIN Hits)
    <2>1. Topics[topic'] \in DOMAIN Hits
      BY <1>7, TopicFacts
    <2>2. queue' = <<>> \/ queue' = <<Topics[topic']>>
      BY <1>3
    <2>3. <<>> \in Seq(DOMAIN Hits) /\ <<Topics[topic']>> \in Seq(DOMAIN Hits)
      BY <2>1
    <2> QED BY <2>2, <2>3
  <1>10. /\ direct' \in Seq(Records) /\ loaded' \in Seq(Records) /\ store' \in StoreSet
         /\ moved' \subseteq Records /\ seeds' \in Seq(Records) /\ found' \in Seq(Records)
         /\ Len(found') <= TotalExpanded /\ level' \in 0..AssociationDepth
    <2>1. Len(<<>>) = 0 /\ TotalExpanded \in Nat
      BY EvidenceAssumption
    <2> QED BY <1>1, <1>3, <2>1
  <1>12. CASE ~(lastBucket /\ lastTopic)
    <2>1. /\ pc' = "recall" /\ UNCHANGED <<tasks, results, verdict, attempt, now>>
          /\ queue' = <<Topics[topic']>>
      BY <1>1, <1>3, <1>12
    <2>2. AskingOK'
      BY <2>1 DEF AskingOK
    <2> QED BY <1>1, <1>6, <1>7, <1>9, <1>10, <2>1, <2>2, GatheringKeeps
  <1>13. CASE lastBucket /\ lastTopic
    <2>1. /\ tasks' = BuildTasks(evidence') /\ pc' = IF tasks' = <<>> THEN "assemble" ELSE "reason"
      BY <1>3, <1>13
    <2>2. tasks' \in Seq(TasksFrom(evidence'))
      BY <1>6, <2>1, Built
    <2>3. results' = <<>> /\ verdict' = NoVerdict /\ Claims(results') <= MaxClaims
      BY <1>1, <1>3 DEF RunInv, ResolvingOK, VerdictOK, Preparing
    <2>4. GatheringOK' /\ AskingOK'
      BY <1>1, <1>2, <1>6, <1>7, <1>8, <1>9, <1>10, <2>1 DEF GatheringOK, AskingOK
    <2>5. Len(<<>>) = 0 /\ Len(tasks') \in Nat /\ (tasks' = <<>> <=> Len(tasks') = 0)
      BY <2>2
    <2>6. ResolvingOK'
      <3>1. \/ pc' = "assemble" /\ Len(results') = Len(tasks')
            \/ pc' = "reason" /\ Len(results') < Len(tasks')
        BY <2>1, <2>3, <2>5
      <3>2. results' \in Seq(Seq(1..Len(Pool))) /\ CitesOwn(results)'
        BY <2>3 DEF CitesOwn
      <3> QED BY <2>2, <2>3, <3>1, <3>2 DEF ResolvingOK, Preparing
    <2>7. VerdictOK'
      BY <2>1, <2>3 DEF VerdictOK
    <2> QED BY <2>4, <2>6, <2>7 DEF RunInv
  <1> QED BY <1>12, <1>13

LEMMA StoreMoves ==
  ASSUME RunInv, Move
  PROVE  store' \in StoreSet /\ moved' \subseteq Records
  <1>1. PICK r \in Moving : /\ \/ r \in Knowledge /\ Touch(r)
                               \/ Toggle(r)
                            /\ moved' = moved \cup {r}
    BY DEF Move
  <1>2. r \in Records /\ Later \in Int /\ store \in StoreSet /\ moved \subseteq Records
    BY DreamAssumption DEF RunInv, GatheringOK
  <1>3. store[r].live \in BOOLEAN /\ store[r].time \in Int /\ store \in [Records -> [live : BOOLEAN, time : Int]]
    BY <1>2 DEF StoreSet
  <1>4. CASE Touch(r)
    <2>1. store' = [store EXCEPT ![r] = [store[r] EXCEPT !.time = Later]]
      BY <1>4 DEF Touch
    <2>2. [store[r] EXCEPT !.time = Later] \in [live : BOOLEAN, time : Int]
      BY <1>2, <1>3
    <2>3. store' \in [Records -> [live : BOOLEAN, time : Int]]
      BY <1>3, <2>1, <2>2
    <2> QED BY <1>1, <1>2, <2>3 DEF StoreSet
  <1>5. CASE Toggle(r)
    <2>1. store' = [store EXCEPT ![r] = [store[r] EXCEPT !.live = ~store[r].live]]
      BY <1>5 DEF Toggle
    <2>2. [store[r] EXCEPT !.live = ~store[r].live] \in [live : BOOLEAN, time : Int]
      BY <1>2, <1>3
    <2>3. store' \in [Records -> [live : BOOLEAN, time : Int]]
      BY <1>3, <2>1, <2>2
    <2> QED BY <1>1, <1>2, <2>3 DEF StoreSet
  <1> QED BY <1>1, <1>4, <1>5

\* Every step keeps the invariant of the run
LEMMA RunNext == RouterInv /\ RunInv /\ [Next]_vars => RunInv'
  <1> SUFFICES ASSUME RouterInv, RunInv, [Next]_vars PROVE RunInv'
    OBVIOUS
  <1>1. /\ store \in StoreSet /\ moved \subseteq Records /\ attempt \in 1..MaxAttempts /\ now \in 1..MaxTime
    BY DEF RunInv, GatheringOK
  <1>2. call.client => pc = "waiting"
    BY DEF RouterInv, ClientOK
  <1>3. CASE Load \/ GatherSteps
    BY <1>3, LoadKeeps, SearchEpisodesKeeps, RecallBucketKeeps, ExpandBucketKeeps,
       RelateGroupKeeps, CloseBucketKeeps DEF GatherSteps
  <1>4. CASE LoadRaises \/ PrepareFails \/ ClientTimeout \/ AssembleRaises
    <2>1. pc # "done" /\ Fail /\ UNCHANGED storeVars /\ UNCHANGED <<attempt, now>>
      BY <1>4 DEF LoadRaises, PrepareFails, ClientTimeout, AssembleRaises, Preparing
    <2> QED BY <2>1, FailKeeps
  <1>5. CASE AnswerMcp
    <2>1. pc \in {"reason", "waiting"} /\ UNCHANGED runVars /\ UNCHANGED storeVars /\ UNCHANGED <<attempt, now>>
      BY <1>5 DEF AnswerMcp
    <2>2. PICK a \in Answers : Answered(a)
      BY <1>5 DEF AnswerMcp
    <2> QED BY <2>1, <2>2, AnsweredKeeps
  <1>6. CASE CallRouter
    <2>1. /\ UNCHANGED runVars /\ UNCHANGED <<results, store, moved, attempt, now>>
          /\ pc = "reason" /\ pc' = "waiting"
      BY <1>6 DEF CallRouter, storeVars
    <2> QED BY <1>1, <2>1, RunKept
  <1>7. CASE Serve
    <2>1. /\ UNCHANGED storeVars /\ UNCHANGED <<store, moved, attempt, now>>
          /\ \/ pc = "waiting" /\ Fail
             \/ UNCHANGED <<pc, results>> /\ UNCHANGED runVars
      <3>1. /\ waiting \/ backlog > 0
            /\ UNCHANGED storeVars /\ UNCHANGED <<attempt, now>>
            /\ \/ backlog = 0 /\ Fail
               \/ UNCHANGED <<pc, results>> /\ UNCHANGED runVars
        BY <1>7 DEF Serve
      <3>2. backlog = 0 => pc = "waiting"
        BY <3>1 DEF RouterInv, ClientOK
      <3> QED BY <3>1, <3>2 DEF storeVars
    <2>2. CASE pc = "waiting" /\ Fail
      BY <2>1, <2>2, FailKeeps
    <2>3. CASE UNCHANGED <<pc, results>> /\ UNCHANGED runVars
      BY <1>1, <2>1, <2>3, RunKept
    <2> QED BY <2>1, <2>2, <2>3
  <1>8. CASE ModelAnswers
    <2>1. UNCHANGED storeVars /\ UNCHANGED <<store, moved, attempt, now>> /\ UNCHANGED runVars
      BY <1>8 DEF ModelAnswers, storeVars
    <2>2. CASE call.client
      <3>1. PICK a \in Answers : Answered(a)
        BY <1>8, <2>2 DEF ModelAnswers
      <3> QED BY <1>2, <2>1, <2>2, <3>1, AnsweredKeeps
    <2>3. CASE ~call.client
      <3>1. UNCHANGED <<pc, results>>
        BY <1>8, <2>3 DEF ModelAnswers
      <3> QED BY <1>1, <2>1, <3>1, RunKept
    <2> QED BY <2>2, <2>3
  <1>9. CASE ModelFails
    <2>1. /\ UNCHANGED storeVars /\ UNCHANGED <<store, moved, attempt, now>>
          /\ \/ call.client /\ Fail
             \/ UNCHANGED <<pc, results>> /\ UNCHANGED runVars
      BY <1>9 DEF ModelFails, storeVars
    <2>2. CASE call.client /\ Fail
      BY <1>2, <2>1, <2>2, FailKeeps
    <2>3. CASE UNCHANGED <<pc, results>> /\ UNCHANGED runVars
      BY <1>1, <2>1, <2>3, RunKept
    <2> QED BY <2>1, <2>2, <2>3
  <1>10. CASE AssembleAndGate
    <2>1. /\ pc = "assemble" /\ pc' = "done" /\ verdict' = Gate(Kept(Claimed), EvidenceById(evidence))
          /\ UNCHANGED <<attempt, loaded, topic, bucket, direct, evidence, tasks, results, now, store, moved>>
          /\ UNCHANGED <<level, queue, found, seeds>>
      BY <1>10 DEF AssembleAndGate, storeVars, gatherVars
    <2>2. GatheringOK' /\ AskingOK'
      BY <2>1 DEF RunInv, GatheringOK, AskingOK
    <2>3. TasksFrom(evidence)' = TasksFrom(evidence) /\ Claims(results)' = Claims(results)
          /\ (CitesOwn(results)' <=> CitesOwn(results))
      BY <2>1 DEF CitesOwn
    <2>4. ResolvingOK'
      BY <2>1, <2>3 DEF RunInv, ResolvingOK, Preparing
    <2>5. Claimed' = Claimed
      BY <2>1 DEF Claimed, Candidate
    <2>6. Gate(Kept(Claimed), EvidenceById(evidence))' = Gate(Kept(Claimed), EvidenceById(evidence))
      BY <2>1, <2>5
    <2> QED BY <2>1, <2>2, <2>4, <2>6 DEF RunInv, VerdictOK
  <1>11. CASE Retry
    <2>1. /\ UNCHANGED runVars /\ UNCHANGED <<results, store, moved, now>>
          /\ pc = "failed" /\ pc' = "idle" /\ attempt < MaxAttempts /\ attempt' = attempt + 1
      BY <1>11 DEF Retry, storeVars
    <2>2. attempt' \in 1..MaxAttempts
      BY <1>1, <2>1, DreamAssumption
    <2> QED BY <1>1, <2>1, <2>2, RunKept
  <1>12. CASE Move
    <2>1. UNCHANGED runVars /\ UNCHANGED <<results, pc, attempt, now>>
      BY <1>12 DEF Move
    <2> QED BY <1>1, <1>12, <2>1, StoreMoves, RunKept
  <1>13. CASE Tick
    <2>1. UNCHANGED runVars /\ UNCHANGED <<results, pc, attempt, store, moved>>
          /\ now < MaxTime /\ now' = now + 1
      BY <1>13 DEF Tick, storeVars
    <2>2. now' \in 1..MaxTime
      BY <1>1, <2>1, DreamAssumption
    <2> QED BY <1>1, <2>1, <2>2, RunKept
  <1>14. CASE UNCHANGED vars
    <2>1. UNCHANGED runVars /\ UNCHANGED <<results, pc, attempt, now, store, moved>>
      BY <1>14 DEF vars, runVars
    <2> QED BY <1>1, <2>1, RunKept
  <1> QED BY <1>3, <1>4, <1>5, <1>6, <1>7, <1>8, <1>9, <1>10, <1>11, <1>12, <1>13, <1>14
          DEF Next, GatherSteps

\* A pair rests no longer than its cooldown
RestOK == \A p \in 1..Pairs : failedUntil[p] <= now + Cooldown[p]

LEMMA RestNext == RouterInv /\ RestOK /\ [Next]_vars => RestOK'
  <1> SUFFICES ASSUME RouterInv, RestOK, [Next]_vars PROVE RestOK'
    OBVIOUS
  <1>1. /\ now \in Nat /\ failedUntil \in [1..Pairs -> Nat]
        /\ \A p \in 1..Pairs : Cooldown[p] \in Nat
    BY DreamAssumption DEF RouterInv
  <1>2. \/ UNCHANGED failedUntil /\ now' \in {now, now + 1}
        \/ failedUntil' = CooldownPair(call.pair) /\ now' = now
    <2>1. CASE ModelFails
      BY <2>1 DEF ModelFails
    <2>2. CASE UNCHANGED vars
      BY <2>2 DEF vars
    <2>3. CASE QuietSteps
      BY <2>3, GatherLeaves DEF QuietSteps, Load, LoadRaises, PrepareFails, AnswerMcp,
           AssembleAndGate, AssembleRaises, Retry, Move, Tick, routerVars
    <2>4. CASE CallRouter \/ ClientTimeout \/ Serve \/ ModelAnswers
      BY <2>4 DEF CallRouter, ClientTimeout, Serve, ModelAnswers
    <2> QED BY <2>1, <2>2, <2>3, <2>4 DEF Next, QuietSteps, GatherSteps
  <1>3. CASE UNCHANGED failedUntil /\ now' \in {now, now + 1}
    BY <1>1, <1>3 DEF RestOK
  <1>4. CASE failedUntil' = CooldownPair(call.pair) /\ now' = now
    BY <1>1, <1>4 DEF RestOK, CooldownPair
  <1> QED BY <1>2, <1>3, <1>4

\* The invariants give what is checked of every state
LEMMA RunIsSound == RouterInv /\ RunInv /\ RestOK => GateSound
  <1> SUFFICES ASSUME RouterInv, RunInv, RestOK PROVE GateSound
    OBVIOUS
  <1> DEFINE v == Gate(Kept(Claimed), EvidenceById(evidence))
  <1>1. GatheringOK /\ ResolvingOK /\ VerdictOK
    BY DEF RunInv
  <1>2. pc = "done" => FollowsFrom(evidence, Kept(Claimed), EvidenceById(evidence), v)
    <2>1. pc = "done" => Kept(Claimed) \in Seq(CandidatesFrom(evidence))
      BY <1>1, KeptFrom DEF ResolvingOK
    <2> QED BY <2>1, GatedFrom
  <1> HIDE DEF v
  <1>3. (pc = "done" => verdict = v) /\ (pc # "done" => verdict = NoVerdict)
    BY <1>1 DEF VerdictOK, v
  <1>4. \A n \in DOMAIN verdict.decision : verdict.decision[n] \in Decisions
    <2>1. NoVerdict.decision = <<>> /\ DOMAIN <<>> = {}
      BY DEF NoVerdict
    <2>2. CASE pc = "done"
      BY <1>2, <1>3, <2>2 DEF FollowsFrom
    <2>3. CASE pc # "done"
      BY <1>3, <2>1, <2>3
    <2> QED BY <2>2, <2>3
  <1>5. PromotedSupported
    <2> SUFFICES ASSUME pc = "done", NEW n \in DOMAIN v.decision, v.decision[n] = "promote"
                 PROVE  LET c == v.cands[n]
                        IN /\ Cardinality(ToSet(c.ids)) >= 2
                           /\ ToSet(c.ids) \subseteq IdsOf(c.topic)
                           /\ \E r \in ToSet(c.ids) : Verification[r] # ""
      BY <1>3 DEF PromotedSupported
    <2> DEFINE c == v.cands[n]
    <2>1. /\ Cardinality(ToSet(c.ids)) >= 2
          /\ ToSet(c.ids) \subseteq {evidence[c.topic][m].id : m \in DOMAIN evidence[c.topic]}
          /\ \E r \in ToSet(c.ids) : Verification[r] # ""
      BY <1>2 DEF FollowsFrom
    <2>2. IdsOf(c.topic) = {evidence[c.topic][m].id : m \in DOMAIN evidence[c.topic]}
      BY DEF IdsOf
    <2> QED BY <2>1, <2>2
  <1>6. MergeExact
    BY <1>2, <1>3 DEF MergeExact, FollowsFrom
  <1>7. DreamTypeOK
    <2>1. DOMAIN store = Records /\ moved \subseteq Records
      BY <1>1 DEF GatheringOK, StoreSet
    <2>2. Len(results) <= Len(tasks) /\ (pc \in {"assemble", "done"} => Len(results) = Len(tasks))
      <3>1. Len(results) \in Nat /\ Len(tasks) \in Nat
        BY <1>1 DEF ResolvingOK
      <3>2. Len(results) < Len(tasks) \/ Len(results) = Len(tasks)
        <4>1. CASE Preparing \/ pc = "failed"
          BY <1>1, <4>1 DEF ResolvingOK
        <4>2. CASE pc \in {"reason", "waiting", "assemble", "done"}
          BY <1>1, <4>2 DEF ResolvingOK
        <4> QED BY <1>1, <4>1, <4>2 DEF ResolvingOK, Preparing
      <3> QED BY <1>1, <3>1, <3>2 DEF ResolvingOK
    <2>3. /\ call.busy => call.pair \in 1..Pairs /\ call.protocol \in 1..Protocols[call.pair]
          /\ call.client => call.busy /\ pc = "waiting"
      BY DEF RouterInv, CallOK, ClientOK
    <2> QED BY <1>1, <1>4, <2>1, <2>2, <2>3 DEF DreamTypeOK, GatheringOK, ResolvingOK, RestOK
  <1> QED BY <1>5, <1>6, <1>7 DEF GateSound

(* Whatever the store, the providers, the router and the clock do, a verdict   *)
(* follows from the evidence of its own run: what is promoted cites two        *)
(* different pieces of it at least, one with a verification, and the merge of  *)
(* duplicates loses nothing and keeps no duplicate (evaluate, gate.py, on what *)
(* prepare_request and assemble hand it).                                      *)
THEOREM VerdictFollows == Spec => []GateSound
  <1>1. Init => RestOK
    <2> SUFFICES ASSUME Init PROVE RestOK
      OBVIOUS
    <2>1. now = 1 /\ failedUntil = [p \in 1..Pairs |-> 0]
      BY DEF Init
    <2> QED BY <2>1, DreamAssumption DEF RestOK
  <1> DEFINE Inv == RouterInv /\ RunInv /\ RestOK
  <1>2. Init => Inv
    BY <1>1, RouterStart, RunStart
  <1>3. Inv /\ [Next]_vars => Inv'
    BY RouterNext, RunNext, RestNext
  <1>4. Inv => GateSound
    BY RunIsSound
  <1> HIDE DEF Inv
  <1> QED BY <1>2, <1>3, <1>4, PTL DEF Spec

-----------------------------------------------------------------------------
(***************************************************************************)
(* What is gathered, record by record.                                     *)
(***************************************************************************)
\* The ids of a list of evidence
IdsIn(s) == {e.id : e \in ToSet(s)}

\* A record of the project, or of none
OfProject(project, r) == project = NoProject \/ Project[r] \in {NoProject, project}

\* The items of a list are those of its records
LEMMA ItemsExactly ==
  ASSUME NEW st \in StoreSet, NEW rs \in Seq(Records)
  PROVE  ToSet(Items(st, rs)) = {Item(st, r, FALSE) : r \in ToSet(rs)}
  BY DEF Items, ToSet

\* The items of a list of records that are in the scope
LEMMA ScopedExactly ==
  ASSUME NEW st \in StoreSet, NEW rs \in Seq(Records), NEW project
  PROVE  ToSet(InScope(project, Items(st, rs)))
           = {Item(st, r, FALSE) : r \in {r \in ToSet(rs) : OfProject(project, r)}}
  <1> DEFINE items == Items(st, rs)
             P == {n \in DOMAIN items : \/ project = NoProject
                                        \/ Project[items[n].id] \in {NoProject, project}}
  <1>1. items \in Seq(EvidenceSet) /\ DOMAIN items = DOMAIN rs
        /\ \A n \in DOMAIN rs : items[n] = Item(st, rs[n], FALSE) /\ items[n].id = rs[n]
    BY ItemsOf DEF Items, Item
  <1>2. InScope(project, items) = Picked(items, P)
    BY DEF InScope
  <1>3. \A n \in DOMAIN rs : n \in P <=> OfProject(project, rs[n])
    BY <1>1 DEF OfProject
  <1> HIDE DEF items, P
  <1>4. ToSet(Picked(items, P)) = {items[k] : k \in DOMAIN items \cap P}
    BY <1>1, PickedFacts
  <1>5. {items[k] : k \in DOMAIN items \cap P} = {Item(st, rs[k], FALSE) : k \in {k \in DOMAIN rs : OfProject(project, rs[k])}}
    BY <1>1, <1>3
  <1>6. {Item(st, rs[k], FALSE) : k \in {k \in DOMAIN rs : OfProject(project, rs[k])}}
          = {Item(st, r, FALSE) : r \in {r \in ToSet(rs) : OfProject(project, r)}}
    BY DEF ToSet
  <1> QED BY <1>2, <1>4, <1>5, <1>6 DEF items

\* The items of a list that are on the topic
LEMMA TopicExactly ==
  ASSUME NEW items \in Seq(EvidenceSet), NEW t
  PROVE  ToSet(OnTopic(t, items)) = {e \in ToSet(items) : <<t, e.id>> \in Relevant}
  <1> DEFINE P == {n \in DOMAIN items : <<t, items[n].id>> \in Relevant}
  <1>1. ToSet(Picked(items, P)) = {items[k] : k \in DOMAIN items \cap P}
    BY PickedFacts
  <1> QED BY <1>1 DEF OnTopic, ToSet

\* Without repetition: the same ids, each once
LEMMA DeduplicateFacts ==
  ASSUME NEW E, NEW s \in Seq(E)
  PROVE  /\ Deduplicate(s) \in Seq(E) /\ ToSet(Deduplicate(s)) \subseteq ToSet(s)
         /\ IdsIn(Deduplicate(s)) = IdsIn(s)
         /\ \A i, j \in DOMAIN Deduplicate(s) : i # j => Deduplicate(s)[i].id # Deduplicate(s)[j].id
  <1> DEFINE P == {n \in DOMAIN s : \A m \in 1..(n - 1) : s[m].id # s[n].id}
             d == Picked(s, P)
  <1>1. Deduplicate(s) = d
    BY DEF Deduplicate
  <1>2. d \in Seq(E) /\ ToSet(d) = {s[k] : k \in DOMAIN s \cap P}
    BY PickedFacts
  <1>3. PICK pos : Selects(s, P, d, pos, Len(s))
    BY PickedPositions
  <1>4. DOMAIN s = 1..Len(s) /\ Len(s) \in Nat
    OBVIOUS
  <1>5. ASSUME NEW n \in DOMAIN s PROVE \E k \in DOMAIN s \cap P : s[k].id = s[n].id
    <2> DEFINE T == {k \in DOMAIN s : s[k].id = s[n].id}
    <2>1. T \in SUBSET Nat /\ T # {}
      BY <1>4
    <2>2. PICK m \in T : \A k \in T : m <= k
      BY <2>1, LeastNat
    <2>3. \A k \in 1..(m - 1) : k \in DOMAIN s /\ k \notin T
      BY <1>4, <2>1, <2>2
    <2> QED BY <2>2, <2>3
  <1> HIDE DEF d
  <1>6. DOMAIN d = 1..Len(d) /\ Len(d) \in Nat
    BY <1>2
  <1>7. ToSet(d) \subseteq ToSet(s)
    BY <1>2 DEF ToSet
  <1>8. IdsIn(d) = IdsIn(s)
    <2> HIDE DEF P
    <2>1. IdsIn(s) = {s[n].id : n \in DOMAIN s}
      BY DEF IdsIn, ToSet
    <2>2. IdsIn(d) = {s[k].id : k \in DOMAIN s \cap P}
      BY <1>2 DEF IdsIn
    <2> QED BY <1>5, <2>1, <2>2
  <1>9. ASSUME NEW i \in DOMAIN d, NEW j \in DOMAIN d, i < j PROVE d[i].id # d[j].id
    <2>1. pos[i] < pos[j] /\ pos[i] \in DOMAIN s /\ pos[j] \in P /\ d[i] = s[pos[i]] /\ d[j] = s[pos[j]]
      BY <1>3, <1>4, <1>6, <1>9 DEF Selects
    <2>2. pos[i] \in 1..(pos[j] - 1)
      BY <1>4, <2>1
    <2> QED BY <2>1, <2>2
  <1>10. ASSUME NEW i \in DOMAIN d, NEW j \in DOMAIN d, i # j PROVE d[i].id # d[j].id
    <2>1. i < j \/ j < i
      BY <1>6, <1>10
    <2> QED BY <1>9, <2>1
  <1> QED BY <1>1, <1>2, <1>7, <1>8, <1>10

\* Ids each once are as many as the items
LEMMA EachOnce ==
  ASSUME NEW E, NEW s \in Seq(E), \A i, j \in DOMAIN s : i # j => s[i].id # s[j].id
  PROVE  Cardinality({s[n].id : n \in DOMAIN s}) = Len(s)
  <1> DEFINE n == Len(s)
             T == {s[k].id : k \in DOMAIN s}
             f == [k \in 1..n |-> s[k].id]
  <1>1. n \in Nat /\ DOMAIN s = 1..n
    OBVIOUS
  <1>2. f \in Injection(1..n, T) /\ f \in Surjection(1..n, T)
    <2>1. f \in [1..n -> T]
      BY <1>1
    <2>2. \A i, j \in 1..n : f[i] = f[j] => i = j
      BY <1>1
    <2>3. \A x \in T : \E i \in 1..n : f[i] = x
      BY <1>1
    <2> HIDE DEF f, T
    <2> QED BY <2>1, <2>2, <2>3 DEF Injection, Surjection, IsInjective
  <1> HIDE DEF f, T
  <1>3. IsFiniteSet(1..n) /\ Cardinality(1..n) = n
    <2>1. 1 \in Int /\ n \in Int
      BY <1>1
    <2>2. IsFiniteSet(1..n) /\ Cardinality(1..n) = IF 1 > n THEN 0 ELSE n - 1 + 1
      BY <2>1, FS_Interval
    <2> QED BY <1>1, <2>2
  <1>4. Cardinality(T) = n
    BY <1>2, <1>3, FS_Surjection
  <1> QED BY <1>4 DEF T

\* Every time up to the end of the session falls into a bucket
LEMMA SomeBucket ==
  ASSUME NEW time \in Int, NEW end \in Int, time <= end
  PROVE  \E b \in DOMAIN Ages : InBucket(time, b, end)
  <1>1. /\ DOMAIN Ages = 1..Len(Ages) /\ Len(Ages) \in Nat \ {0} /\ Ages[Len(Ages)] = 0
        /\ \A b \in DOMAIN Ages : Ages[b] \in Nat
    <2>1. Ages \in Seq(Nat) /\ Ages # <<>> /\ Ages[Len(Ages)] = 0
      BY EvidenceAssumption, DreamAssumption
    <2> QED BY <2>1
  <1> DEFINE T == {b \in DOMAIN Ages : time <= end - Ages[b]}
  <1>2. T \in SUBSET Nat /\ T # {}
    <2>1. Len(Ages) \in T
      BY <1>1
    <2> QED BY <1>1, <2>1
  <1>3. PICK m \in T : \A b \in T : m <= b
    BY <1>2, LeastNat
  <1>4. m > 1 => time > end - Ages[m - 1]
    <2> SUFFICES ASSUME m > 1 PROVE time > end - Ages[m - 1]
      OBVIOUS
    <2>1. m - 1 \in DOMAIN Ages /\ m - 1 \notin T
      BY <1>1, <1>3
    <2>2. Ages[m - 1] \in Int /\ ~(time <= end - Ages[m - 1])
      BY <1>1, <2>1
    <2> QED BY <2>2
  <1> QED BY <1>3, <1>4 DEF InBucket

\* A record of a bucket is not later than the session
LEMMA NotLater ==
  ASSUME NEW time \in Int, NEW b \in DOMAIN Ages, NEW end \in Int, InBucket(time, b, end)
  PROVE  time <= end
  <1>1. Ages[b] \in Nat
    <2>1. Ages \in Seq(Nat)
      BY EvidenceAssumption
    <2> QED BY <2>1
  <1> QED BY <1>1 DEF InBucket

\* What EvidenceSound asks of an item
Fits(e, project, end) ==
  /\ e.time <= end \/ \E r \in Records : e.id \in ToSet(Related[r])
  /\ e.direct \/ project = NoProject \/ Project[e.id] \in {NoProject, project}
AllFit(items, project, end) == \A e \in ToSet(items) : Fits(e, project, end)

\* No id twice
Once(items) == \A i, j \in DOMAIN items : i # j => items[i].id # items[j].id

\* The first hits of a topic that fall into a bucket, and stayed there, are taken
Covered(st, changed, items, t, b, project, end) ==
  \A n \in 1..PerBucket :
    LET r == Hits[t][n]
    IN n \in DOMAIN Hits[t] /\ r \notin changed /\ st[r].live /\ InBucket(st[r].time, b, end)
       /\ <<t, r>> \in Relevant /\ OfProject(project, r)
       => r \in IdsIn(items)

\* More evidence covers as much
LEMMA MoreCovers ==
  ASSUME NEW st, NEW changed, NEW items, NEW more, NEW t, NEW b, NEW project, NEW end,
         Covered(st, changed, items, t, b, project, end), IdsIn(items) \subseteq IdsIn(more)
  PROVE  Covered(st, changed, more, t, b, project, end)
  BY DEF Covered

\* One list after another
LEMMA JoinedItems ==
  ASSUME NEW E, NEW s \in Seq(E), NEW u \in Seq(E)
  PROVE  s \o u \in Seq(E) /\ ToSet(s \o u) = ToSet(s) \cup ToSet(u)
  <1>1. /\ DOMAIN s = 1..Len(s) /\ Len(s) \in Nat /\ DOMAIN u = 1..Len(u) /\ Len(u) \in Nat
        /\ s \o u \in Seq(E) /\ Len(s \o u) = Len(s) + Len(u) /\ DOMAIN (s \o u) = 1..(Len(s) + Len(u))
        /\ \A n \in 1..(Len(s) + Len(u)) : (s \o u)[n] = IF n <= Len(s) THEN s[n] ELSE u[n - Len(s)]
    OBVIOUS
  <1> DEFINE v == s \o u
  <1>2. \A n \in DOMAIN s : n \in DOMAIN v /\ v[n] = s[n]
    BY <1>1
  <1>3. \A n \in DOMAIN u : n + Len(s) \in DOMAIN v /\ v[n + Len(s)] = u[n]
    BY <1>1
  <1>4. \A n \in DOMAIN v : (n \in DOMAIN s /\ v[n] = s[n]) \/ (n - Len(s) \in DOMAIN u /\ v[n] = u[n - Len(s)])
    BY <1>1
  <1> HIDE DEF v
  <1>5. ToSet(v) = ToSet(s) \cup ToSet(u)
    BY <1>2, <1>3, <1>4 DEF ToSet
  <1> QED BY <1>1, <1>5 DEF v

\* Lists that fit, joined, fit
LEMMA JoinedFit ==
  ASSUME NEW s \in Seq(EvidenceSet), NEW u \in Seq(EvidenceSet), NEW project, NEW end,
         AllFit(s, project, end), AllFit(u, project, end)
  PROVE  /\ s \o u \in Seq(EvidenceSet) /\ AllFit(s \o u, project, end)
         /\ IdsIn(s) \subseteq IdsIn(s \o u) /\ IdsIn(u) \subseteq IdsIn(s \o u)
  <1>1. s \o u \in Seq(EvidenceSet) /\ ToSet(s \o u) = ToSet(s) \cup ToSet(u)
    BY JoinedItems
  <1> DEFINE v == s \o u
  <1> HIDE DEF v
  <1>2. AllFit(v, project, end) /\ IdsIn(s) \subseteq IdsIn(v) /\ IdsIn(u) \subseteq IdsIn(v)
    BY <1>1 DEF AllFit, IdsIn, v
  <1> QED BY <1>1, <1>2 DEF v

\* The evidence of the session fits: it is direct and not later than the session's end
LEMMA SessionFits ==
  ASSUME NEW st \in StoreSet, NEW rs \in Seq(Records), NEW t, NEW project, NEW end,
         \A n \in DOMAIN rs : st[rs[n]].time <= end
  PROVE  AllFit(SessionEvidence(st, rs, t), project, end)
  <1> DEFINE listed == OnTopic(t, Items(st, rs))
             own == SessionEvidence(st, rs, t)
  <1>1. listed \in Seq(EvidenceSet) /\ Items(st, rs) \in Seq(EvidenceSet)
    BY ItemsOf, ScopeAndTopic
  <1>2. own = [n \in DOMAIN listed |-> [listed[n] EXCEPT !.direct = TRUE]]
    BY DEF SessionEvidence
  <1>3. ToSet(listed) \subseteq {Item(st, r, FALSE) : r \in ToSet(rs)}
    BY <1>1, ItemsExactly, TopicExactly
  <1> HIDE DEF listed, own
  <1>4. ASSUME NEW e \in ToSet(own) PROVE Fits(e, project, end)
    <2>1. PICK n \in DOMAIN listed : e = [listed[n] EXCEPT !.direct = TRUE]
      BY <1>2 DEF ToSet
    <2>2. listed[n] \in ToSet(listed) /\ listed[n] \in EvidenceSet
      BY <1>1 DEF ToSet
    <2>3. PICK r \in ToSet(rs) : listed[n] = Item(st, r, FALSE)
      BY <1>3, <2>2
    <2>4. e.direct = TRUE /\ e.time = listed[n].time
      BY <2>1, <2>2 DEF EvidenceSet
    <2>5. e.time = st[r].time
      BY <2>3, <2>4 DEF Item
    <2>6. st[r].time <= end
      BY DEF ToSet
    <2> QED BY <2>4, <2>5, <2>6 DEF Fits
  <1> QED BY <1>4 DEF AllFit, own

\* What is found in a bucket and in the scope fits
LEMMA FoundFits ==
  ASSUME NEW st \in StoreSet, NEW b \in DOMAIN Ages, NEW end \in Int, NEW rs \in Seq(Records), NEW t, NEW project,
         ToSet(rs) \subseteq Within(st, b, end)
  PROVE  /\ AllFit(OnTopic(t, InScope(project, Items(st, rs))), project, end)
         /\ IdsIn(OnTopic(t, InScope(project, Items(st, rs))))
              = {r \in ToSet(rs) : OfProject(project, r) /\ <<t, r>> \in Relevant}
  <1> DEFINE scoped == InScope(project, Items(st, rs))
             own == OnTopic(t, scoped)
  <1>1. scoped \in Seq(EvidenceSet)
    BY FoundInScope
  <1>2. ToSet(scoped) = {Item(st, r, FALSE) : r \in {r \in ToSet(rs) : OfProject(project, r)}}
    BY ScopedExactly
  <1> HIDE DEF scoped
  <1>3. ToSet(own) = {e \in ToSet(scoped) : <<t, e.id>> \in Relevant}
    BY <1>1, TopicExactly
  <1>4. \A r : Item(st, r, FALSE).id = r /\ Item(st, r, FALSE).time = st[r].time
    BY DEF Item
  <1>5. ASSUME NEW r \in ToSet(rs), OfProject(project, r) PROVE Fits(Item(st, r, FALSE), project, end)
    <2>1. r \in Records /\ InBucket(st[r].time, b, end)
      BY DEF Within
    <2>2. st[r].time \in Int
      BY <2>1 DEF StoreSet
    <2>3. st[r].time <= end
      BY <2>1, <2>2, NotLater
    <2> QED BY <1>4, <1>5, <2>3 DEF Fits, OfProject
  <1> HIDE DEF own
  <1>6. AllFit(own, project, end)
    BY <1>2, <1>3, <1>5 DEF AllFit
  <1>7. IdsIn(own) = {r \in ToSet(rs) : OfProject(project, r) /\ <<t, r>> \in Relevant}
    <2>1. ASSUME NEW e \in ToSet(own)
          PROVE  e.id \in ToSet(rs) /\ OfProject(project, e.id) /\ <<t, e.id>> \in Relevant
      <3>1. e \in ToSet(scoped) /\ <<t, e.id>> \in Relevant
        BY <1>3
      <3>2. PICK r \in ToSet(rs) : OfProject(project, r) /\ e = Item(st, r, FALSE)
        BY <1>2, <3>1
      <3> QED BY <1>4, <3>1, <3>2
    <2>2. ASSUME NEW r \in ToSet(rs), OfProject(project, r), <<t, r>> \in Relevant
          PROVE  \E e \in ToSet(own) : e.id = r
      <3>1. Item(st, r, FALSE) \in ToSet(scoped) /\ Item(st, r, FALSE).id = r
        BY <1>2, <1>4, <2>2
      <3> QED BY <1>3, <2>2, <3>1
    <2> QED BY <2>1, <2>2 DEF IdsIn
  <1> QED BY <1>6, <1>7 DEF own, scoped

\* What a relation leads to fits, whatever its time
LEMMA LinkedFit ==
  ASSUME NEW items \in Seq(EvidenceSet), NEW project, NEW end,
         \A e \in ToSet(items) : e.id \in Linked
  PROVE  AllFit(InScope(project, items), project, end)
  <1> DEFINE P == {n \in DOMAIN items : \/ project = NoProject
                                        \/ Project[items[n].id] \in {NoProject, project}}
  <1>1. ToSet(InScope(project, items)) = {items[k] : k \in DOMAIN items \cap P}
    BY PickedFacts DEF InScope
  <1>2. ASSUME NEW e \in ToSet(InScope(project, items)) PROVE Fits(e, project, end)
    <2>1. PICK k \in DOMAIN items : k \in P /\ e = items[k]
      BY <1>1, <1>2
    <2>2. e.id \in Linked
      BY <2>1 DEF ToSet
    <2> QED BY <2>1, <2>2 DEF Fits, Linked
  <1> QED BY <1>2 DEF AllFit

-----------------------------------------------------------------------------
(***************************************************************************)
(* What the gathering has taken so far, while others change the store.     *)
(***************************************************************************)
\* The session of an attempt, its last episode being the latest
SessionOK ==
  /\ loaded \in Seq(Session) /\ loaded # <<>>
  /\ \A n \in DOMAIN loaded : store[loaded[n]].time <= End

\* The evidence of a topic, of some of the buckets
Holds(t, buckets) ==
  /\ AllFit(evidence[t], Scope, End)
  /\ \A b \in buckets : Covered(store, moved, evidence[t], t, b, Scope, End)
Complete(t) == Once(evidence[t]) /\ Holds(t, DOMAIN Ages)

\* The topics left behind, and the buckets whose own recall has returned
Past(t) == t # Topics[topic] /\ \E i \in 1..(topic - 1) : Topics[i] = t
Searched == 1..(IF pc = "relate" \/ level > 0 THEN bucket ELSE bucket - 1)

\* The first search of a recall found episodes of the bucket, the topic's recall all that
\* are among its first hits and stayed
PartOK ==
  pc = "merge" =>
    /\ \A r \in part : r \in Episodes /\ InBucket(store[r].time, bucket, End)
    /\ level = 0 => \A n \in 1..PerBucket :
         LET r == Hits[Topics[topic]][n]
         IN n \in DOMAIN Hits[Topics[topic]] /\ r \notin moved /\ r \in Episodes
            /\ store[r].live /\ InBucket(store[r].time, bucket, End) => r \in part

Gathering == pc \in {"recall", "merge", "relate"}
TakenOK ==
  /\ PartOK
  /\ Gathering \/ Prepared => SessionOK
  /\ Gathering => /\ Holds(Topics[topic], Searched)
                  /\ \A t \in ToSet(Topics) : Past(t) => Complete(t)
  /\ Prepared => \A t \in ToSet(Topics) : Complete(t)

\* The invariant gives what is checked of every state
LEMMA TakenIsExact == RunInv /\ TakenOK => EvidenceExact
  <1> SUFFICES ASSUME RunInv, TakenOK, Prepared PROVE EvidenceExact
    BY DEF EvidenceExact, EvidenceSound, EvidenceComplete
  <1>1. store \in StoreSet /\ evidence \in [ToSet(Topics) -> Seq(EvidenceSet)] /\ SessionOK
        /\ \A t \in ToSet(Topics) : Complete(t)
    BY DEF RunInv, GatheringOK, TakenOK
  <1>2. End \in Int
    <2>1. loaded[Len(loaded)] \in Session
      BY <1>1 DEF SessionOK
    <2>2. loaded[Len(loaded)] \in Records
      BY <2>1, EvidenceAssumption DEF Records
    <2> QED BY <1>1, <2>2 DEF End, StoreSet
  <1>3. ASSUME NEW t \in ToSet(Topics)
        PROVE  /\ Cardinality(IdsOf(t)) = Len(evidence[t])
               /\ \A n \in DOMAIN evidence[t] :
                    /\ evidence[t][n].time <= End \/ \E r \in Records : evidence[t][n].id \in ToSet(Related[r])
                    /\ evidence[t][n].direct \/ Scope = NoProject
                       \/ Project[evidence[t][n].id] \in {NoProject, Scope}
    <2>1. evidence[t] \in Seq(EvidenceSet) /\ Once(evidence[t]) /\ AllFit(evidence[t], Scope, End)
      BY <1>1 DEF Complete, Holds
    <2>2. Cardinality(IdsOf(t)) = Len(evidence[t])
      BY <2>1, EachOnce DEF IdsOf, Once
    <2>3. \A n \in DOMAIN evidence[t] : Fits(evidence[t][n], Scope, End)
      BY <2>1 DEF AllFit, ToSet
    <2> QED BY <2>2, <2>3 DEF Fits
  <1>4. ASSUME NEW t \in ToSet(Topics), NEW n \in 1..PerBucket, n \in DOMAIN Hits[t],
               Hits[t][n] \notin moved, store[Hits[t][n]].live, store[Hits[t][n]].time <= End,
               <<t, Hits[t][n]>> \in Relevant,
               Scope = NoProject \/ Project[Hits[t][n]] \in {NoProject, Scope}
        PROVE  Hits[t][n] \in IdsOf(t)
    <2> DEFINE r == Hits[t][n]
    <2>1. r \in Records
      <3>1. t \in DOMAIN Hits
        BY TopicFacts DEF ToSet
      <3>2. Hits[t] \in Seq(Records)
        BY <3>1, EvidenceAssumption
      <3> QED BY <1>4, <3>2
    <2>2. store[r].time \in Int
      BY <1>1, <2>1 DEF StoreSet
    <2>3. PICK b \in DOMAIN Ages : InBucket(store[r].time, b, End)
      BY <1>2, <1>4, <2>2, SomeBucket
    <2>4. Covered(store, moved, evidence[t], t, b, Scope, End)
      BY <1>1 DEF Complete, Holds
    <2>5. r \in IdsIn(evidence[t])
      BY <1>4, <2>3, <2>4 DEF Covered, OfProject
    <2> QED BY <2>5 DEF IdsIn, IdsOf, ToSet
  <1> QED BY <1>3, <1>4 DEF EvidenceExact, EvidenceSound, EvidenceComplete

\* What is gathered stays while the run goes on
LEMMA TakenKept ==
  ASSUME TakenOK, UNCHANGED <<store, moved, loaded, topic, bucket, level, part, evidence>>,
         pc' = pc \/ (Prepared /\ Prepared')
  PROVE  TakenOK'
  <1>1. UNCHANGED <<End, Scope>>
    BY DEF End, Scope
  <1>2. SessionOK' <=> SessionOK
    BY <1>1 DEF SessionOK
  <1>3. \A t : /\ Complete(t)' <=> Complete(t)
               /\ Past(t)' <=> Past(t)
    BY <1>1 DEF Complete, Holds, Covered, Past
  <1>4. pc' = pc => (Holds(Topics[topic], Searched)' <=> Holds(Topics[topic], Searched))
    BY <1>1 DEF Holds, Covered, Searched
  <1>5. (Prepared /\ Prepared' => ~Gathering') /\ (pc' = pc => (Gathering' <=> Gathering) /\ (Prepared' <=> Prepared))
    BY DEF Prepared, Gathering
  <1>6. PartOK'
    BY <1>1 DEF TakenOK, PartOK, Prepared
  <1> QED BY <1>2, <1>3, <1>4, <1>5, <1>6 DEF TakenOK

\* A run that ended or has not begun holds nothing
LEMMA NothingTaken == ASSUME pc' \in {"idle", "failed"} PROVE TakenOK'
  BY DEF TakenOK, PartOK, Gathering, Prepared

\* Others change the store
LEMMA MoveKeepsTaken ==
  ASSUME RunInv, TakenOK, Move
  PROVE  TakenOK'
  <1>1. PICK r \in Moving : /\ \/ r \in Knowledge /\ Touch(r)
                               \/ Toggle(r)
                            /\ moved' = moved \cup {r}
    BY DEF Move
  <1>2. /\ UNCHANGED <<loaded, topic, bucket, level, part, evidence, pc>>
        /\ pc \in {"idle", "recall", "merge", "relate"} /\ store \in StoreSet
    BY DEF Move, Preparing, runVars, RunInv, GatheringOK
  <1>3. /\ r \in Records /\ Session \subseteq Episodes /\ Episodes \subseteq Records
        /\ Episodes \cap Knowledge = {}
    BY EvidenceAssumption, DreamAssumption DEF Records
  <1>4. \A q \in Records : q # r => store'[q] = store[q]
    BY <1>1, <1>2 DEF Touch, Toggle, StoreSet
  <1>5. \A e \in Episodes : store'[e].time = store[e].time
    <2>1. ASSUME NEW e \in Episodes PROVE store'[e].time = store[e].time
      <3>1. CASE Touch(r) /\ r \in Knowledge
        BY <1>3, <1>4, <3>1
      <3>2. CASE Toggle(r)
        <4>1. store' = [store EXCEPT ![r] = [store[r] EXCEPT !.live = ~store[r].live]]
          BY <3>2 DEF Toggle
        <4>2. store[r] \in [live : BOOLEAN, time : Int] /\ r \in DOMAIN store
          BY <1>2, <1>3 DEF StoreSet
        <4>3. store'[r].time = store[r].time
          BY <4>1, <4>2
        <4> QED BY <1>3, <1>4, <4>3
      <3> QED BY <1>1, <3>1, <3>2
    <2> QED BY <2>1
  <1>6. CASE pc = "idle"
    BY <1>2, <1>6, NothingTaken
  <1>7. CASE Gathering
    <2>1. SessionOK /\ Holds(Topics[topic], Searched) /\ \A t \in ToSet(Topics) : Past(t) => Complete(t)
      BY <1>7 DEF TakenOK
    <2>2. /\ loaded[Len(loaded)] \in Session /\ \A n \in DOMAIN loaded : loaded[n] \in Session
      BY <2>1 DEF SessionOK
    <2>3. End' = End /\ Scope' = Scope
      BY <1>2, <1>3, <1>5, <2>2 DEF End, Scope
    <2>4. SessionOK'
      BY <1>2, <1>3, <1>5, <2>1, <2>2, <2>3 DEF SessionOK
    <2>5. ASSUME NEW t \in ToSet(Topics), NEW b, Covered(store, moved, evidence[t], t, b, Scope, End)
          PROVE  Covered(store, moved, evidence[t], t, b, Scope, End)'
      <3>1. Hits[t] \in Seq(Records)
        <4>1. t \in DOMAIN Hits
          BY TopicFacts DEF ToSet
        <4> QED BY <4>1, EvidenceAssumption
      <3>2. \A n \in DOMAIN Hits[t] : Hits[t][n] \in Records
        BY <3>1
      <3>3. \A q \in Records \ moved' : q \notin moved /\ store'[q] = store[q]
        BY <1>1, <1>4
      <3> QED BY <1>2, <2>3, <2>5, <3>2, <3>3 DEF Covered
    <2>6. Topics[topic] \in ToSet(Topics)
      BY TopicFacts DEF RunInv, GatheringOK
    <2>7. Holds(Topics[topic], Searched)'
      <3>1. Searched' = Searched
        BY <1>2 DEF Searched
      <3> QED BY <1>2, <2>1, <2>3, <2>5, <2>6, <3>1 DEF Holds
    <2>8. \A t \in ToSet(Topics) : Complete(t) => Complete(t)'
      BY <1>2, <2>3, <2>5 DEF Complete, Holds
    <2>9. \A t : Past(t)' <=> Past(t)
      BY <1>2 DEF Past
    <2>10. ~Prepared'
      BY <1>2 DEF Prepared
    <2>11. PartOK'
      <3> SUFFICES ASSUME pc = "merge" PROVE PartOK'
        BY <1>2 DEF PartOK
      <3>1. \A q \in part : q \in Episodes /\ InBucket(store[q].time, bucket, End)
        BY DEF TakenOK, PartOK
      <3>2. \A q \in Episodes \ moved' : q \notin moved /\ store'[q] = store[q]
        BY <1>1, <1>3, <1>4
      <3>3. ASSUME level = 0
            PROVE  \A n \in 1..PerBucket :
                     LET q == Hits[Topics[topic]][n]
                     IN n \in DOMAIN Hits[Topics[topic]] /\ q \notin moved' /\ q \in Episodes
                        /\ store'[q].live /\ InBucket(store'[q].time, bucket, End) => q \in part
        BY <3>2, <3>3 DEF TakenOK, PartOK
      <3> QED BY <1>2, <1>5, <2>3, <3>1, <3>3 DEF PartOK
    <2> QED BY <2>1, <2>4, <2>7, <2>8, <2>9, <2>10, <2>11 DEF TakenOK
  <1> QED BY <1>2, <1>6, <1>7 DEF Gathering

\* The session is loaded, and the first topic begun
LEMMA LoadTakes ==
  ASSUME RunInv, Load
  PROVE  TakenOK'
  <1> DEFINE usable == {e \in Session : store[e].live}
             listed == SetToSeq(usable)
             items == Items(store, listed)
             ordered == ByTime(items)
             sorted == [n \in DOMAIN listed |-> ordered[n].id]
  <1>1. /\ pc' = "recall" /\ loaded' = sorted /\ topic' = 1 /\ bucket' = 1 /\ listed # <<>>
        /\ evidence' = [evidence EXCEPT ![Topics[1]] = SessionEvidence(store, sorted, Topics[1])]
        /\ store' = store /\ level' = level /\ pc = "idle"
    BY DEF Load
  <1>2. store \in StoreSet /\ evidence \in [ToSet(Topics) -> Seq(EvidenceSet)]
    BY DEF RunInv, GatheringOK
  <1>3. listed \in Seq(Session) /\ listed \in Seq(Records)
    <2>1. IsFiniteSet(usable) /\ usable \subseteq Session /\ Session \subseteq Records
      BY EvidenceAssumption, FS_Subset DEF Records
    <2> HIDE DEF usable
    <2>2. listed \in Seq(usable)
      BY <2>1, ListOfSet
    <2> QED BY <2>1, <2>2, Widened
  <1> HIDE DEF listed
  <1>4. /\ DOMAIN listed = 1..Len(listed) /\ Len(listed) \in Nat \ {0} /\ items \in Seq(EvidenceSet)
        /\ Len(items) = Len(listed) /\ DOMAIN items = 1..Len(listed)
        /\ \A k \in 1..Len(listed) : listed[k] \in Session /\ items[k].id = listed[k] /\ items[k].time = store[listed[k]].time
    <2>1. DOMAIN listed = 1..Len(listed) /\ Len(listed) \in Nat \ {0} /\ items \in Seq(EvidenceSet)
      BY <1>1, <1>2, <1>3, ItemsOf
    <2>2. DOMAIN items = DOMAIN listed /\ \A k \in DOMAIN listed : items[k] = Item(store, listed[k], FALSE)
      BY DEF Items
    <2>3. \A r : Item(store, r, FALSE).id = r /\ Item(store, r, FALSE).time = store[r].time
      BY DEF Item
    <2>4. DOMAIN items = 1..Len(items) /\ Len(items) \in Nat
      BY <2>1
    <2>5. \A k \in DOMAIN listed : listed[k] \in Session
      BY <1>3
    <2> HIDE DEF items
    <2>6. Len(items) = Len(listed) /\ DOMAIN items = 1..Len(listed)
      BY <2>1, <2>2, <2>4
    <2>7. \A k \in 1..Len(listed) : /\ listed[k] \in Session /\ items[k].id = listed[k]
                                   /\ items[k].time = store[listed[k]].time
      <3>1. ASSUME NEW k \in 1..Len(listed)
            PROVE  listed[k] \in Session /\ items[k].id = listed[k] /\ items[k].time = store[listed[k]].time
        <4>1. k \in DOMAIN listed
          BY <2>1
        <4>2. items[k] = Item(store, listed[k], FALSE)
          BY <2>2, <4>1
        <4> QED BY <2>3, <2>5, <4>1, <4>2
      <3> QED BY <3>1
    <2> QED BY <2>1, <2>6, <2>7
  <1> HIDE DEF items
  <1>5. /\ Len(ordered) = Len(listed) /\ ordered \in Seq(EvidenceSet)
        /\ \A k \in 1..Len(listed) : \E m \in 1..Len(listed) : ordered[k] = items[m]
        /\ \A k \in 1..Len(listed) : items[k].time <= ordered[Len(listed)].time
    <2>1. \A k \in DOMAIN items : items[k].time \in Int
      <3>1. \A k \in DOMAIN items : items[k] \in EvidenceSet
        BY <1>4
      <3> QED BY <3>1 DEF EvidenceSet
    <2>2. items \in Seq(EvidenceSet) /\ Len(items) = Len(listed)
      BY <1>4
    <2> HIDE DEF ordered
    <2>3. /\ Len(ordered) = Len(items) /\ ordered \in Seq(EvidenceSet)
          /\ \A k \in 1..Len(items) : \E m \in 1..Len(items) : ordered[k] = items[m]
          /\ \A k \in 1..Len(items) : items[k].time <= ordered[Len(items)].time
      BY <2>1, <2>2, Ordered DEF ordered
    <2> QED BY <2>2, <2>3
  <1> HIDE DEF ordered
  <1>6. \A k \in 1..Len(listed) : /\ sorted[k] \in Session /\ store[sorted[k]].time = ordered[k].time
                                 /\ ordered[k].time <= ordered[Len(listed)].time
    <2>1. ASSUME NEW k \in 1..Len(listed)
          PROVE  /\ sorted[k] \in Session /\ store[sorted[k]].time = ordered[k].time
                 /\ ordered[k].time <= ordered[Len(listed)].time
      <3>1. PICK m \in 1..Len(listed) : ordered[k] = items[m]
        BY <1>5
      <3>2. sorted[k] = listed[m] /\ ordered[k].time = store[listed[m]].time
        BY <1>4, <3>1
      <3> QED BY <1>4, <1>5, <3>1, <3>2
    <2> QED BY <2>1
  <1>7. sorted \in Seq(Session) /\ Len(sorted) = Len(listed) /\ sorted # <<>>
    <2>1. sorted \in [1..Len(listed) -> Session]
      BY <1>4, <1>6
    <2> HIDE DEF sorted
    <2> QED BY <1>4, <2>1
  <1> HIDE DEF sorted
  <1>8. SessionOK' /\ End' = ordered[Len(listed)].time
    <2>1. End' = store[sorted[Len(listed)]].time
      BY <1>1, <1>7 DEF End
    <2>2. Len(listed) \in 1..Len(listed)
      BY <1>4
    <2>3. End' = ordered[Len(listed)].time
      BY <1>6, <2>1, <2>2
    <2>4. DOMAIN sorted = 1..Len(listed)
      BY <1>7
    <2> QED BY <1>1, <1>6, <1>7, <2>3, <2>4 DEF SessionOK
  <1>9. AllFit(evidence[Topics[1]], Scope, End)'
    <2>1. sorted \in Seq(Records)
      BY <1>7, Widened, EvidenceAssumption DEF Records
    <2>2. \A n \in DOMAIN sorted : store[sorted[n]].time <= End'
      BY <1>1, <1>8 DEF SessionOK
    <2>3. AllFit(SessionEvidence(store, sorted, Topics[1]), Scope', End')
      BY <1>2, <2>1, <2>2, SessionFits
    <2>4. evidence'[Topics[1]] = SessionEvidence(store, sorted, Topics[1])
      BY <1>1, <1>2, TopicFacts
    <2> QED BY <2>3, <2>4
  <1>10. Searched' = {} /\ (\A t \in ToSet(Topics) : ~Past(t)') /\ ~Prepared' /\ PartOK'
    <2>1. level' = 0
      BY <1>1 DEF RunInv, AskingOK
    <2> QED BY <1>1, <2>1 DEF Searched, Past, Prepared, PartOK
  <1>11. Holds(Topics[topic], Searched)'
    BY <1>1, <1>9, <1>10 DEF Holds
  <1> QED BY <1>8, <1>10, <1>11 DEF TakenOK

\* What a step of the gathering reads
LEMMA WhileGathering ==
  ASSUME RunInv, TakenOK, Gathering
  PROVE  /\ store \in StoreSet /\ evidence \in [ToSet(Topics) -> Seq(EvidenceSet)] /\ SessionOK
         /\ topic \in DOMAIN Topics /\ bucket \in DOMAIN Ages /\ bucket \in Nat \ {0} /\ End \in Int
         /\ loaded \in Seq(Records) /\ direct \in Seq(Records)
         /\ Holds(Topics[topic], Searched) /\ \A t \in ToSet(Topics) : Past(t) => Complete(t)
  <1>1. /\ store \in StoreSet /\ evidence \in [ToSet(Topics) -> Seq(EvidenceSet)] /\ SessionOK
        /\ topic \in DOMAIN Topics /\ bucket \in DOMAIN Ages
        /\ loaded \in Seq(Records) /\ direct \in Seq(Records)
        /\ Holds(Topics[topic], Searched) /\ \A t \in ToSet(Topics) : Past(t) => Complete(t)
    BY DEF RunInv, GatheringOK, TakenOK
  <1>2. bucket \in Nat \ {0}
    BY <1>1, TopicFacts
  <1>3. End \in Int
    <2>1. loaded[Len(loaded)] \in Records
      BY <1>1 DEF SessionOK
    <2> QED BY <1>1, <2>1 DEF End, StoreSet
  <1> QED BY <1>1, <1>2, <1>3

\* The evidence of the present topic grows by what fits
LEMMA TopicGrows ==
  ASSUME RunInv, TakenOK, Gathering, NEW new \in Seq(EvidenceSet), AllFit(new, Scope, End),
         evidence' = [evidence EXCEPT ![Topics[topic]] = @ \o new],
         UNCHANGED <<store, moved, loaded, topic, bucket>>, pc' \in {"recall", "relate"},
         \A b \in Searched' : b \in Searched
           \/ Covered(store, moved, evidence[Topics[topic]] \o new, Topics[topic], b, Scope, End)
  PROVE  TakenOK'
  <1> DEFINE t == Topics[topic]
             all == evidence[t] \o new
  <1>1. Gathering' /\ ~Prepared' /\ PartOK'
    BY DEF Gathering, Prepared, PartOK
  <1>2. /\ store \in StoreSet /\ evidence \in [ToSet(Topics) -> Seq(EvidenceSet)] /\ SessionOK
        /\ topic \in DOMAIN Topics
        /\ Holds(t, Searched) /\ \A u \in ToSet(Topics) : Past(u) => Complete(u)
    BY WhileGathering
  <1>3. t \in ToSet(Topics)
    BY <1>2, TopicFacts
  <1>4. evidence[t] \in Seq(EvidenceSet) /\ AllFit(evidence[t], Scope, End)
    BY <1>2, <1>3 DEF Holds
  <1>5. AllFit(all, Scope, End) /\ IdsIn(evidence[t]) \subseteq IdsIn(all)
    <2> HIDE DEF t
    <2> QED BY <1>4, JoinedFit
  <1>6. evidence'[t] = all /\ \A u \in ToSet(Topics) : u # t => evidence'[u] = evidence[u]
    <2> HIDE DEF t
    <2> QED BY <1>2, <1>3, EvidenceGrows DEF t
  <1>7. \A b \in Searched' : b \in Searched \/ Covered(store, moved, all, t, b, Scope, End)
    OBVIOUS
  <1> HIDE DEF all
  <1>8. End' = End /\ Scope' = Scope
    BY DEF End, Scope
  <1>9. \A b \in Searched' : Covered(store, moved, all, t, b, Scope, End)
    <2>1. \A b \in Searched : Covered(store, moved, all, t, b, Scope, End)
      BY <1>2, <1>5, MoreCovers DEF Holds
    <2> QED BY <1>7, <2>1
  <1>10. Holds(Topics[topic], Searched)'
    BY <1>5, <1>6, <1>8, <1>9 DEF Holds
  <1>11. ASSUME NEW u \in ToSet(Topics), Past(u)' PROVE Complete(u)'
    <2>1. Past(u) /\ u # t
      BY <1>11 DEF Past
    <2>2. Complete(u) /\ evidence'[u] = evidence[u]
      BY <1>2, <1>6, <2>1
    <2> QED BY <1>8, <2>2 DEF Complete, Holds
  <1>12. SessionOK'
    BY <1>2, <1>8 DEF SessionOK
  <1> QED BY <1>1, <1>10, <1>11, <1>12 DEF TakenOK

\* The first search of a recall
LEMMA SearchEpisodesTakes ==
  ASSUME RunInv, TakenOK, SearchEpisodes
  PROVE  TakenOK'
  <1> DEFINE t == Topics[topic]
             picked == ToSet(Search(store, Episodes, Head(queue), bucket, End, Limit))
  <1>1. /\ pc = "recall" /\ pc' = "merge" /\ part' = picked
        /\ UNCHANGED <<store, moved, loaded, topic, bucket, level, evidence>>
    BY DEF SearchEpisodes, storeVars
  <1>2. GatherSteps /\ Gathering
    BY <1>1 DEF GatherSteps, Gathering
  <1>3. /\ queue \in Seq(DOMAIN Hits) /\ queue # <<>> /\ Limit \in Nat
        /\ level = 0 => queue = <<t>> /\ Limit = PerBucket
    BY <1>1, <1>2, GatherReads DEF AskingOK, Limit
  <1>4. Head(queue) \in DOMAIN Hits /\ (level = 0 => Head(queue) = t)
    BY <1>3
  <1>5. /\ picked \subseteq Episodes \cap Within(store, bucket, End)
        /\ \A n \in 1..Limit :
             /\ n \in DOMAIN Hits[Head(queue)] /\ Hits[Head(queue)][n] \in Episodes
             /\ store[Hits[Head(queue)][n]].live
             /\ InBucket(store[Hits[Head(queue)][n]].time, bucket, End)
             => Hits[Head(queue)][n] \in picked
    BY <1>3, <1>4, SearchFinds
  <1> HIDE DEF picked
  <1>6. End' = End /\ Scope' = Scope
    BY <1>1 DEF End, Scope
  <1>7. PartOK'
    <2>1. \A r \in part' : r \in Episodes /\ InBucket(store[r].time, bucket, End)
      BY <1>1, <1>5 DEF Within
    <2>2. ASSUME level = 0, NEW n \in 1..PerBucket, n \in DOMAIN Hits[t], Hits[t][n] \in Episodes,
                 store[Hits[t][n]].live, InBucket(store[Hits[t][n]].time, bucket, End)
          PROVE  Hits[t][n] \in part'
      BY <1>1, <1>3, <1>4, <1>5, <2>2
    <2> QED BY <1>1, <1>6, <2>1, <2>2 DEF PartOK
  <1>8. SessionOK' /\ Holds(Topics[topic], Searched)'
    <2>1. SessionOK /\ Holds(Topics[topic], Searched)
      BY <1>2 DEF TakenOK
    <2>2. Searched' = Searched
      BY <1>1 DEF Searched
    <2> QED BY <1>1, <1>6, <2>1, <2>2 DEF SessionOK, Holds
  <1>9. \A u \in ToSet(Topics) : Past(u)' => Complete(u)'
    BY <1>1, <1>2, <1>6 DEF TakenOK, Past, Complete, Holds
  <1> QED BY <1>1, <1>7, <1>8, <1>9 DEF TakenOK, Prepared

\* What a recall returns is of the bucket, and the topic's own recall misses none of its
\* first hits that stayed
LEMMA RecalledWithin ==
  ASSUME RunInv, TakenOK, GatherSteps, pc = "merge"
  PROVE  /\ Recalled \in Seq(Records) /\ ToSet(Recalled) \subseteq Within(store, bucket, End)
         /\ level = 0 => \A n \in 1..PerBucket :
              LET r == Hits[Topics[topic]][n]
              IN n \in DOMAIN Hits[Topics[topic]] /\ r \notin moved
                 /\ store[r].live /\ InBucket(store[r].time, bucket, End) => r \in ToSet(Recalled)
  <1> DEFINE t == Topics[topic]
             q == Head(queue)
             noted == ToSet(Search(store, Knowledge, q, bucket, End, Limit))
  <1>1. /\ queue \in Seq(DOMAIN Hits) /\ queue # <<>> /\ Limit \in Nat /\ t \in DOMAIN Hits
        /\ level = 0 => queue = <<t>> /\ Limit = PerBucket
    BY GatherReads DEF AskingOK, Limit
  <1>2. q \in DOMAIN Hits /\ (level = 0 => q = t)
    BY <1>1
  <1>3. Recalled = Best(q, part, noted, Limit)
    BY DEF Recalled
  <1> HIDE DEF q
  <1>4. /\ noted \subseteq Knowledge \cap Within(store, bucket, End)
        /\ \A n \in 1..Limit : /\ n \in DOMAIN Hits[q] /\ Hits[q][n] \in Knowledge
                               /\ store[Hits[q][n]].live /\ InBucket(store[Hits[q][n]].time, bucket, End)
             => Hits[q][n] \in noted
    BY <1>1, <1>2, SearchFinds
  <1> HIDE DEF noted
  <1>5. /\ Recalled \in Seq(Records) /\ ToSet(Recalled) \subseteq part \cup noted
        /\ \A n \in 1..Limit : n \in DOMAIN Hits[q] /\ Hits[q][n] \in part \cup noted
             => Hits[q][n] \in ToSet(Recalled)
    BY <1>1, <1>2, <1>3, BestOf
  <1>6. part \subseteq Within(store, bucket, End)
    BY DEF TakenOK, PartOK, Within, Records
  <1>7. ASSUME level = 0, NEW n \in 1..PerBucket, n \in DOMAIN Hits[t], Hits[t][n] \notin moved,
               store[Hits[t][n]].live, InBucket(store[Hits[t][n]].time, bucket, End)
        PROVE  Hits[t][n] \in ToSet(Recalled)
    <2>1. Hits[t] \in Seq(Records)
      BY <1>1, EvidenceAssumption
    <2>2. Hits[t][n] \in Episodes \cup Knowledge
      BY <1>7, <2>1 DEF Records
    <2>3. q = t /\ Limit = PerBucket
      BY <1>1, <1>2, <1>7
    <2>4. CASE Hits[t][n] \in Episodes
      <3>1. Hits[t][n] \in part
        BY <1>7, <2>4 DEF TakenOK, PartOK
      <3> QED BY <1>5, <1>7, <2>3, <3>1
    <2>5. CASE Hits[t][n] \in Knowledge
      BY <1>4, <1>5, <1>7, <2>3, <2>5
    <2> QED BY <2>2, <2>4, <2>5
  <1> HIDE DEF t
  <1> QED BY <1>4, <1>5, <1>6, <1>7 DEF t

\* The recall of a bucket returns
LEMMA RecallBucketTakes ==
  ASSUME RunInv, TakenOK, RecallBucket
  PROVE  TakenOK'
  <1> DEFINE t == Topics[topic]
             own == OnTopic(t, InScope(Scope, Items(store, Recalled)))
             all == evidence[t] \o own
  <1>1. /\ pc = "merge" /\ level = 0 /\ evidence' = [evidence EXCEPT ![t] = @ \o own]
        /\ UNCHANGED <<store, moved, loaded, topic, bucket>>
    BY DEF RecallBucket, storeVars
  <1>2. pc' \in {"recall", "relate"} /\ Gathering /\ GatherSteps
    BY <1>1 DEF RecallBucket, Ask, Gathering, GatherSteps
  <1>3. /\ store \in StoreSet /\ evidence \in [ToSet(Topics) -> Seq(EvidenceSet)]
        /\ topic \in DOMAIN Topics /\ bucket \in DOMAIN Ages /\ bucket \in Nat \ {0} /\ End \in Int
        /\ t \in ToSet(Topics)
    BY <1>2, WhileGathering, TopicFacts
  <1>4. /\ Recalled \in Seq(Records) /\ ToSet(Recalled) \subseteq Within(store, bucket, End)
        /\ \A n \in 1..PerBucket : n \in DOMAIN Hits[t] /\ Hits[t][n] \notin moved
             /\ store[Hits[t][n]].live /\ InBucket(store[Hits[t][n]].time, bucket, End)
             => Hits[t][n] \in ToSet(Recalled)
    BY <1>1, <1>2, RecalledWithin
  <1>5. /\ own \in Seq(EvidenceSet) /\ AllFit(own, Scope, End)
        /\ IdsIn(own) = {r \in ToSet(Recalled) : OfProject(Scope, r) /\ <<t, r>> \in Relevant}
    <2>1. own \in Seq(EvidenceSet)
      <3> HIDE DEF t
      <3> QED BY <1>3, <1>4, FoundInScope
    <2>2. /\ AllFit(own, Scope, End)
          /\ IdsIn(own) = {r \in ToSet(Recalled) : OfProject(Scope, r) /\ <<t, r>> \in Relevant}
      <3>1. /\ Recalled \in Seq(Records) /\ ToSet(Recalled) \subseteq Within(store, bucket, End)
            /\ store \in StoreSet /\ bucket \in DOMAIN Ages /\ End \in Int
        BY <1>3, <1>4
      <3> HIDE DEF t
      <3> QED BY SMTT(40), <3>1, FoundFits
    <2> QED BY <2>1, <2>2
  <1> HIDE DEF own
  <1>6. IdsIn(own) \subseteq IdsIn(all)
    <2>1. evidence[t] \in Seq(EvidenceSet)
      BY <1>3
    <2>2. ToSet(all) = ToSet(evidence[t]) \cup ToSet(own)
      <3> HIDE DEF t
      <3> QED BY <1>5, <2>1, JoinedItems
    <2> HIDE DEF all
    <2> QED BY <2>2 DEF IdsIn
  <1> HIDE DEF all
  <1>7. Covered(store, moved, all, t, bucket, Scope, End)
    BY <1>4, <1>5, <1>6 DEF Covered
  <1>8. \A b \in Searched' : b = bucket \/ b \in Searched
    BY <1>1, <1>3 DEF Searched
  <1> HIDE DEF t
  <1> QED BY <1>1, <1>2, <1>5, <1>7, <1>8, TopicGrows DEF t, all

\* A recall of the expansion returns
LEMMA ExpandBucketTakes ==
  ASSUME RunInv, TakenOK, ExpandBucket
  PROVE  TakenOK'
  <1> DEFINE t == Topics[topic]
             new == Added(Recalled, ToSet(direct), found)
             items == OnTopic(t, InScope(Scope, Items(store, new)))
  <1>1. /\ pc = "merge" /\ level > 0 /\ evidence' = [evidence EXCEPT ![t] = @ \o items]
        /\ UNCHANGED <<store, moved, loaded, topic, bucket>>
    BY DEF ExpandBucket, storeVars
  <1>2. /\ pc' = "relate" \/ (pc' = "recall" /\ level' \in {level, level + 1})
        /\ Gathering /\ GatherSteps
    BY <1>1 DEF ExpandBucket, Ask, Gathering, GatherSteps
  <1>3. /\ store \in StoreSet /\ bucket \in DOMAIN Ages /\ bucket \in Nat \ {0} /\ End \in Int
    BY <1>2, WhileGathering
  <1>4. new \in Seq(Records) /\ ToSet(new) \subseteq Within(store, bucket, End)
    <2>1. Recalled \in Seq(Records) /\ ToSet(Recalled) \subseteq Within(store, bucket, End)
      BY <1>1, <1>2, RecalledWithin
    <2>2. found \in Seq(Records) /\ Len(found) <= TotalExpanded
      BY <1>2, GatherReads
    <2> QED BY <2>1, <2>2, AddedTo
  <1> HIDE DEF new
  <1>5. items \in Seq(EvidenceSet) /\ AllFit(items, Scope, End)
    <2> HIDE DEF t
    <2> QED BY <1>3, <1>4, FoundInScope, FoundFits
  <1> HIDE DEF items
  <1>6. Searched' = Searched
    <2>1. level \in Int
      BY <1>2, GatherReads, EvidenceAssumption
    <2> QED BY <1>1, <1>2, <2>1 DEF Searched
  <1>7. pc' \in {"recall", "relate"}
    BY <1>2
  <1> HIDE DEF t
  <1> QED BY <1>1, <1>2, <1>5, <1>6, <1>7, TopicGrows DEF t

\* The relations of a group of seeds are read
LEMMA RelateGroupTakes ==
  ASSUME RunInv, TakenOK, RelateGroup
  PROVE  TakenOK'
  <1> DEFINE t == Topics[topic]
             seed == Picked(seeds, {n \in DOMAIN seeds : Project[seeds[n]] = Project[seeds[1]]})
             rs == RelatedOf(store, seed)
             items == InScope(Scope, RelatedItems(rs))
  <1>1. /\ pc = "relate" /\ pc' = "relate" /\ evidence' = [evidence EXCEPT ![t] = @ \o items]
        /\ UNCHANGED <<store, moved, loaded, topic, bucket, level>>
    BY DEF RelateGroup, RelatedItems, storeVars
  <1>2. Gathering /\ GatherSteps
    BY <1>1 DEF Gathering, GatherSteps
  <1>3. rs \in Seq(Linked)
    <2>1. seed \in Seq(Records)
      BY <1>2, GatherReads, PickedFacts
    <2> HIDE DEF seed
    <2> QED BY <2>1, RelatedTo
  <1> HIDE DEF rs
  <1>4. items \in Seq(EvidenceSet) /\ AllFit(items, Scope, End)
    <2>1. /\ RelatedItems(rs) \in Seq(EvidenceSet)
          /\ \A e \in ToSet(RelatedItems(rs)) : e.id \in Linked
      BY <1>3, RelatedItemsOf
    <2> QED BY <2>1, ScopeAndTopic, LinkedFit
  <1> HIDE DEF items
  <1>5. Searched' = Searched
    BY <1>1 DEF Searched
  <1> HIDE DEF t
  <1> QED BY <1>1, <1>2, <1>4, <1>5, TopicGrows DEF t

\* A bucket is done: the next bucket, the next topic or the tasks
LEMMA CloseBucketTakes ==
  ASSUME RunInv, TakenOK, CloseBucket
  PROVE  TakenOK'
  <1> DEFINE t == Topics[topic]
             all == evidence[t]
             lastBucket == bucket = Len(Ages)
             lastTopic == topic = Len(Topics)
             next(u) == IF u = t THEN IF lastBucket THEN Deduplicate(all) ELSE all
                        ELSE IF lastBucket /\ ~lastTopic /\ u = Topics[topic + 1]
                             THEN SessionEvidence(store, loaded, u)
                        ELSE evidence[u]
  <1>1. /\ pc = "relate"
        /\ bucket' = IF lastBucket THEN 1 ELSE bucket + 1
        /\ topic' = IF lastBucket /\ ~lastTopic THEN topic + 1 ELSE topic
        /\ evidence' = [u \in DOMAIN evidence |-> next(u)]
        /\ pc' = IF ~(lastBucket /\ lastTopic) THEN "recall"
                  ELSE IF tasks' = <<>> THEN "assemble" ELSE "reason"
        /\ UNCHANGED <<store, moved, loaded, level>>
    BY DEF CloseBucket, storeVars
  <1>2. Gathering
    BY <1>1 DEF Gathering
  <1>3. /\ store \in StoreSet /\ evidence \in [ToSet(Topics) -> Seq(EvidenceSet)] /\ SessionOK
        /\ topic \in DOMAIN Topics /\ bucket \in DOMAIN Ages /\ bucket \in Nat \ {0} /\ End \in Int
        /\ loaded \in Seq(Records) /\ direct \in Seq(Records)
        /\ Holds(t, Searched) /\ \A u \in ToSet(Topics) : Past(u) => Complete(u)
    BY <1>2, WhileGathering
  <1>4. t \in ToSet(Topics)
    BY <1>3, TopicFacts
  <1>5. all \in Seq(EvidenceSet) /\ AllFit(all, Scope, End)
    BY <1>3, <1>4 DEF Holds
  <1>6. \A u \in ToSet(Topics) : evidence'[u] = next(u)
    BY <1>1, <1>3
  <1> DEFINE distinct == Deduplicate(all)
  <1> HIDE DEF all
  <1>7. \A b \in 1..bucket : Covered(store, moved, all, t, b, Scope, End)
    <2>1. Searched = 1..bucket
      BY <1>1 DEF Searched
    <2>2. \A b \in Searched : Covered(store, moved, evidence[t], t, b, Scope, End)
      BY <1>3 DEF Holds
    <2> QED BY <2>1, <2>2 DEF all
  <1>8. Once(distinct) /\ AllFit(distinct, Scope, End) /\ IdsIn(distinct) = IdsIn(all)
    <2>1. /\ ToSet(distinct) \subseteq ToSet(all) /\ IdsIn(distinct) = IdsIn(all)
          /\ \A i, j \in DOMAIN distinct : i # j => distinct[i].id # distinct[j].id
      BY <1>5, DeduplicateFacts
    <2> HIDE DEF distinct
    <2> QED BY <1>5, <2>1 DEF Once, AllFit
  <1>9. lastBucket => \A b \in DOMAIN Ages : Covered(store, moved, distinct, t, b, Scope, End)
    <2>1. lastBucket => DOMAIN Ages = 1..bucket
      BY TopicFacts
    <2>2. \A b \in 1..bucket : Covered(store, moved, distinct, t, b, Scope, End)
      <3> HIDE DEF distinct
      <3> QED BY <1>7, <1>8, MoreCovers
    <2> QED BY <2>1, <2>2
  <1> HIDE DEF distinct
  <1>10. End' = End /\ Scope' = Scope
    BY <1>1 DEF End, Scope
  <1>11. SessionOK' /\ level' = 0 /\ PartOK'
    <2>1. SessionOK'
      BY <1>1, <1>3, <1>10 DEF SessionOK
    <2>2. level' = 0
      BY <1>1 DEF RunInv, AskingOK
    <2>3. pc' # "merge"
      BY <1>1
    <2> QED BY <2>1, <2>2, <2>3 DEF PartOK
  <1>12. PICK present : present = t
    OBVIOUS
  <1>13. lastBucket => Complete(present)'
    <2> SUFFICES ASSUME lastBucket PROVE Complete(present)'
      OBVIOUS
    <2>1. evidence'[present] = distinct
      BY <1>4, <1>6, <1>12 DEF distinct
    <2> QED BY <1>1, <1>8, <1>9, <1>10, <1>12, <2>1 DEF Complete, Holds
  <1>14. ASSUME NEW u \in ToSet(Topics), Past(u), lastBucket /\ ~lastTopic => u # Topics[topic + 1]
         PROVE  Complete(u)'
    <2>1. Complete(u) /\ u # t
      BY <1>3, <1>14 DEF Past
    <2>2. evidence'[u] = evidence[u]
      BY <1>6, <1>14, <2>1
    <2> QED BY <1>1, <1>10, <2>1, <2>2 DEF Complete, Holds
  <1>15. CASE ~lastBucket
    <2>1. pc' = "recall" /\ topic' = topic /\ bucket' = bucket + 1 /\ evidence'[present] = all
      BY <1>1, <1>4, <1>6, <1>12, <1>15
    <2>2. Searched' = 1..bucket
      BY <1>3, <1>11, <2>1 DEF Searched
    <2>3. Topics[topic'] = present
      BY <1>12, <2>1
    <2>4. Holds(Topics[topic], Searched)'
      BY <1>1, <1>5, <1>7, <1>10, <1>12, <2>1, <2>2, <2>3 DEF Holds
    <2>5. \A u \in ToSet(Topics) : Past(u)' => Complete(u)'
      BY <1>14, <1>15, <2>1 DEF Past
    <2>6. ~Prepared'
      BY <2>1 DEF Prepared
    <2> QED BY <1>11, <2>4, <2>5, <2>6 DEF TakenOK
  <1>16. CASE lastBucket /\ ~lastTopic
    <2>1. pc' = "recall" /\ topic' = topic + 1 /\ bucket' = 1
      BY <1>1, <1>16
    <2>2. topic + 1 \in DOMAIN Topics /\ topic \in Nat
      BY <1>3, <1>16, TopicFacts
    <2>3. PICK following \in ToSet(Topics) : following = Topics[topic + 1]
      BY <2>2, TopicFacts
    <2>4. AllFit(evidence'[following], Scope, End)
      <3>1. CASE following = t
        <4>1. evidence'[following] = distinct
          BY <1>6, <1>16, <3>1 DEF distinct
        <4> QED BY <1>8, <4>1
      <3>2. CASE following # t
        <4>1. evidence'[following] = SessionEvidence(store, loaded, following)
          BY <1>6, <1>16, <2>3, <3>2
        <4>2. \A n \in DOMAIN loaded : store[loaded[n]].time <= End
          BY <1>3 DEF SessionOK
        <4> QED BY <1>3, <4>1, <4>2, SessionFits
      <3> QED BY <3>1, <3>2
    <2>5. Searched' = {} /\ Topics[topic'] = following /\ ~Prepared'
      BY <1>11, <2>1, <2>3 DEF Searched, Prepared
    <2>6. Holds(Topics[topic], Searched)'
      BY <1>10, <2>4, <2>5 DEF Holds
    <2>7. \A u \in ToSet(Topics) : Past(u)' => Complete(u)'
      <3>1. ASSUME NEW u \in ToSet(Topics), Past(u)' PROVE Complete(u)'
        <4>1. u # following /\ \E i \in 1..topic : Topics[i] = u
          BY <2>1, <2>2, <2>5, <3>1 DEF Past
        <4>2. u = present \/ Past(u)
          BY <1>12, <2>2, <4>1 DEF Past
        <4> QED BY <1>13, <1>14, <1>16, <2>3, <4>1, <4>2
      <3> QED BY <3>1
    <2> QED BY <1>11, <2>5, <2>6, <2>7 DEF TakenOK
  <1>17. CASE lastBucket /\ lastTopic
    <2>1. pc' \in {"assemble", "reason"} /\ ~Gathering'
      BY <1>1, <1>17 DEF Gathering
    <2>2. ASSUME NEW u \in ToSet(Topics) PROVE Complete(u)'
      <3>1. PICK i \in DOMAIN Topics : Topics[i] = u
        BY DEF ToSet
      <3>2. i = topic \/ i \in 1..(topic - 1)
        BY <1>3, <1>17, <3>1, TopicFacts
      <3>3. u = present \/ Past(u)
        BY <1>12, <3>1, <3>2 DEF Past
      <3> QED BY <1>13, <1>14, <1>17, <3>3
    <2> QED BY <1>11, <2>1, <2>2 DEF TakenOK
  <1> QED BY <1>15, <1>16, <1>17

\* Every step keeps what was gathered
LEMMA TakenNext == RouterInv /\ RunInv /\ TakenOK /\ [Next]_vars => TakenOK'
  <1> SUFFICES ASSUME RouterInv, RunInv, TakenOK, [Next]_vars PROVE TakenOK'
    OBVIOUS
  <1>1. CASE Load \/ GatherSteps \/ Move
    BY <1>1, LoadTakes, SearchEpisodesTakes, RecallBucketTakes, ExpandBucketTakes,
       RelateGroupTakes, CloseBucketTakes, MoveKeepsTaken DEF GatherSteps
  <1>2. CASE LoadRaises \/ PrepareFails \/ ClientTimeout \/ AssembleRaises \/ Retry
    <2>1. pc' \in {"idle", "failed"}
      BY <1>2 DEF LoadRaises, PrepareFails, ClientTimeout, AssembleRaises, Retry, Fail
    <2> QED BY <2>1, NothingTaken
  <1> DEFINE Still == UNCHANGED <<store, moved, loaded, topic, bucket, level, part, evidence>>
  <1>3. ASSUME NEW a \in Answers, Answered(a), pc \in {"reason", "waiting"}
        PROVE  Prepared /\ Prepared'
    BY <1>3 DEF Answered, Prepared
  <1>4. CASE AnswerMcp
    <2>1. Still /\ Prepared /\ Prepared'
      BY <1>3, <1>4 DEF AnswerMcp, storeVars, runVars
    <2> QED BY <2>1, TakenKept
  <1>5. CASE CallRouter \/ AssembleAndGate
    <2>1. Still /\ Prepared /\ Prepared'
      BY <1>5 DEF CallRouter, AssembleAndGate, storeVars, runVars, gatherVars, Prepared
    <2> QED BY <2>1, TakenKept
  <1>6. CASE Serve
    <2>1. (Still /\ pc' = pc) \/ pc' = "failed"
      BY <1>6 DEF Serve, storeVars, runVars, Fail
    <2> QED BY <2>1, TakenKept, NothingTaken
  <1>7. CASE ModelFails
    <2>1. (Still /\ pc' = pc) \/ pc' = "failed"
      BY <1>7 DEF ModelFails, storeVars, runVars, Fail
    <2> QED BY <2>1, TakenKept, NothingTaken
  <1>8. CASE Tick \/ UNCHANGED vars
    <2>1. Still /\ pc' = pc
      BY <1>8 DEF Tick, vars, storeVars, runVars
    <2> QED BY <2>1, TakenKept
  <1>9. CASE ModelAnswers
    <2>1. Still /\ ((pc' = pc) \/ (Prepared /\ Prepared'))
      <3>1. Still
        BY <1>9 DEF ModelAnswers, storeVars, runVars
      <3>2. CASE call.client
        <4>1. pc = "waiting"
          BY <3>2 DEF RouterInv, ClientOK
        <4>2. \E a \in Answers : Answered(a)
          BY <1>9, <3>2 DEF ModelAnswers
        <4> QED BY <1>3, <3>1, <4>1, <4>2
      <3>3. CASE ~call.client
        BY <1>9, <3>1, <3>3 DEF ModelAnswers
      <3> QED BY <3>2, <3>3
    <2> QED BY <2>1, TakenKept
  <1> QED BY <1>1, <1>2, <1>4, <1>5, <1>6, <1>7, <1>8, <1>9 DEF Next, GatherSteps

(* However the store moves while a run gathers, its evidence is exact: each id *)
(* once under a topic, nothing of another project, nothing later than the      *)
(* session but by a reviewed relation, and every record that stayed and that   *)
(* fewer than a bucket's limit beat (prepare_request, engine.py).              *)
THEOREM GatheringIsExact == Spec => []EvidenceExact
  <1> DEFINE Inv == RouterInv /\ RunInv /\ TakenOK
  <1>1. Init => TakenOK
    BY DEF Init, TakenOK, PartOK, Gathering, Prepared
  <1>2. Init => Inv
    BY <1>1, RouterStart, RunStart
  <1>3. Inv /\ [Next]_vars => Inv'
    BY RouterNext, RunNext, TakenNext
  <1>4. Inv => EvidenceExact
    BY TakenIsExact
  <1> HIDE DEF Inv
  <1> QED BY <1>2, <1>3, <1>4, PTL DEF Spec
=============================================================================
