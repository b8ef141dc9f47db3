-------------------------- MODULE DreamReview_proof --------------------------
(***************************************************************************)
(* Theorems about DreamReview for every number of runs, candidates,        *)
(* reviewers, listing clients, other writers, rescues and stops.           *)
(***************************************************************************)
EXTENDS DreamReview, FiniteSetTheorems, SequenceTheorems, TLAPS

Contents == {ContentOf[c] : c \in Cands} \cup OtherContents
Versions == [content: Contents, by: Cands \cup {Other}]
AnyDomain == Domains \cup {NoDomain}

(***************************************************************************)
(* The invariant.                                                          *)
(***************************************************************************)
StateType ==
  /\ run \in [Runs -> {"none", "processing", "evaluated", "failed"}]
  /\ stamp \in [Runs -> Nat]
  /\ decision \in [Cands -> Decisions \cup {"none"}]
  /\ review \in [Cands -> {"none", "approved", "rejected"}]
  /\ row \in [Cands -> Rows]
  /\ hist \in [Identities -> Seq(Versions)]
  /\ wpc \in {"idle", "evaluate", "write", "record"}
  /\ wloc \in [run: Runs \cup {NoWork.run}, at: Nat, results: Seq(Rows)]
  /\ rpc \in [Reviewers -> {"idle", "resolve", "check", "write", "record"}]
  /\ rloc \in [Reviewers -> [cand: Cands \cup {Other}, resolution: {"none", "approved", "rejected"},
                             domain: AnyDomain, result: Rows]]
  /\ spc \in {"idle", "write", "record"}
  /\ sloc \in [todo: SUBSET Cands, cand: Cands \cup {Other}, result: Rows]
  /\ lister \in [ListClients -> [pc: {"idle", "paging", "done"}, cursor: Cands \cup {Other},
                                 seen: SUBSET Cands, twice: BOOLEAN, due: SUBSET Cands]]

\* The candidates of a run are decided when it is evaluated, together
RunsOK == \A r \in Runs : \A c \in CandsIn(r) : run[r] # "evaluated" => decision[c] = "none"

\* A resolution is of a candidate that was held for review
ReviewsOK == \A c \in Cands : review[c] # "none" => decision[c] = "review"

\* What the worker is at, and which of the run's candidates it has results for
WorkerOK == wpc # "idle" =>
  /\ wloc.run \in Runs /\ wloc.at \in 1..(Len(CandsOf[wloc.run]) + 1)
  /\ wpc = "evaluate" => run[wloc.run] = "processing"
  /\ wpc \in {"write", "record"} => run[wloc.run] = "evaluated"
  /\ wpc = "write" => Len(wloc.results) = wloc.at - 1
  /\ wpc = "record" => Len(wloc.results) = Len(CandsOf[wloc.run])
  /\ wpc = "evaluate" => wloc.at = 1 /\ wloc.results = <<>>

\* A call that got past its check is about a candidate resolved that way
ReviewerOK(v) ==
  /\ rpc[v] # "idle" => rloc[v].cand \in Cands /\ rloc[v].resolution # "none"
  /\ rpc[v] \in {"check", "write", "record"} => review[rloc[v].cand] = rloc[v].resolution
  /\ rpc[v] \in {"write", "record"} => rloc[v].resolution = "approved"

\* What the rescue script writes was approved
RescueOK == /\ \A c \in sloc.todo : review[c] = "approved"
            /\ spc = "record" => sloc.cand \in Cands

\* A row that says written names a version with the candidate's content
GoodIn(c, rw, h) == rw.status = "written" =>
  /\ rw.key \in Identities /\ rw.version \in 1..Len(h[rw.key])
  /\ h[rw.key][rw.version].content = ContentOf[c]

\* ... the rows, the results the worker keeps in memory, and what a reviewer's
\* call and the script are about to record
TableGood == \A c \in Cands : GoodIn(c, row[c], hist)
ResultsGood == wpc # "idle" =>
  \A n \in 1..Len(wloc.results) : GoodIn(CandsOf[wloc.run][n], wloc.results[n], hist)
CallGood(v) == rpc[v] = "record" => GoodIn(rloc[v].cand, rloc[v].result, hist)
ScriptGood == spc = "record" => GoodIn(sloc.cand, sloc.result, hist)
RowsOK == TableGood /\ ResultsGood /\ (\A v \in Reviewers : CallGood(v)) /\ ScriptGood

\* The decisions that allow a candidate to become Knowledge
Allowed(c) == decision[c] = "promote" \/ (decision[c] = "review" /\ review[c] = "approved")

Traced == \A c \in Cands : BecameKnowledge(c) => Allowed(c)

CallsOK == RunsOK /\ ReviewsOK /\ WorkerOK /\ (\A v \in Reviewers : ReviewerOK(v)) /\ RescueOK

(***************************************************************************)
(* The invariant of a client that pages through the pending reviews.       *)
(***************************************************************************)
\* A run has a stamp when it was evaluated, later runs have larger ones
Stamped == {q \in Runs : stamp[q] > 0}
StampsOK ==
  /\ \A r \in Runs : stamp[r] > 0 <=> run[r] = "evaluated"
  /\ \A r \in Runs : stamp[r] <= Cardinality(Stamped)
  /\ \A r, q \in Stamped : stamp[r] = stamp[q] => r = q

\* The client saw every due review up to its cursor, and none beyond
ListerOK(l) ==
  /\ ~lister[l].twice
  /\ \A c \in lister[l].seen \cup lister[l].due : decision[c] # "none"
  /\ lister[l].pc = "idle" => lister[l].seen = {}
  /\ lister[l].cursor = Other => lister[l].seen = {}
  /\ lister[l].cursor # Other => lister[l].cursor \in lister[l].seen
  /\ \A c \in lister[l].seen : c = lister[l].cursor \/ Earlier(c, lister[l].cursor)
  /\ lister[l].pc = "paging" => \A c \in (lister[l].due \cap PendingReviews) \ lister[l].seen :
       lister[l].cursor # Other => Earlier(lister[l].cursor, c)
  /\ lister[l].pc = "done" => lister[l].due \cap PendingReviews \subseteq lister[l].seen

ListingOK == StampsOK /\ \A l \in ListClients : ListerOK(l)

IInv == StateType /\ CallsOK /\ RowsOK /\ Traced /\ ListingOK

-----------------------------------------------------------------------------
(***************************************************************************)
(* The candidates of a run, and the order of the listing.                  *)
(***************************************************************************)

\* Every candidate has one run, and is at one place of it.
LEMMA CandPlace ==
  \A c \in Cands : /\ RunOf(c) \in Runs
                   /\ IndexOf(c) \in 1..Len(CandsOf[RunOf(c)])
                   /\ CandsOf[RunOf(c)][IndexOf(c)] = c
<1> SUFFICES ASSUME NEW c \in Cands
             PROVE  /\ RunOf(c) \in Runs
                    /\ IndexOf(c) \in 1..Len(CandsOf[RunOf(c)])
                    /\ CandsOf[RunOf(c)][IndexOf(c)] = c
  OBVIOUS
<1>1. \E r \in Runs : \E n \in 1..Len(CandsOf[r]) : CandsOf[r][n] = c
  BY CandsOfAssumption
<1>2. RunOf(c) \in Runs /\ \E n \in 1..Len(CandsOf[RunOf(c)]) : CandsOf[RunOf(c)][n] = c
  BY <1>1 DEF RunOf
<1> QED BY <1>2 DEF IndexOf

\* The candidates of a run are those whose run it is.
LEMMA CandsInRun ==
  ASSUME NEW r \in Runs
  PROVE  /\ CandsIn(r) \subseteq Cands
         /\ \A n \in 1..Len(CandsOf[r]) : CandsOf[r][n] \in CandsIn(r)
         /\ \A c \in Cands : c \in CandsIn(r) <=> r = RunOf(c)
<1>0. CandsOf[r] \in Seq(Cands) BY CandsOfAssumption
<1>1. CandsIn(r) \subseteq Cands
  BY <1>0, ElementOfSeq DEF CandsIn
<1>2. \A n \in 1..Len(CandsOf[r]) : CandsOf[r][n] \in CandsIn(r)
  BY DEF CandsIn
<1>3. ASSUME NEW c \in Cands PROVE c \in CandsIn(r) <=> r = RunOf(c)
  <2>1. RunOf(c) \in Runs /\ IndexOf(c) \in 1..Len(CandsOf[RunOf(c)])
        /\ CandsOf[RunOf(c)][IndexOf(c)] = c
    BY CandPlace
  <2>2. ASSUME r = RunOf(c) PROVE c \in CandsIn(r)
    BY <2>1, <2>2 DEF CandsIn
  <2>3. ASSUME c \in CandsIn(r) PROVE r = RunOf(c)
    <3>1. PICK m \in 1..Len(CandsOf[r]) : CandsOf[r][m] = c BY <2>3 DEF CandsIn
    <3> QED BY <3>1, <2>1, CandsOfAssumption
  <2> QED BY <2>2, <2>3
<1> QED BY <1>1, <1>2, <1>3

-----------------------------------------------------------------------------
(***************************************************************************)
(* What a write does to Knowledge.                                         *)
(***************************************************************************)
Histories == [Identities -> Seq(Versions)]
Grows(g, h) == \A k \in Identities :
  Len(g[k]) <= Len(h[k]) /\ \A n \in 1..Len(g[k]) : h[k][n] = g[k][n]

\* A store only adds versions, at most one, and leaves a head with its content.
LEMMA StoreEffect ==
  ASSUME hist \in Histories, NEW k \in Identities, NEW x \in Contents,
         NEW by \in Cands \cup {Other}, NEW h, h = Evolve(k, x, by)
  PROVE  /\ h \in Histories /\ Grows(hist, h)
         /\ \A i \in Identities : \A n \in 1..Len(h[i]) : n \in 1..Len(hist[i]) \/ h[i][n].by = by
         /\ Len(h[k]) \in 1..Len(h[k]) /\ h[k][Len(h[k])].content = x
<1>0. \A i \in Identities : hist[i] \in Seq(Versions) BY DEF Histories
<1>1. CASE hist[k] # <<>> /\ Last(hist[k]).content = x
  <2>1. h = hist BY <1>1 DEF Evolve
  <2>2. Len(hist[k]) \in Nat /\ Len(hist[k]) # 0 BY <1>0, <1>1, LenProperties, EmptySeq
  <2>3. hist[k][Len(hist[k])].content = x BY <1>1 DEF Last
  <2>4. \A i \in Identities : Len(hist[i]) \in Nat BY <1>0, LenProperties
  <2> QED BY <2>1, <2>2, <2>3, <2>4 DEF Grows
<1>2. CASE ~(hist[k] # <<>> /\ Last(hist[k]).content = x)
  <2> DEFINE ver == [content |-> x, by |-> by]
  <2>1. ver \in Versions BY DEF Versions
  <2>2. h = [hist EXCEPT ![k] = Append(hist[k], ver)] BY <1>2 DEF Evolve
  <2>3. ver.by = by /\ ver.content = x OBVIOUS
  <2> HIDE DEF ver
  <2>4. /\ Append(hist[k], ver) \in Seq(Versions)
        /\ Len(Append(hist[k], ver)) = Len(hist[k]) + 1
        /\ \A n \in 1..Len(hist[k]) : Append(hist[k], ver)[n] = hist[k][n]
        /\ Append(hist[k], ver)[Len(hist[k]) + 1] = ver
    BY <1>0, <2>1, AppendProperties
  <2>5. h \in Histories /\ h[k] = Append(hist[k], ver)
        /\ \A i \in Identities \ {k} : h[i] = hist[i]
    BY <2>2, <2>4 DEF Histories
  <2>6. \A i \in Identities : Len(hist[i]) \in Nat BY <1>0, LenProperties
  <2>7. Grows(hist, h)
    BY <2>4, <2>5, <2>6 DEF Grows
  <2>8. \A i \in Identities : \A n \in 1..Len(h[i]) : n \in 1..Len(hist[i]) \/ h[i][n].by = by
    BY <2>3, <2>4, <2>5, <2>6
  <2>9. Len(h[k]) \in 1..Len(h[k]) /\ h[k][Len(h[k])].content = x
    BY <2>3, <2>4, <2>5, <2>6
  <2> QED BY <2>5, <2>7, <2>8, <2>9
<1> QED BY <1>1, <1>2

\* The checks before a store: what is written was promoted and has an identity.
LEMMA OutcomeMeaning ==
  ASSUME NEW c \in Cands, NEW dec, NEW domain \in AnyDomain
  PROVE  /\ Outcome(c, dec, domain) \in WriteStatus
         /\ Outcome(c, dec, domain) = "written" =>
              dec = "promote" /\ KeyOf(c, domain) \in Identities
<1>1. KeyOf(c, domain)[2] \in Domains \cup {NoDomain}
  BY DataAssumption DEF KeyOf, AnyDomain
<1>2. KeyOf(c, domain) = <<EntityOf[c], KeyOf(c, domain)[2]>> BY DEF KeyOf
<1>3. Outcome(c, dec, domain) \in WriteStatus BY DEF Outcome, WriteStatus
<1>4. Outcome(c, dec, domain) = "written" => dec = "promote" /\ KeyOf(c, domain)[2] # NoDomain
  BY DEF Outcome
<1> QED BY <1>1, <1>2, <1>3, <1>4 DEF Identities

\* A write only adds versions, only of a promoted candidate, and the row that
\* describes it is true.
LEMMA WriteEffect ==
  ASSUME hist \in Histories, NEW c \in Cands, NEW dec, NEW domain \in AnyDomain,
         NEW h, h = AfterWrite(c, dec, domain)
  PROVE  /\ h \in Histories /\ Grows(hist, h)
         /\ \A i \in Identities : \A n \in 1..Len(h[i]) :
              n \in 1..Len(hist[i]) \/ (h[i][n].by = c /\ dec = "promote")
         /\ RowFor(c, dec, domain, h) \in Rows
         /\ GoodIn(c, RowFor(c, dec, domain, h), h)
<1> DEFINE k == KeyOf(c, domain)
           o == Outcome(c, dec, domain)
<1>0. o \in WriteStatus /\ (o = "written" => dec = "promote" /\ k \in Identities)
  BY OutcomeMeaning
<1>1. CASE o = "written"
  <2>1. h = Evolve(k, ContentOf[c], c) BY <1>1 DEF AfterWrite
  <2>2. ContentOf[c] \in Contents BY DEF Contents
  <2>3. /\ h \in Histories /\ Grows(hist, h)
        /\ \A i \in Identities : \A n \in 1..Len(h[i]) : n \in 1..Len(hist[i]) \/ h[i][n].by = c
        /\ Len(h[k]) \in 1..Len(h[k]) /\ h[k][Len(h[k])].content = ContentOf[c]
    <3> HIDE DEF k
    <3> QED BY <1>0, <1>1, <2>1, <2>2, StoreEffect
  <2>4. RowFor(c, dec, domain, h) = [status |-> "written", key |-> k, version |-> Len(h[k])]
    BY <1>1 DEF RowFor
  <2> HIDE DEF k, o
  <2>5. Len(h[k]) \in Nat BY <2>3
  <2>6. RowFor(c, dec, domain, h) \in Rows BY <1>0, <1>1, <2>4, <2>5 DEF Rows, WriteStatus
  <2>7. GoodIn(c, RowFor(c, dec, domain, h), h) BY <1>0, <1>1, <2>3, <2>4 DEF GoodIn
  <2> QED BY <1>0, <1>1, <2>3, <2>6, <2>7
<1>2. CASE o # "written"
  <2>1. h = hist BY <1>2 DEF AfterWrite
  <2>2. RowFor(c, dec, domain, h) = [status |-> o, key |-> NoKey, version |-> 0]
    BY <1>2 DEF RowFor
  <2> HIDE DEF k, o
  <2>3. RowFor(c, dec, domain, h) \in Rows BY <1>0, <2>2 DEF Rows
  <2>4. GoodIn(c, RowFor(c, dec, domain, h), h) BY <1>2, <2>2 DEF GoodIn
  <2>5. Grows(hist, h)
    <3>1. \A i \in Identities : Len(hist[i]) \in Nat BY LenProperties DEF Histories
    <3> QED BY <2>1, <3>1 DEF Grows
  <2> QED BY <2>1, <2>3, <2>4, <2>5
<1> QED BY <1>1, <1>2

\* A row that is true of Knowledge stays true when Knowledge grows.
LEMMA GoodStays ==
  ASSUME NEW g \in Histories, NEW h \in Histories, Grows(g, h), NEW c, NEW rw, GoodIn(c, rw, g)
  PROVE  GoodIn(c, rw, h)
<1>1. \A k \in Identities : Len(g[k]) \in Nat /\ Len(h[k]) \in Nat
  BY LenProperties DEF Histories
<1> QED BY <1>1 DEF GoodIn, Grows

-----------------------------------------------------------------------------
(***************************************************************************)
(* What a step does to Knowledge.                                          *)
(***************************************************************************)

\* The worker in the middle of a run is at one of its candidates.
LEMMA WorkerCand ==
  ASSUME StateType, WorkerOK, wpc # "idle", wloc.at <= Len(CandsOf[wloc.run])
  PROVE  /\ wloc.run \in Runs /\ wloc.at \in 1..Len(CandsOf[wloc.run])
         /\ CandsOf[wloc.run][wloc.at] \in Cands
<1>1. wloc.run \in Runs /\ wloc.at \in 1..(Len(CandsOf[wloc.run]) + 1) BY DEF WorkerOK
<1>2. CandsOf[wloc.run] \in Seq(Cands) BY <1>1, CandsOfAssumption
<1>3. Len(CandsOf[wloc.run]) \in Nat BY <1>2, LenProperties
<1>4. wloc.at \in 1..Len(CandsOf[wloc.run]) BY <1>1, <1>3
<1> QED BY <1>1, <1>2, <1>4, ElementOfSeq

\* Knowledge stays, grows by a write of a candidate that is allowed, or by a
\* store of another writer.
Kept(h) ==
  /\ h \in Histories /\ Grows(hist, h)
  /\ \A k \in Identities : \A n \in 1..Len(h[k]) :
       n \in 1..Len(hist[k]) \/ (h[k][n].by \in Cands => Allowed(h[k][n].by))

\* Knowledge that does not change is kept.
LEMMA KeptSame == StateType => Kept(hist)
<1> SUFFICES ASSUME StateType PROVE Kept(hist) OBVIOUS
<1>1. hist \in Histories BY DEF StateType, Histories
<1>2. \A k \in Identities : Len(hist[k]) \in Nat BY <1>1, LenProperties DEF Histories
<1> QED BY <1>1, <1>2 DEF Kept, Grows

\* A write of an allowed candidate keeps Knowledge.
LEMMA KeptWrite ==
  ASSUME StateType, NEW c \in Cands, NEW dec, NEW domain \in AnyDomain, dec = "promote" => Allowed(c)
  PROVE  Kept(AfterWrite(c, dec, domain))
<1> DEFINE h == AfterWrite(c, dec, domain)
<1>1. hist \in Histories BY DEF StateType, Histories
<1>2. /\ h \in Histories /\ Grows(hist, h)
      /\ \A i \in Identities : \A n \in 1..Len(h[i]) :
           n \in 1..Len(hist[i]) \/ (h[i][n].by = c /\ dec = "promote")
  BY <1>1, WriteEffect
<1> HIDE DEF h
<1>3. Kept(h) BY <1>2 DEF Kept
<1> QED BY <1>3 DEF h

\* A call that writes has the candidate and the domain it writes with.
LEMMA ReviewerCand ==
  ASSUME StateType, CallsOK, NEW v \in Reviewers, rpc[v] # "idle"
  PROVE  /\ rloc[v].cand \in Cands /\ rloc[v].domain \in AnyDomain
         /\ rpc[v] \in {"write", "record"} => Allowed(rloc[v].cand)
<1>1. rloc[v] \in [cand: Cands \cup {Other}, resolution: {"none", "approved", "rejected"},
                   domain: AnyDomain, result: Rows]
  BY DEF StateType
<1>2. ReviewerOK(v) /\ ReviewsOK BY DEF CallsOK
<1>3. rloc[v].cand \in Cands BY <1>2 DEF ReviewerOK
<1>4. ASSUME rpc[v] \in {"write", "record"} PROVE Allowed(rloc[v].cand)
  <2>1. review[rloc[v].cand] = "approved" BY <1>2, <1>4 DEF ReviewerOK
  <2>2. decision[rloc[v].cand] = "review" BY <1>2, <1>3, <2>1 DEF ReviewsOK
  <2> QED BY <2>1, <2>2 DEF Allowed
<1> QED BY <1>1, <1>3, <1>4

\* What the script has to do is of candidates that are allowed.
LEMMA RescueCand ==
  ASSUME StateType, CallsOK, NEW c \in sloc.todo
  PROVE  c \in Cands /\ RescueDomainOf[c] \in AnyDomain /\ Allowed(c)
<1>1. sloc.todo \subseteq Cands BY DEF StateType
<1>2. review[c] = "approved" BY DEF CallsOK, RescueOK
<1>3. decision[c] = "review" BY <1>1, <1>2 DEF CallsOK, ReviewsOK
<1> QED BY <1>1, <1>2, <1>3, DataAssumption DEF Allowed, AnyDomain

\* Whoever writes, Knowledge is kept.
LEMMA HistStep == StateType /\ CallsOK /\ [Next]_vars => Kept(hist')
<1> SUFFICES ASSUME StateType, CallsOK, [Next]_vars PROVE Kept(hist')
  OBVIOUS
<1>0. ASSUME hist' = hist PROVE Kept(hist')
  BY <1>0, KeptSame
<1>1. CASE WorkerStep \/ EvaluateFails
  <2>1. ASSUME WriteNext PROVE Kept(hist')
    <3> DEFINE c == CandsOf[wloc.run][wloc.at]
    <3>1. CASE wloc.at > Len(CandsOf[wloc.run])
      BY <2>1, <3>1, <1>0 DEF WriteNext
    <3>2. CASE ~(wloc.at > Len(CandsOf[wloc.run]))
      <4>1. hist' = AfterWrite(c, decision[c], NoDomain) /\ wpc = "write"
        BY <2>1, <3>2 DEF WriteNext
      <4>2. wloc.run \in Runs /\ wloc.at \in 1..(Len(CandsOf[wloc.run]) + 1) /\ WorkerOK
        BY <4>1 DEF CallsOK, WorkerOK
      <4>3. CandsOf[wloc.run] \in Seq(Cands) BY <4>2, CandsOfAssumption
      <4>4. Len(CandsOf[wloc.run]) \in Nat BY <4>3, LenProperties
      <4>5. wloc.at <= Len(CandsOf[wloc.run]) BY <3>2, <4>2, <4>4
      <4>6. c \in Cands BY <4>1, <4>2, <4>5, WorkerCand
      <4>7. NoDomain \in AnyDomain BY DEF AnyDomain
      <4>8. decision[c] = "promote" => Allowed(c) BY DEF Allowed
      <4> HIDE DEF c
      <4>9. Kept(AfterWrite(c, decision[c], NoDomain)) BY <4>6, <4>7, <4>8, KeptWrite
      <4> QED BY <4>1, <4>9
    <3> QED BY <3>1, <3>2
  <2>2. ASSUME ~WriteNext PROVE hist' = hist
    BY <1>1, <2>2 DEF WorkerStep, StartRun, Evaluate, RecordNext, EvaluateFails
  <2> QED BY <2>1, <2>2, <1>0
<1>2. CASE WorkerStops
  <2> DEFINE c == CandsOf[wloc.run][wloc.at]
  <2>1. hist' = hist \/ (/\ wpc = "write" /\ wloc.at <= Len(CandsOf[wloc.run])
                         /\ hist' = AfterWrite(c, decision[c], NoDomain))
    BY <1>2 DEF WorkerStops
  <2>2. ASSUME wpc = "write", wloc.at <= Len(CandsOf[wloc.run]),
               hist' = AfterWrite(c, decision[c], NoDomain)
        PROVE Kept(hist')
    <3>1. WorkerOK BY DEF CallsOK
    <3>2. c \in Cands BY <2>2, <3>1, WorkerCand
    <3>3. NoDomain \in AnyDomain BY DEF AnyDomain
    <3>4. decision[c] = "promote" => Allowed(c) BY DEF Allowed
    <3> HIDE DEF c
    <3>5. Kept(AfterWrite(c, decision[c], NoDomain)) BY <3>2, <3>3, <3>4, KeptWrite
    <3> QED BY <2>2, <3>5
  <2> QED BY <2>1, <2>2, <1>0
<1>3. ASSUME NEW v \in Reviewers, ReviewStep(v) \/ ReviewStops(v) PROVE Kept(hist')
  <2>1. hist' = hist \/ (rpc[v] = "write" /\ hist' = AfterWrite(rloc[v].cand, "promote", rloc[v].domain))
    BY <1>3 DEF ReviewStep, ReviewBegin, Resolve, CheckPrior, ReviewWrite, ReviewRecord, ReviewStops
  <2>2. ASSUME rpc[v] = "write" PROVE Kept(AfterWrite(rloc[v].cand, "promote", rloc[v].domain))
    <3>1. rloc[v].cand \in Cands /\ rloc[v].domain \in AnyDomain /\ Allowed(rloc[v].cand)
      BY <2>2, ReviewerCand
    <3> QED BY <3>1, KeptWrite
  <2> QED BY <2>1, <2>2, <1>0
<1>4. ASSUME RescueStep \/ \E c \in Cands : RescueRaises(c) PROVE Kept(hist')
  <2>1. hist' = hist \/ \E c \in sloc.todo : hist' = AfterWrite(c, "promote", RescueDomainOf[c])
    BY <1>4 DEF RescueStep, RescueSelect, RescueWrite, RescueRecord, RescueEnds, RescueRaises
  <2>2. ASSUME NEW c \in sloc.todo PROVE Kept(AfterWrite(c, "promote", RescueDomainOf[c]))
    <3>1. c \in Cands /\ RescueDomainOf[c] \in AnyDomain /\ Allowed(c) BY RescueCand
    <3> QED BY <3>1, KeptWrite
  <2> QED BY <2>1, <2>2, <1>0
<1>5. ASSUME NEW k \in Identities, NEW x \in OtherContents, OtherStore(k, x) PROVE Kept(hist')
  <2>1. hist' = Evolve(k, x, Other) BY <1>5 DEF OtherStore
  <2>2. hist \in Histories /\ x \in Contents BY DEF StateType, Histories, Contents
  <2>3. /\ hist' \in Histories /\ Grows(hist, hist')
        /\ \A i \in Identities : \A n \in 1..Len(hist'[i]) : n \in 1..Len(hist[i]) \/ hist'[i][n].by = Other
    BY <2>1, <2>2, StoreEffect
  <2> QED BY <2>3, DataAssumption DEF Kept
<1>6. ASSUME NEW l \in ListClients, ListBegin(l) \/ ListPage(l) PROVE hist' = hist
  BY <1>6 DEF ListBegin, ListPage, TakePage
<1>7. CASE UNCHANGED vars BY <1>0, <1>7 DEF vars
<1> QED BY <1>0, <1>1, <1>2, <1>3, <1>4, <1>5, <1>6, <1>7 DEF Next

-----------------------------------------------------------------------------
(***************************************************************************)
(* Types.                                                                  *)
(***************************************************************************)
WorkerState == [run: Runs \cup {NoWork.run}, at: Nat, results: Seq(Rows)]
CallState == [cand: Cands \cup {Other}, resolution: {"none", "approved", "rejected"},
              domain: AnyDomain, result: Rows]
ScriptState == [todo: SUBSET Cands, cand: Cands \cup {Other}, result: Rows]
ListerState == [pc: {"idle", "paging", "done"}, cursor: Cands \cup {Other},
                seen: SUBSET Cands, twice: BOOLEAN, due: SUBSET Cands]

\* The records of an actor that does nothing have their types.
LEMMA NothingTypes == NoRow \in Rows /\ NoWork \in WorkerState /\ Idle \in CallState
<1>1. NoRow \in Rows BY DEF NoRow, Rows
<1>2. <<>> \in Seq(Rows) BY EmptySeq
<1>3. NoWork \in WorkerState BY <1>2 DEF NoWork, WorkerState
<1>4. Idle \in CallState BY <1>1 DEF Idle, CallState, AnyDomain
<1> QED BY <1>1, <1>3, <1>4

\* The tables of the audit, the calls and the script start well typed.
LEMMA TypeInit == Init => StateType
<1> SUFFICES ASSUME Init PROVE StateType OBVIOUS
<1>1. NoRow \in Rows /\ NoWork \in WorkerState /\ Idle \in CallState BY NothingTypes
<1>2. /\ run \in [Runs -> {"none", "processing", "evaluated", "failed"}]
      /\ stamp \in [Runs -> Nat]
      /\ decision \in [Cands -> Decisions \cup {"none"}]
      /\ review \in [Cands -> {"none", "approved", "rejected"}]
      /\ row \in [Cands -> Rows]
  BY <1>1 DEF Init
<1>3. hist \in [Identities -> Seq(Versions)] BY EmptySeq DEF Init
<1>4. /\ wpc \in {"idle", "evaluate", "write", "record"} /\ wloc \in WorkerState
      /\ rpc \in [Reviewers -> {"idle", "resolve", "check", "write", "record"}]
      /\ rloc \in [Reviewers -> CallState]
      /\ spc \in {"idle", "write", "record"}
  BY <1>1 DEF Init
<1>5. sloc \in ScriptState BY <1>1 DEF Init, ScriptState
<1>6. lister \in [ListClients -> ListerState] BY DEF Init, ListerState
<1> QED BY <1>2, <1>3, <1>4, <1>5, <1>6
    DEF StateType, WorkerState, CallState, ScriptState, ListerState

\* The audit tables keep their types, and what they say of a step.
LEMMA AuditType ==
  ASSUME StateType, CallsOK, Next
  PROVE  /\ run' \in [Runs -> {"none", "processing", "evaluated", "failed"}]
         /\ stamp' \in [Runs -> Nat]
         /\ decision' \in [Cands -> Decisions \cup {"none"}]
         /\ review' \in [Cands -> {"none", "approved", "rejected"}]
<1> DEFINE Goal == /\ run' \in [Runs -> {"none", "processing", "evaluated", "failed"}]
                   /\ stamp' \in [Runs -> Nat]
                   /\ decision' \in [Cands -> Decisions \cup {"none"}]
                   /\ review' \in [Cands -> {"none", "approved", "rejected"}]
<1>1. /\ run \in [Runs -> {"none", "processing", "evaluated", "failed"}]
      /\ stamp \in [Runs -> Nat]
      /\ decision \in [Cands -> Decisions \cup {"none"}]
      /\ review \in [Cands -> {"none", "approved", "rejected"}]
      /\ rloc \in [Reviewers -> CallState]
  BY DEF StateType, CallState
<1>2. ASSUME UNCHANGED audit PROVE Goal
  BY <1>1, <1>2 DEF audit
<1>3. ASSUME NEW r \in Runs, StartRun(r) PROVE Goal
  BY <1>1, <1>3 DEF StartRun
<1>4. ASSUME Evaluate PROVE Goal
  <2>1. PICK d \in [CandsIn(wloc.run) -> Decisions] :
          decision' = [c \in Cands |-> IF c \in CandsIn(wloc.run) THEN d[c] ELSE decision[c]]
    BY <1>4 DEF Evaluate
  <2>2. wloc.run \in Runs BY <1>4 DEF Evaluate, CallsOK, WorkerOK
  <2>3. CandsIn(wloc.run) \subseteq Cands BY <2>2, CandsInRun
  <2>4. decision' \in [Cands -> Decisions \cup {"none"}]
    BY <1>1, <2>1, <2>3
  <2>5. IsFiniteSet({q \in Runs : stamp[q] > 0}) BY FS_Subset, DataAssumption
  <2>6. 1 + Cardinality({q \in Runs : stamp[q] > 0}) \in Nat BY <2>5, FS_CardinalityType
  <2>7. stamp' \in [Runs -> Nat] BY <1>1, <1>4, <2>6 DEF Evaluate
  <2>8. run' \in [Runs -> {"none", "processing", "evaluated", "failed"}] /\ review' = review
    BY <1>1, <1>4 DEF Evaluate
  <2> QED BY <1>1, <2>4, <2>7, <2>8
<1>5. ASSUME EvaluateFails PROVE Goal
  BY <1>1, <1>5 DEF EvaluateFails
<1>6. ASSUME NEW v \in Reviewers, Resolve(v) PROVE Goal
  <2>1. rloc[v].resolution \in {"none", "approved", "rejected"} BY <1>1 DEF CallState
  <2> QED BY <1>1, <1>6, <2>1 DEF Resolve
<1>7. ASSUME ~(\E r \in Runs : StartRun(r)), ~Evaluate, ~EvaluateFails, ~(\E v \in Reviewers : Resolve(v))
      PROVE  UNCHANGED audit
  BY <1>7 DEF Next, WorkerStep, ReviewStep, RescueStep, WriteNext, RecordNext, WorkerStops,
     ReviewBegin, CheckPrior, ReviewWrite, ReviewRecord, ReviewStops, RescueSelect, RescueWrite,
     RescueRecord, RescueEnds, RescueRaises, ListBegin, ListPage, TakePage, OtherStore, audit
<1> QED BY <1>2, <1>3, <1>4, <1>5, <1>6, <1>7

\* The rows keep their types, and the worker's state.
LEMMA WorkerType ==
  ASSUME StateType, CallsOK, Next
  PROVE  wpc' \in {"idle", "evaluate", "write", "record"} /\ wloc' \in WorkerState
<1> DEFINE Goal == wpc' \in {"idle", "evaluate", "write", "record"} /\ wloc' \in WorkerState
<1>1. wpc \in {"idle", "evaluate", "write", "record"} /\ wloc \in WorkerState
  BY DEF StateType, WorkerState
<1>2. ASSUME NEW r \in Runs, StartRun(r) PROVE Goal
  <2>1. <<>> \in Seq(Rows) BY EmptySeq
  <2> QED BY <1>2, <2>1 DEF StartRun, WorkerState
<1>3. ASSUME Evaluate PROVE Goal BY <1>1, <1>3 DEF Evaluate
<1>4. ASSUME EvaluateFails \/ WorkerStops PROVE Goal
  BY <1>4, NothingTypes DEF EvaluateFails, WorkerStops
<1>5. ASSUME WriteNext PROVE Goal
  <2> DEFINE w == wloc
             c == CandsOf[w.run][w.at]
             rw == RowFor(c, decision[c], NoDomain, hist')
             n == w.at + 1
             rs == Append(w.results, rw)
             new == [w EXCEPT !.at = n, !.results = rs]
  <2>1. w.at \in Nat /\ w.results \in Seq(Rows) /\ n \in Nat BY <1>1 DEF WorkerState
  <2>2. CASE wloc.at > Len(CandsOf[wloc.run])
    BY <1>1, <1>5, <2>2 DEF WriteNext, WorkerState
  <2>3. CASE ~(wloc.at > Len(CandsOf[wloc.run]))
    <3>1. wloc' = new /\ wpc' = wpc /\ wpc = "write" /\ hist' = AfterWrite(c, decision[c], NoDomain)
      BY <1>5, <2>3 DEF WriteNext
    <3>2. wloc.run \in Runs /\ WorkerOK BY <3>1 DEF CallsOK, WorkerOK
    <3>3. Len(CandsOf[wloc.run]) \in Nat BY <3>2, CandsOfAssumption, LenProperties
    <3>4. wloc.at <= Len(CandsOf[wloc.run]) BY <2>1, <2>3, <3>3
    <3>5. c \in Cands BY <3>1, <3>2, <3>4, WorkerCand
    <3>6. NoDomain \in AnyDomain /\ hist \in Histories BY DEF AnyDomain, StateType, Histories
    <3>7. rw \in Rows
      <4> HIDE DEF c
      <4> QED BY <3>1, <3>5, <3>6, WriteEffect
    <3>8. rs \in Seq(Rows)
      <4> HIDE DEF rw, w
      <4> QED BY <2>1, <3>7, AppendProperties
    <3> HIDE DEF rs, n
    <3>9. new \in WorkerState BY <1>1, <2>1, <3>8 DEF WorkerState
    <3> QED BY <1>1, <3>1, <3>9
  <2> QED BY <2>2, <2>3
<1>6. ASSUME RecordNext PROVE Goal
  <2> DEFINE n == wloc.at + 1
             new == [wloc EXCEPT !.at = n]
  <2>1. n \in Nat BY <1>1 DEF WorkerState
  <2>2. (wpc' = "idle" /\ wloc' = NoWork) \/ (wpc' = wpc /\ wloc' = new)
    BY <1>6 DEF RecordNext
  <2> HIDE DEF n
  <2>3. new \in WorkerState BY <1>1, <2>1 DEF WorkerState
  <2> QED BY <1>1, <2>2, <2>3, NothingTypes
<1>7. ASSUME ~WorkerStep, ~EvaluateFails, ~WorkerStops
      PROVE  UNCHANGED <<wpc, wloc>>
  BY <1>7 DEF Next, ReviewStep, RescueStep, Resolve,
     ReviewBegin, CheckPrior, ReviewWrite, ReviewRecord, ReviewStops, RescueSelect, RescueWrite,
     RescueRecord, RescueEnds, RescueRaises, ListBegin, ListPage, TakePage, OtherStore
<1> QED BY <1>1, <1>2, <1>3, <1>4, <1>5, <1>6, <1>7 DEF WorkerStep

\* The rows and the calls of the reviewers keep their types.
LEMMA ReviewerType ==
  ASSUME StateType, CallsOK, Next
  PROVE  /\ row' \in [Cands -> Rows]
         /\ rpc' \in [Reviewers -> {"idle", "resolve", "check", "write", "record"}]
         /\ rloc' \in [Reviewers -> CallState]
<1> DEFINE Rpc == [Reviewers -> {"idle", "resolve", "check", "write", "record"}]
           Goal == row' \in [Cands -> Rows] /\ rpc' \in Rpc /\ rloc' \in [Reviewers -> CallState]
<1>1. row \in [Cands -> Rows] /\ rpc \in Rpc /\ rloc \in [Reviewers -> CallState]
  BY DEF StateType, CallState
<1>2. ASSUME NEW v \in Reviewers, rpc' = rpc \/ (\E l \in {"idle", "resolve", "check", "write", "record"} :
                                             rpc' = [rpc EXCEPT ![v] = l])
      PROVE  rpc' \in Rpc
  BY <1>1, <1>2
<1>3. ASSUME NEW v \in Reviewers, rloc' = rloc \/ rloc' = [rloc EXCEPT ![v] = Idle]
      PROVE  rloc' \in [Reviewers -> CallState]
  BY <1>1, <1>3, NothingTypes
<1>4. ASSUME NEW v \in Reviewers, NEW c \in Cands, NEW res \in {"approved", "rejected"},
             NEW d \in Domains \cup {NoDomain}, ReviewBegin(v, c, res, d)
      PROVE  Goal
  <2> DEFINE new == [cand |-> c, resolution |-> res, domain |-> d, result |-> NoRow]
  <2>1. new \in CallState BY NothingTypes DEF CallState, AnyDomain
  <2>2. rloc' = rloc \/ rloc' = [rloc EXCEPT ![v] = new] BY <1>4 DEF ReviewBegin
  <2> HIDE DEF new
  <2>3. rloc' \in [Reviewers -> CallState] BY <1>1, <2>1, <2>2
  <2>4. rpc' \in Rpc /\ row' = row BY <1>1, <1>4 DEF ReviewBegin, GotoR
  <2> QED BY <1>1, <2>3, <2>4
<1>5. ASSUME NEW v \in Reviewers, Resolve(v) \/ CheckPrior(v) \/ ReviewStops(v) PROVE Goal
  <2>1. row' = row /\ (rloc' = rloc \/ rloc' = [rloc EXCEPT ![v] = Idle])
    BY <1>5 DEF Resolve, CheckPrior, ReviewStops, Proceed, Return
  <2>2. \E l \in {"idle", "resolve", "check", "write", "record"} : rpc' = [rpc EXCEPT ![v] = l]
    BY <1>5 DEF Resolve, CheckPrior, ReviewStops, Proceed, Return, GotoR
  <2> QED BY <1>1, <1>2, <1>3, <2>1, <2>2
<1>6. ASSUME NEW v \in Reviewers, ReviewWrite(v) PROVE Goal
  <2> DEFINE p == rloc[v]
             rw == RowFor(p.cand, "promote", p.domain, hist')
             new == [p EXCEPT !.result = rw]
  <2>1. rpc[v] = "write" /\ hist' = AfterWrite(p.cand, "promote", p.domain)
        /\ rloc' = [rloc EXCEPT ![v] = new] /\ row' = row
    BY <1>6 DEF ReviewWrite
  <2>2. p.cand \in Cands /\ p.domain \in AnyDomain BY <2>1, ReviewerCand
  <2>3. hist \in Histories BY DEF StateType, Histories
  <2>4. p \in CallState BY <1>1
  <2>5. rw \in Rows BY <2>1, <2>2, <2>3, WriteEffect
  <2> HIDE DEF p, rw
  <2>6. new \in CallState BY <2>4, <2>5 DEF CallState
  <2> HIDE DEF new
  <2>7. rloc' \in [Reviewers -> CallState] BY <1>1, <2>1, <2>6
  <2>8. rpc' \in Rpc BY <1>1, <1>6 DEF ReviewWrite, GotoR
  <2> QED BY <1>1, <2>1, <2>7, <2>8
<1>7. ASSUME NEW v \in Reviewers, ReviewRecord(v) PROVE Goal
  <2>1. rloc[v].result \in Rows BY <1>1 DEF CallState
  <2>2. row' = [row EXCEPT ![rloc[v].cand] = rloc[v].result] BY <1>7 DEF ReviewRecord
  <2>3. row' \in [Cands -> Rows] BY <1>1, <2>1, <2>2
  <2>4. rpc' = [rpc EXCEPT ![v] = "idle"] /\ rloc' = [rloc EXCEPT ![v] = Idle]
    BY <1>7 DEF ReviewRecord, Return, GotoR
  <2> QED BY <1>2, <1>3, <2>3, <2>4
<1>8. ASSUME RescueRecord PROVE Goal
  <2>1. sloc.result \in Rows BY DEF StateType
  <2>2. row' \in [Cands -> Rows] /\ UNCHANGED <<rpc, rloc>> BY <1>1, <1>8, <2>1 DEF RescueRecord
  <2> QED BY <1>1, <2>2
<1>9. ASSUME RecordNext PROVE Goal
  <2>1. CASE wloc.at > Len(CandsOf[wloc.run]) BY <1>1, <1>9, <2>1 DEF RecordNext
  <2>2. CASE ~(wloc.at > Len(CandsOf[wloc.run]))
    <3>1. wpc = "record" /\ row' = [row EXCEPT ![CandsOf[wloc.run][wloc.at]] = wloc.results[wloc.at]]
          /\ UNCHANGED <<rpc, rloc>>
      BY <1>9, <2>2 DEF RecordNext
    <3>2. wloc.run \in Runs /\ wloc.at \in 1..(Len(CandsOf[wloc.run]) + 1)
          /\ Len(wloc.results) = Len(CandsOf[wloc.run])
      BY <3>1 DEF CallsOK, WorkerOK
    <3>3. Len(CandsOf[wloc.run]) \in Nat BY <3>2, CandsOfAssumption, LenProperties
    <3>4. wloc.at \in 1..Len(wloc.results) BY <2>2, <3>2, <3>3
    <3>5. wloc.results \in Seq(Rows) BY DEF StateType
    <3>6. wloc.results[wloc.at] \in Rows BY <3>4, <3>5, ElementOfSeq
    <3> QED BY <1>1, <3>1, <3>6
  <2> QED BY <2>1, <2>2
<1>10. ASSUME ~(\E v \in Reviewers : ReviewStep(v) \/ ReviewStops(v)), ~RescueRecord, ~RecordNext
       PROVE  UNCHANGED <<row, rpc, rloc>>
  BY <1>10 DEF Next, WorkerStep, RescueStep, StartRun, Evaluate, EvaluateFails, WriteNext,
     WorkerStops, RescueSelect, RescueWrite,
     RescueEnds, RescueRaises, ListBegin, ListPage, TakePage, OtherStore
<1> QED BY <1>1, <1>4, <1>5, <1>6, <1>7, <1>8, <1>9, <1>10 DEF ReviewStep

\* The rescue script's state keeps its type.
LEMMA RescueType ==
  ASSUME StateType, CallsOK, Next
  PROVE  spc' \in {"idle", "write", "record"} /\ sloc' \in ScriptState
<1> DEFINE Goal == spc' \in {"idle", "write", "record"} /\ sloc' \in ScriptState
<1>1. spc \in {"idle", "write", "record"} /\ sloc \in ScriptState BY DEF StateType, ScriptState
<1>2. ASSUME RescueSelect PROVE Goal
  BY <1>2, NothingTypes DEF RescueSelect, Rescuable, ScriptState
<1>3. ASSUME NEW c \in Cands, RescueWrite(c) PROVE Goal
  <2> DEFINE rw == RowFor(c, "promote", RescueDomainOf[c], hist')
  <2>1. hist' = AfterWrite(c, "promote", RescueDomainOf[c]) /\ spc' = "record"
        /\ sloc' = [todo |-> sloc.todo \ {c}, cand |-> c, result |-> rw]
    BY <1>3 DEF RescueWrite
  <2>2. RescueDomainOf[c] \in AnyDomain BY DataAssumption DEF AnyDomain
  <2>3. hist \in Histories BY DEF StateType, Histories
  <2>4. rw \in Rows BY <2>1, <2>2, <2>3, WriteEffect
  <2> HIDE DEF rw
  <2> QED BY <1>1, <2>1, <2>4 DEF ScriptState
<1>4. ASSUME RescueRecord PROVE Goal
  BY <1>1, <1>4, NothingTypes DEF RescueRecord, ScriptState
<1>5. ASSUME NEW c \in Cands, RescueRaises(c) PROVE Goal
  BY <1>1, <1>5 DEF RescueRaises, ScriptState
<1>6. ASSUME RescueEnds PROVE Goal
  BY <1>1, <1>6 DEF RescueEnds
<1>7. ASSUME ~RescueStep, ~\E c \in Cands : RescueRaises(c) PROVE UNCHANGED <<spc, sloc>>
  BY <1>7 DEF Next, WorkerStep, ReviewStep, StartRun, Evaluate, EvaluateFails, WriteNext, RecordNext,
     WorkerStops, ReviewBegin, Resolve, CheckPrior, ReviewWrite, ReviewRecord, ReviewStops,
     ListBegin, ListPage, TakePage, OtherStore
<1> QED BY <1>1, <1>2, <1>3, <1>4, <1>5, <1>6, <1>7 DEF RescueStep

-----------------------------------------------------------------------------
(***************************************************************************)
(* The order of the listing.                                               *)
(***************************************************************************)

\* A finite set that is not empty has a minimal element of a strict order.
LEMMA FiniteMinimal ==
  ASSUME NEW S, IsFiniteSet(S), S # {}, NEW R,
         \A x \in S : <<x, x>> \notin R,
         \A x, y, z \in S : <<x, y>> \in R /\ <<y, z>> \in R => <<x, z>> \in R
  PROVE  \E x \in S : \A y \in S : <<y, x>> \notin R
<1> DEFINE Below(x) == {y \in S : <<y, x>> \in R}
           T == {Below(x) : x \in S}
<1>1. T \subseteq FiniteSubsetsOf(S) BY FS_Subset DEF FiniteSubsetsOf
<1>2. T # {}
  <2>1. PICK x \in S : TRUE OBVIOUS
  <2>2. Below(x) \in T OBVIOUS
  <2> QED BY <2>2
<1>3. PICK t \in T : \A u \in T : ~(<<u, t>> \in StrictSubsetOrdering(S))
  <2> HIDE DEF T
  <2> QED BY <1>1, <1>2, WFMin, FS_StrictSubsetOrderingWellFounded
<1>4. PICK x \in S : t = Below(x) OBVIOUS
<1>5. ASSUME NEW y \in S, <<y, x>> \in R PROVE FALSE
  <2>1. Below(y) \subseteq Below(x) /\ Below(y) # Below(x) BY <1>5
  <2>2. <<Below(y), Below(x)>> \in StrictSubsetOrdering(S) BY <2>1 DEF StrictSubsetOrdering
  <2> QED BY <1>3, <1>4, <2>2
<1> QED BY <1>5

\* Earlier is a strict order; decided candidates are ordered totally.
LEMMA EarlierOrder ==
  ASSUME stamp \in [Runs -> Nat]
  PROVE  /\ \A c \in Cands : ~Earlier(c, c)
         /\ \A b, c, d \in Cands : Earlier(b, c) /\ Earlier(c, d) => Earlier(b, d)
<1>1. \A c \in Cands : RunOf(c) \in Runs /\ IndexOf(c) \in Nat
  <2> SUFFICES ASSUME NEW c \in Cands PROVE RunOf(c) \in Runs /\ IndexOf(c) \in Nat OBVIOUS
  <2>1. RunOf(c) \in Runs /\ IndexOf(c) \in 1..Len(CandsOf[RunOf(c)]) BY CandPlace
  <2>2. Len(CandsOf[RunOf(c)]) \in Nat BY <2>1, CandsOfAssumption, LenProperties
  <2> QED BY <2>1, <2>2
<1>2. \A c \in Cands : stamp[RunOf(c)] \in Nat BY <1>1
<1>3. \A c \in Cands : ~Earlier(c, c) BY <1>1, <1>2 DEF Earlier
<1>4. ASSUME NEW b \in Cands, NEW c \in Cands, NEW d \in Cands, Earlier(b, c), Earlier(c, d)
      PROVE  Earlier(b, d)
  BY <1>1, <1>2, <1>4 DEF Earlier
<1> QED BY <1>3, <1>4

\* Of two decided candidates one is listed before the other.
LEMMA EarlierTotal ==
  ASSUME stamp \in [Runs -> Nat], StampsOK, NEW b \in Cands, NEW c \in Cands,
         stamp[RunOf(b)] > 0, stamp[RunOf(c)] > 0, b # c
  PROVE  Earlier(b, c) \/ Earlier(c, b)
<1>1. /\ RunOf(b) \in Runs /\ IndexOf(b) \in 1..Len(CandsOf[RunOf(b)]) /\ CandsOf[RunOf(b)][IndexOf(b)] = b
      /\ RunOf(c) \in Runs /\ IndexOf(c) \in 1..Len(CandsOf[RunOf(c)]) /\ CandsOf[RunOf(c)][IndexOf(c)] = c
  BY CandPlace
<1>2. CASE RunOf(b) = RunOf(c)
  <2>1. IndexOf(b) # IndexOf(c) BY <1>1, <1>2
  <2>2. Len(CandsOf[RunOf(b)]) \in Nat BY <1>1, CandsOfAssumption, LenProperties
  <2>3. IndexOf(b) \in Nat /\ IndexOf(c) \in Nat BY <1>1, <1>2, <2>2
  <2>4. IndexOf(b) < IndexOf(c) \/ IndexOf(c) < IndexOf(b) BY <2>1, <2>3
  <2> QED BY <1>2, <2>4 DEF Earlier
<1>3. CASE RunOf(b) # RunOf(c)
  <2>1. RunOf(b) \in Stamped /\ RunOf(c) \in Stamped BY <1>1 DEF Stamped
  <2>2. stamp[RunOf(b)] # stamp[RunOf(c)] BY <1>3, <2>1 DEF StampsOK
  <2>3. stamp[RunOf(b)] \in Nat /\ stamp[RunOf(c)] \in Nat BY <1>1
  <2>4. stamp[RunOf(b)] < stamp[RunOf(c)] \/ stamp[RunOf(c)] < stamp[RunOf(b)] BY <2>2, <2>3
  <2> QED BY <2>4 DEF Earlier
<1> QED BY <1>2, <1>3

\* A page that is not empty has a first and a last row.
LEMMA PageEnds ==
  ASSUME stamp \in [Runs -> Nat], NEW S \in SUBSET Cands, S # {}
  PROVE  /\ \E c \in S : \A d \in S : ~Earlier(d, c)
         /\ \E c \in S : \A d \in S : ~Earlier(c, d)
<1>0. IsFiniteSet(S) BY FS_Subset, DataAssumption
<1>1. \E c \in S : \A d \in S : ~Earlier(d, c)
  <2> DEFINE R == {p \in S \X S : Earlier(p[1], p[2])}
  <2>1. \A x, y \in S : <<x, y>> \in R <=> Earlier(x, y) OBVIOUS
  <2> HIDE DEF R
  <2>2. /\ \A x \in S : <<x, x>> \notin R
        /\ \A x, y, z \in S : <<x, y>> \in R /\ <<y, z>> \in R => <<x, z>> \in R
    BY <2>1, EarlierOrder
  <2>3. \E x \in S : \A y \in S : <<y, x>> \notin R BY <1>0, <2>2, FiniteMinimal
  <2> QED BY <2>1, <2>3
<1>2. \E c \in S : \A d \in S : ~Earlier(c, d)
  <2> DEFINE R == {p \in S \X S : Earlier(p[2], p[1])}
  <2>1. \A x, y \in S : <<x, y>> \in R <=> Earlier(y, x) OBVIOUS
  <2> HIDE DEF R
  <2>2. /\ \A x \in S : <<x, x>> \notin R
        /\ \A x, y, z \in S : <<x, y>> \in R /\ <<y, z>> \in R => <<x, z>> \in R
    BY <2>1, EarlierOrder
  <2>3. \E x \in S : \A y \in S : <<y, x>> \notin R BY <1>0, <2>2, FiniteMinimal
  <2> QED BY <2>1, <2>3
<1> QED BY <1>1, <1>2

\* What a page is: the earliest rows, none left out before one that is in it,
\* and empty only when nothing is left.
LEMMA PageOf ==
  ASSUME stamp \in [Runs -> Nat], NEW S \in SUBSET Cands
  PROVE  /\ FirstOf(S) \subseteq S
         /\ \A c \in FirstOf(S) : \A d \in S : Earlier(d, c) => d \in FirstOf(S)
         /\ FirstOf(S) = {} => S = {}
<1> DEFINE Before(c) == {d \in S : Earlier(d, c)}
<1>1. FirstOf(S) \subseteq S BY DEF FirstOf
<1>2. \A c \in S : IsFiniteSet(Before(c)) /\ Cardinality(Before(c)) \in Nat
  <2>1. IsFiniteSet(S) BY FS_Subset, DataAssumption
  <2>2. \A c \in S : Before(c) \in SUBSET S OBVIOUS
  <2> HIDE DEF Before
  <2> QED BY <2>1, <2>2, FS_Subset, FS_CardinalityType
<1>3. ASSUME NEW c \in FirstOf(S), NEW d \in S, Earlier(d, c) PROVE d \in FirstOf(S)
  <2>1. Before(d) \in SUBSET Before(c) BY <1>1, <1>3, EarlierOrder
  <2>2. Cardinality(Before(d)) <= Cardinality(Before(c))
    <3> HIDE DEF Before
    <3> QED BY <1>1, <1>2, <2>1, FS_Subset
  <2>3. Cardinality(Before(c)) < PageLimit BY DEF FirstOf
  <2>4. PageLimit \in Nat BY DataAssumption
  <2>5. Cardinality(Before(d)) < PageLimit
    <3> HIDE DEF Before
    <3> QED BY <1>1, <1>2, <2>2, <2>3, <2>4
  <2> QED BY <2>5 DEF FirstOf
<1>4. ASSUME S # {} PROVE FirstOf(S) # {}
  <2>1. PICK c \in S : \A d \in S : ~Earlier(d, c) BY <1>4, PageEnds
  <2>2. Before(c) = {} BY <2>1
  <2>3. Cardinality(Before(c)) = 0 BY <2>2, FS_EmptySet
  <2>4. c \in FirstOf(S) BY <2>3, DataAssumption DEF FirstOf
  <2> QED BY <2>4
<1> QED BY <1>1, <1>3, <1>4

-----------------------------------------------------------------------------
(***************************************************************************)
(* Type correctness.                                                       *)
(***************************************************************************)

\* The listing clients keep their type; a cursor names a row of the page.
LEMMA ListerType ==
  ASSUME StateType, Next
  PROVE  lister' \in [ListClients -> ListerState]
<1>1. lister \in [ListClients -> ListerState] BY DEF StateType, ListerState
<1>2. ASSUME NEW l \in ListClients, ListBegin(l) PROVE lister' \in [ListClients -> ListerState]
  <2> DEFINE p == lister[l]
             new == [p EXCEPT !.pc = "paging", !.due = PendingReviews]
  <2>1. PendingReviews \in SUBSET Cands BY DEF PendingReviews
  <2>2. lister' = [lister EXCEPT ![l] = new] BY <1>2 DEF ListBegin
  <2>3. p \in ListerState BY <1>1
  <2> HIDE DEF p
  <2>4. new \in ListerState BY <2>1, <2>3 DEF ListerState
  <2> HIDE DEF new
  <2> QED BY <1>1, <2>2, <2>4
<1>3. ASSUME NEW l \in ListClients, ListPage(l) PROVE lister' \in [ListClients -> ListerState]
  <2> DEFINE p == lister[l]
             left == {c \in PendingReviews : lister[l].cursor = Other \/ Earlier(lister[l].cursor, c)}
             page == FirstOf(left)
             last == CHOOSE c \in page : \A d \in page : ~Earlier(c, d)
             tw == p.twice \/ page \cap p.seen # {}
             new == [p EXCEPT !.seen = p.seen \cup page, !.twice = tw, !.cursor = last]
  <2>1. page \in SUBSET Cands
    <3>1. left \in SUBSET Cands BY DEF PendingReviews
    <3> HIDE DEF left
    <3> QED BY <3>1, PageOf DEF StateType
  <2>2. p \in ListerState BY <1>1
  <2>3. lister' = IF page = {} THEN [lister EXCEPT ![l].pc = "done"] ELSE [lister EXCEPT ![l] = new]
    <3>1. TakePage(l, page) BY <1>3 DEF ListPage
    <3> HIDE DEF page
    <3>2. CASE page = {} BY <3>1, <3>2 DEF TakePage
    <3>3. ASSUME page # {} PROVE lister' = [lister EXCEPT ![l] = new]
      BY <3>1, <3>3, Zenon DEF TakePage
    <3> HIDE DEF new
    <3> QED BY <3>2, <3>3
  <2>4. CASE page = {} BY <1>1, <2>3, <2>4 DEF ListerState
  <2>5. CASE page # {}
    <3> HIDE DEF page
    <3>1. last \in Cands BY <2>1, <2>5, PageEnds DEF StateType
    <3>2. tw \in BOOLEAN OBVIOUS
    <3> HIDE DEF p, last, tw
    <3>3. new \in ListerState BY <2>1, <2>2, <3>1, <3>2 DEF ListerState
    <3> HIDE DEF new
    <3> QED BY <1>1, <2>3, <2>5, <3>3
  <2> QED BY <2>4, <2>5
<1>4. ASSUME ~\E l \in ListClients : ListBegin(l) \/ ListPage(l) PROVE lister' = lister
  BY <1>4 DEF Next, WorkerStep, ReviewStep, RescueStep, StartRun, Evaluate, EvaluateFails, WriteNext,
     RecordNext, WorkerStops, ReviewBegin, Resolve, CheckPrior, ReviewWrite, ReviewRecord, ReviewStops,
     RescueSelect, RescueWrite, RescueRecord, RescueEnds, RescueRaises, OtherStore
<1> QED BY <1>1, <1>2, <1>3, <1>4

\* No step leaves the types.
LEMMA TypeStep == StateType /\ CallsOK /\ [Next]_vars => StateType'
<1> SUFFICES ASSUME StateType, CallsOK, [Next]_vars PROVE StateType' OBVIOUS
<1>1. CASE UNCHANGED vars BY <1>1 DEF StateType, vars
<1>2. CASE Next
  <2>1. hist' \in [Identities -> Seq(Versions)] BY <1>2, HistStep DEF Kept, Histories
  <2>2. /\ run' \in [Runs -> {"none", "processing", "evaluated", "failed"}]
        /\ stamp' \in [Runs -> Nat]
        /\ decision' \in [Cands -> Decisions \cup {"none"}]
        /\ review' \in [Cands -> {"none", "approved", "rejected"}]
    BY <1>2, AuditType
  <2>3. wpc' \in {"idle", "evaluate", "write", "record"} /\ wloc' \in WorkerState
    BY <1>2, WorkerType
  <2>4. /\ row' \in [Cands -> Rows]
        /\ rpc' \in [Reviewers -> {"idle", "resolve", "check", "write", "record"}]
        /\ rloc' \in [Reviewers -> CallState]
    BY <1>2, ReviewerType
  <2>5. spc' \in {"idle", "write", "record"} /\ sloc' \in ScriptState BY <1>2, RescueType
  <2>6. lister' \in [ListClients -> ListerState] BY <1>2, ListerType
  <2> QED BY <2>1, <2>2, <2>3, <2>4, <2>5, <2>6
      DEF StateType, WorkerState, CallState, ScriptState, ListerState
<1> QED BY <1>1, <1>2

-----------------------------------------------------------------------------
(***************************************************************************)
(* Decisions and resolutions.                                              *)
(***************************************************************************)
LEMMA CallsInit == Init => CallsOK
<1> SUFFICES ASSUME Init PROVE CallsOK OBVIOUS
<1>1. RunsOK
  <2>1. \A r \in Runs : CandsIn(r) \subseteq Cands BY CandsInRun
  <2> QED BY <2>1 DEF Init, RunsOK
<1>2. ReviewsOK /\ WorkerOK BY DEF Init, ReviewsOK, WorkerOK
<1>3. ASSUME NEW v \in Reviewers PROVE ReviewerOK(v) BY DEF Init, ReviewerOK
<1>4. RescueOK BY DEF Init, RescueOK
<1> QED BY <1>1, <1>2, <1>3, <1>4 DEF CallsOK

\* A decision that was made stays, and so does a resolution; a new decision is
\* of a candidate nobody resolved, a new resolution of one held for review.
LEMMA AuditStep ==
  ASSUME StateType, CallsOK, [Next]_vars, NEW c \in Cands
  PROVE  /\ decision[c] # "none" => decision'[c] = decision[c]
         /\ review[c] # "none" => review'[c] = review[c]
         /\ review'[c] # review[c] => decision[c] = "review"
<1> DEFINE Goal == /\ decision[c] # "none" => decision'[c] = decision[c]
                   /\ review[c] # "none" => review'[c] = review[c]
                   /\ review'[c] # review[c] => decision[c] = "review"
<1>1. decision \in [Cands -> Decisions \cup {"none"}] /\ review \in [Cands -> {"none", "approved", "rejected"}]
  BY DEF StateType
<1>2. ASSUME Evaluate PROVE Goal
  <2>1. PICK d \in [CandsIn(wloc.run) -> Decisions] :
          decision' = [x \in Cands |-> IF x \in CandsIn(wloc.run) THEN d[x] ELSE decision[x]]
    BY <1>2 DEF Evaluate
  <2>2. wloc.run \in Runs /\ run[wloc.run] = "processing" BY <1>2 DEF Evaluate, CallsOK, WorkerOK
  <2>3. c \in CandsIn(wloc.run) => decision[c] = "none" BY <2>2 DEF CallsOK, RunsOK
  <2>4. review' = review BY <1>2 DEF Evaluate
  <2> QED BY <2>1, <2>3, <2>4
<1>3. ASSUME NEW v \in Reviewers, Resolve(v) PROVE Goal
  BY <1>1, <1>3 DEF Resolve
<1>4. ASSUME ~Evaluate, ~\E v \in Reviewers : Resolve(v)
      PROVE  UNCHANGED <<decision, review>>
  BY <1>4 DEF Next, WorkerStep, ReviewStep, RescueStep, StartRun, EvaluateFails, WriteNext, RecordNext,
     WorkerStops, ReviewBegin, CheckPrior, ReviewWrite, ReviewRecord, ReviewStops, RescueSelect,
     RescueWrite, RescueRecord, RescueEnds, RescueRaises, ListBegin, ListPage, TakePage, OtherStore,
     audit, vars
<1> QED BY <1>2, <1>3, <1>4

\* Once a candidate is allowed to become Knowledge, it stays allowed.
LEMMA AllowedStays ==
  ASSUME StateType, CallsOK, [Next]_vars, NEW c \in Cands, Allowed(c)
  PROVE  Allowed(c)'
BY AuditStep DEF Allowed

\* The candidates of a run are undecided until it is evaluated.
LEMMA RunsStep == StateType /\ CallsOK /\ [Next]_vars => RunsOK'
<1> SUFFICES ASSUME StateType, CallsOK, [Next]_vars,
                    NEW r \in Runs, NEW c \in CandsIn(r), run'[r] # "evaluated"
             PROVE  decision'[c] = "none"
  BY DEF RunsOK, CandsIn
<1>0. c \in Cands /\ r = RunOf(c) BY CandsInRun
<1>1. run \in [Runs -> {"none", "processing", "evaluated", "failed"}]
      /\ decision \in [Cands -> Decisions \cup {"none"}]
  BY DEF StateType
<1>2. CASE Evaluate
  <2>1. PICK d \in [CandsIn(wloc.run) -> Decisions] :
          decision' = [x \in Cands |-> IF x \in CandsIn(wloc.run) THEN d[x] ELSE decision[x]]
    BY <1>2 DEF Evaluate
  <2>2. wloc.run \in Runs BY <1>2 DEF Evaluate, CallsOK, WorkerOK
  <2>3. run' = [run EXCEPT ![wloc.run] = "evaluated"] BY <1>2 DEF Evaluate
  <2>4. wloc.run # r BY <1>1, <2>2, <2>3
  <2>5. c \notin CandsIn(wloc.run) BY <1>0, <2>2, <2>4, CandsInRun
  <2>6. run[r] # "evaluated" BY <1>1, <2>3, <2>4
  <2> QED BY <1>0, <2>1, <2>5, <2>6 DEF CallsOK, RunsOK
<1>3. CASE ~Evaluate
  <2>1. decision' = decision
    BY <1>3 DEF Next, WorkerStep, ReviewStep, RescueStep, StartRun, EvaluateFails, WriteNext, RecordNext,
       WorkerStops, ReviewBegin, Resolve, CheckPrior, ReviewWrite, ReviewRecord, ReviewStops, RescueSelect,
       RescueWrite, RescueRecord, RescueEnds, RescueRaises, ListBegin, ListPage, TakePage, OtherStore,
       audit, vars
  <2>2. run[r] # "evaluated"
    <3>1. CASE \E q \in Runs : StartRun(q) BY <1>1, <3>1 DEF StartRun
    <3>2. CASE EvaluateFails BY <1>1, <3>2 DEF EvaluateFails, CallsOK, WorkerOK
    <3>3. CASE ~(\E q \in Runs : StartRun(q)) /\ ~EvaluateFails
      <4>1. run' = run
        BY <1>3, <3>3 DEF Next, WorkerStep, ReviewStep, RescueStep, WriteNext, RecordNext,
           WorkerStops, ReviewBegin, Resolve, CheckPrior, ReviewWrite, ReviewRecord, ReviewStops,
           RescueSelect, RescueWrite, RescueRecord, RescueEnds, RescueRaises, ListBegin, ListPage,
           TakePage, OtherStore, audit, vars
      <4> QED BY <4>1
    <3> QED BY <3>1, <3>2, <3>3
  <2> QED BY <2>1, <2>2 DEF CallsOK, RunsOK
<1> QED BY <1>2, <1>3

\* Only a candidate held for review is resolved, and it stays held.
LEMMA ReviewsStep == StateType /\ CallsOK /\ [Next]_vars => ReviewsOK'
<1> SUFFICES ASSUME StateType, CallsOK, [Next]_vars, NEW c \in Cands, review'[c] # "none"
             PROVE  decision'[c] = "review"
  BY DEF ReviewsOK
<1>1. decision[c] = "review"
  <2>1. CASE review'[c] = review[c] BY <2>1 DEF CallsOK, ReviewsOK
  <2>2. CASE review'[c] # review[c] BY <2>2, AuditStep
  <2> QED BY <2>1, <2>2
<1> QED BY <1>1, AuditStep

\* Only the worker moves a run, and only from its own phase.
LEMMA WorkerInv == StateType /\ CallsOK /\ [Next]_vars => WorkerOK'
<1> SUFFICES ASSUME StateType, CallsOK, [Next]_vars PROVE WorkerOK' OBVIOUS
<1>0. /\ run \in [Runs -> {"none", "processing", "evaluated", "failed"}]
      /\ wpc \in {"idle", "evaluate", "write", "record"} /\ wloc \in WorkerState
      /\ WorkerOK
  BY DEF StateType, WorkerState, CallsOK
<1>l. \A r \in Runs : Len(CandsOf[r]) \in Nat BY CandsOfAssumption, LenProperties
<1>1. ASSUME NEW r \in Runs, StartRun(r) PROVE WorkerOK'
  <2>1. Len(<<>>) = 0 OBVIOUS
  <2>2. wloc' = [run |-> r, at |-> 1, results |-> <<>>] /\ wpc' = "evaluate"
        /\ run' = [run EXCEPT ![r] = "processing"]
    BY <1>1 DEF StartRun
  <2>3. wloc'.run = r /\ wloc'.at = 1 /\ wloc'.results = <<>> BY <2>2
  <2>4. 1 \in 1..(Len(CandsOf[r]) + 1) BY <1>l
  <2>5. run'[r] = "processing" BY <1>0, <2>2
  <2> QED BY <2>2, <2>3, <2>4, <2>5 DEF WorkerOK
<1>2. ASSUME Evaluate PROVE WorkerOK'
  <2>1. wpc = "evaluate" /\ wpc' = "write" /\ wloc' = wloc /\ run' = [run EXCEPT ![wloc.run] = "evaluated"]
    BY <1>2 DEF Evaluate
  <2>2. wloc.run \in Runs /\ wloc.at = 1 /\ wloc.results = <<>>
        /\ wloc.at \in 1..(Len(CandsOf[wloc.run]) + 1)
    BY <1>0, <2>1 DEF WorkerOK
  <2>3. Len(<<>>) = 1 - 1 OBVIOUS
  <2> QED BY <1>0, <2>1, <2>2, <2>3 DEF WorkerOK
<1>3. ASSUME EvaluateFails \/ WorkerStops PROVE WorkerOK'
  BY <1>3 DEF EvaluateFails, WorkerStops, WorkerOK
<1>4. ASSUME WriteNext PROVE WorkerOK'
  <2> DEFINE rw == RowFor(CandsOf[wloc.run][wloc.at], decision[CandsOf[wloc.run][wloc.at]], NoDomain, hist')
             n == wloc.at + 1
             rs == Append(wloc.results, rw)
  <2>1. wpc = "write" /\ run' = run BY <1>4 DEF WriteNext, audit
  <2>2. wloc.run \in Runs /\ wloc.at \in 1..(Len(CandsOf[wloc.run]) + 1) /\ run[wloc.run] = "evaluated"
        /\ Len(wloc.results) = wloc.at - 1
    BY <1>0, <2>1 DEF WorkerOK
  <2>3. wloc.at \in Nat /\ wloc.results \in Seq(Rows) BY <1>0 DEF WorkerState
  <2>4. CASE wloc.at > Len(CandsOf[wloc.run])
    <3>1. wpc' = "record" /\ wloc' = [wloc EXCEPT !.at = 1] BY <1>4, <2>4 DEF WriteNext
    <3>2. wloc'.run = wloc.run /\ wloc'.at = 1 /\ wloc'.results = wloc.results
      BY <1>0, <3>1 DEF WorkerState
    <3>3. Len(wloc.results) = Len(CandsOf[wloc.run]) BY <1>l, <2>2, <2>4
    <3>4. 1 \in 1..(Len(CandsOf[wloc.run]) + 1) BY <1>l, <2>2
    <3> QED BY <2>1, <2>2, <3>1, <3>2, <3>3, <3>4 DEF WorkerOK
  <2>5. CASE ~(wloc.at > Len(CandsOf[wloc.run]))
    <3>1. wpc' = wpc /\ wloc' = [wloc EXCEPT !.at = n, !.results = rs] BY <1>4, <2>5 DEF WriteNext
    <3>2. n \in 1..(Len(CandsOf[wloc.run]) + 1) BY <1>l, <2>2, <2>3, <2>5
    <3>3. rw \in Rows
      <4> DEFINE c == CandsOf[wloc.run][wloc.at]
      <4>1. wloc.at <= Len(CandsOf[wloc.run]) BY <1>l, <2>2, <2>3, <2>5
      <4>2. c \in Cands BY <1>0, <2>1, <4>1, WorkerCand
      <4>3. hist' = AfterWrite(c, decision[c], NoDomain) BY <1>4, <2>5 DEF WriteNext
      <4>4. NoDomain \in AnyDomain /\ hist \in Histories BY DEF AnyDomain, StateType, Histories
      <4> HIDE DEF c
      <4>5. RowFor(c, decision[c], NoDomain, hist') \in Rows BY <4>2, <4>3, <4>4, WriteEffect
      <4> QED BY <4>5 DEF c
    <3> HIDE DEF rw
    <3>4. Len(rs) = n - 1 BY <2>2, <2>3, <3>3, AppendProperties
    <3> HIDE DEF n, rs
    <3>5. wloc'.run = wloc.run /\ wloc'.at = n /\ wloc'.results = rs BY <1>0, <3>1 DEF WorkerState
    <3> QED BY <2>1, <2>2, <3>1, <3>2, <3>4, <3>5 DEF WorkerOK
  <2> QED BY <2>4, <2>5
<1>5. ASSUME RecordNext PROVE WorkerOK'
  <2> DEFINE n == wloc.at + 1
  <2>1. wpc = "record" /\ run' = run BY <1>5 DEF RecordNext, audit
  <2>2. wloc.run \in Runs /\ wloc.at \in 1..(Len(CandsOf[wloc.run]) + 1) /\ run[wloc.run] = "evaluated"
        /\ Len(wloc.results) = Len(CandsOf[wloc.run])
    BY <1>0, <2>1 DEF WorkerOK
  <2>3. CASE wloc.at > Len(CandsOf[wloc.run])
    BY <1>5, <2>3 DEF RecordNext, WorkerOK
  <2>4. CASE ~(wloc.at > Len(CandsOf[wloc.run]))
    <3>1. wpc' = wpc /\ wloc' = [wloc EXCEPT !.at = n] BY <1>5, <2>4 DEF RecordNext
    <3>2. n \in 1..(Len(CandsOf[wloc.run]) + 1) BY <1>l, <2>2, <2>4
    <3> HIDE DEF n
    <3>3. wloc'.run = wloc.run /\ wloc'.at = n /\ wloc'.results = wloc.results
      BY <1>0, <3>1 DEF WorkerState
    <3> QED BY <2>1, <2>2, <3>1, <3>2, <3>3 DEF WorkerOK
  <2> QED BY <2>3, <2>4
<1>6. ASSUME ~WorkerStep, ~EvaluateFails, ~WorkerStops PROVE WorkerOK'
  <2>1. UNCHANGED <<wpc, wloc, run>>
    BY <1>6 DEF Next, ReviewStep, RescueStep, Resolve, ReviewBegin, CheckPrior, ReviewWrite, ReviewRecord,
       ReviewStops, RescueSelect, RescueWrite, RescueRecord, RescueEnds, RescueRaises, ListBegin, ListPage,
       TakePage, OtherStore, audit, vars
  <2> QED BY <1>0, <2>1 DEF WorkerOK
<1> QED BY <1>1, <1>2, <1>3, <1>4, <1>5, <1>6 DEF WorkerStep

\* A call gets past its check only when its own resolution was stored.
LEMMA ReviewerInv ==
  ASSUME StateType, CallsOK, [Next]_vars, NEW v \in Reviewers
  PROVE  ReviewerOK(v)'
<1>0. /\ rpc \in [Reviewers -> {"idle", "resolve", "check", "write", "record"}]
      /\ rloc \in [Reviewers -> CallState] /\ review \in [Cands -> {"none", "approved", "rejected"}]
      /\ ReviewerOK(v)
  BY DEF StateType, CallState, CallsOK
<1>1. ASSUME NEW c \in Cands, review[c] # "none" PROVE review'[c] = review[c]
  BY <1>1, AuditStep
\* What another actor does leaves the call's candidate resolved as it was
<1>2. ASSUME rpc'[v] = rpc[v], rloc'[v] = rloc[v] PROVE ReviewerOK(v)'
  <2>1. ASSUME rpc[v] \in {"check", "write", "record"} PROVE review'[rloc[v].cand] = review[rloc[v].cand]
    BY <1>0, <1>1, <2>1 DEF ReviewerOK
  <2> QED BY <1>0, <1>2, <2>1 DEF ReviewerOK
<1>3. ASSUME rpc'[v] = "idle" PROVE ReviewerOK(v)' BY <1>3 DEF ReviewerOK
<1>4. ASSUME NEW c \in Cands, NEW res \in {"approved", "rejected"}, NEW d \in Domains \cup {NoDomain},
             NEW u \in Reviewers, ReviewBegin(u, c, res, d)
      PROVE  ReviewerOK(v)'
  <2> DEFINE new == [cand |-> c, resolution |-> res, domain |-> d, result |-> NoRow]
  <2>1. review' = review BY <1>4 DEF ReviewBegin, audit
  <2>2. CASE u = v /\ review[c] \in {"none", res}
    <3>1. rloc' = [rloc EXCEPT ![v] = new]
          /\ rpc' = [rpc EXCEPT ![v] = IF review[c] = "none" THEN "resolve" ELSE "check"]
      BY <1>4, <2>2 DEF ReviewBegin, GotoR
    <3>2. rloc'[v] = new /\ new.cand = c /\ new.resolution = res BY <1>0, <3>1
    <3> HIDE DEF new
    <3>3. rpc'[v] = IF review[c] = "none" THEN "resolve" ELSE "check" BY <1>0, <3>1
    <3>4. CASE review[c] = "none" BY <3>2, <3>3, <3>4 DEF ReviewerOK
    <3>5. CASE review[c] = res BY <2>1, <3>2, <3>3, <3>5 DEF ReviewerOK
    <3> QED BY <2>2, <3>4, <3>5
  <2>3. CASE ~(u = v /\ review[c] \in {"none", res})
    <3>1. rpc'[v] = rpc[v] /\ rloc'[v] = rloc[v] BY <1>0, <1>4, <2>3 DEF ReviewBegin, GotoR
    <3> QED BY <1>2, <3>1
  <2> QED BY <2>2, <2>3
<1>5. ASSUME NEW u \in Reviewers, u # v,
             Resolve(u) \/ CheckPrior(u) \/ ReviewWrite(u) \/ ReviewRecord(u) \/ ReviewStops(u)
      PROVE  rpc'[v] = rpc[v] /\ rloc'[v] = rloc[v]
  BY <1>0, <1>5 DEF Resolve, CheckPrior, ReviewWrite, ReviewRecord, ReviewStops, Proceed, Return, GotoR
<1>6. ASSUME Resolve(v) PROVE ReviewerOK(v)'
  <2>1. rpc[v] = "resolve" /\ rloc[v].cand \in Cands /\ rloc[v].resolution # "none"
    BY <1>0, <1>6 DEF Resolve, ReviewerOK
  <2>2. CASE decision[rloc[v].cand] = "review" /\ review[rloc[v].cand] = "none"
    <3>1. review' = [review EXCEPT ![rloc[v].cand] = rloc[v].resolution] /\ rloc' = rloc
          /\ rpc' = [rpc EXCEPT ![v] = "check"]
      BY <1>6, <2>2 DEF Resolve, Proceed, GotoR
    <3>2. rpc'[v] = "check" /\ review'[rloc[v].cand] = rloc[v].resolution BY <1>0, <2>1, <3>1
    <3> QED BY <2>1, <3>1, <3>2 DEF ReviewerOK
  <2>3. CASE ~(decision[rloc[v].cand] = "review" /\ review[rloc[v].cand] = "none")
    <3>1. rpc'[v] = "idle" BY <1>0, <1>6, <2>3 DEF Resolve, Return, GotoR
    <3> QED BY <1>3, <3>1
  <2> QED BY <2>2, <2>3
<1>7. ASSUME CheckPrior(v) PROVE ReviewerOK(v)'
  <2>1. rpc[v] = "check" /\ review' = review BY <1>7 DEF CheckPrior, audit
  <2>2. CASE rloc[v].resolution = "approved" /\ row[rloc[v].cand].status # "written"
    <3>1. rloc' = rloc /\ rpc' = [rpc EXCEPT ![v] = "write"]
      BY <1>7, <2>2 DEF CheckPrior, Proceed, GotoR
    <3>2. rpc'[v] = "write" BY <1>0, <3>1
    <3> QED BY <1>0, <2>1, <2>2, <3>1, <3>2 DEF ReviewerOK
  <2>3. CASE ~(rloc[v].resolution = "approved" /\ row[rloc[v].cand].status # "written")
    <3>1. rpc'[v] = "idle" BY <1>0, <1>7, <2>3 DEF CheckPrior, Return, GotoR
    <3> QED BY <1>3, <3>1
  <2> QED BY <2>2, <2>3
<1>8. ASSUME ReviewWrite(v) PROVE ReviewerOK(v)'
  <2> DEFINE p == rloc[v]
             rw == RowFor(p.cand, "promote", p.domain, hist')
             new == [p EXCEPT !.result = rw]
  <2>1. rpc[v] = "write" /\ review' = review /\ rloc' = [rloc EXCEPT ![v] = new]
        /\ rpc' = [rpc EXCEPT ![v] = "record"]
    BY <1>8 DEF ReviewWrite, GotoR, audit
  <2>2. p \in CallState BY <1>0
  <2>3. p.cand \in Cands /\ p.resolution = "approved" /\ review[p.cand] = "approved"
    BY <1>0, <2>1 DEF ReviewerOK
  <2> HIDE DEF p, rw
  <2>4. new.cand = p.cand /\ new.resolution = p.resolution BY <2>2 DEF CallState
  <2> HIDE DEF new
  <2>5. rloc'[v] = new /\ rpc'[v] = "record" BY <1>0, <2>1
  <2> QED BY <2>1, <2>3, <2>4, <2>5 DEF ReviewerOK
<1>9. ASSUME ReviewRecord(v) \/ ReviewStops(v) PROVE rpc'[v] = "idle"
  BY <1>0, <1>9 DEF ReviewRecord, ReviewStops, Return, GotoR
<1>10. ASSUME ~\E u \in Reviewers : ReviewStep(u) \/ ReviewStops(u) PROVE UNCHANGED <<rpc, rloc>>
  BY <1>10 DEF Next, WorkerStep, RescueStep, StartRun, Evaluate, EvaluateFails, WriteNext, RecordNext,
     WorkerStops, RescueSelect, RescueWrite, RescueRecord, RescueEnds, RescueRaises, ListBegin, ListPage,
     TakePage, OtherStore, vars
<1> QED BY <1>2, <1>3, <1>4, <1>5, <1>6, <1>7, <1>8, <1>9, <1>10 DEF ReviewStep

\* The script's candidates were approved when it selected them, and stay so.
LEMMA RescueInv == StateType /\ CallsOK /\ [Next]_vars => RescueOK'
<1> SUFFICES ASSUME StateType, CallsOK, [Next]_vars PROVE RescueOK' OBVIOUS
<1>0. sloc \in ScriptState /\ RescueOK BY DEF StateType, ScriptState, CallsOK
<1>1. ASSUME NEW c \in Cands, review[c] = "approved" PROVE review'[c] = "approved"
  BY <1>1, AuditStep
<1>2. ASSUME RescueSelect PROVE RescueOK'
  BY <1>2 DEF RescueSelect, Rescuable, RescueOK, audit
<1>3. ASSUME NEW c \in Cands, RescueWrite(c) PROVE RescueOK'
  <2>1. sloc'.todo = sloc.todo \ {c} /\ sloc'.cand = c /\ review' = review
    BY <1>3 DEF RescueWrite, audit
  <2> QED BY <1>0, <2>1 DEF RescueOK
<1>4. ASSUME RescueRecord PROVE RescueOK'
  <2>1. sloc'.todo = sloc.todo /\ spc' = "write" /\ review' = review
    BY <1>0, <1>4 DEF RescueRecord, audit, ScriptState
  <2> QED BY <1>0, <2>1 DEF RescueOK
<1>5. ASSUME NEW c \in Cands, RescueRaises(c) PROVE RescueOK'
  <2>1. sloc'.todo = sloc.todo \ {c} /\ sloc'.cand = sloc.cand /\ review' = review /\ spc' = spc
    BY <1>0, <1>5 DEF RescueRaises, audit, ScriptState
  <2> QED BY <1>0, <2>1 DEF RescueOK
<1>6. ASSUME RescueEnds PROVE RescueOK' BY <1>0, <1>6 DEF RescueEnds, RescueOK, audit
<1>7. ASSUME ~RescueStep, ~\E c \in Cands : RescueRaises(c) PROVE RescueOK'
  <2>1. UNCHANGED <<spc, sloc>>
    BY <1>7 DEF Next, WorkerStep, ReviewStep, StartRun, Evaluate, EvaluateFails, WriteNext, RecordNext,
       WorkerStops, ReviewBegin, Resolve, CheckPrior, ReviewWrite, ReviewRecord, ReviewStops, ListBegin,
       ListPage, TakePage, OtherStore, vars
  <2>2. sloc.todo \subseteq Cands BY <1>0 DEF ScriptState
  <2> QED BY <1>0, <1>1, <2>1, <2>2 DEF RescueOK
<1> QED BY <1>2, <1>3, <1>4, <1>5, <1>6, <1>7 DEF RescueStep

\* Every step keeps what the worker, each reviewer and the script hold.
LEMMA CallsStep == StateType /\ CallsOK /\ [Next]_vars => CallsOK'
BY RunsStep, ReviewsStep, WorkerInv, ReviewerInv, RescueInv DEF CallsOK

-----------------------------------------------------------------------------
(***************************************************************************)
(* Knowledge and the rows that describe it.                                *)
(***************************************************************************)

\* Every version by a candidate is of one that is allowed.
LEMMA TracedStep == StateType /\ CallsOK /\ Traced /\ [Next]_vars => Traced'
<1> SUFFICES ASSUME StateType, CallsOK, Traced, [Next]_vars,
                    NEW c \in Cands, BecameKnowledge(c)'
             PROVE  Allowed(c)'
  BY DEF Traced
<1>1. Kept(hist') BY HistStep
<1>2. PICK k \in Identities : \E n \in 1..Len(hist'[k]) : hist'[k][n].by = c BY DEF BecameKnowledge
<1>3. PICK n \in 1..Len(hist'[k]) : hist'[k][n].by = c BY <1>2
<1>4. Allowed(c)
  <2>1. CASE n \in 1..Len(hist[k])
    <3>1. hist'[k][n] = hist[k][n] BY <1>1, <2>1 DEF Kept, Grows
    <3> QED BY <1>3, <2>1, <3>1 DEF Traced, BecameKnowledge
  <2>2. CASE n \notin 1..Len(hist[k]) BY <1>1, <1>3, <2>2 DEF Kept
  <2> QED BY <2>1, <2>2
<1> QED BY <1>4, AllowedStays

\* What is true of Knowledge before a step is true of it after the step.
LEMMA GoodStep ==
  ASSUME StateType, CallsOK, [Next]_vars, NEW c, NEW rw, GoodIn(c, rw, hist)
  PROVE  GoodIn(c, rw, hist')
<1>1. Kept(hist') BY HistStep
<1>2. hist \in Histories BY DEF StateType, Histories
<1> QED BY <1>1, <1>2, GoodStays DEF Kept

\* A write leaves the row that describes it true.
LEMMA GoodWrite ==
  ASSUME StateType, NEW c \in Cands, NEW dec, NEW domain \in AnyDomain,
         hist' = AfterWrite(c, dec, domain)
  PROVE  GoodIn(c, RowFor(c, dec, domain, hist'), hist')
<1>1. hist \in Histories BY DEF StateType, Histories
<1> QED BY <1>1, WriteEffect

\* The results in the worker's memory stay true.
LEMMA ResultsStep == StateType /\ CallsOK /\ ResultsGood /\ [Next]_vars => ResultsGood'
<1> SUFFICES ASSUME StateType, CallsOK, ResultsGood, [Next]_vars PROVE ResultsGood' OBVIOUS
<1>0. wpc \in {"idle", "evaluate", "write", "record"} /\ wloc \in WorkerState /\ WorkerOK
  BY DEF StateType, WorkerState, CallsOK
<1>1. ASSUME wpc # "idle", wloc'.run = wloc.run, wloc'.results = wloc.results PROVE ResultsGood'
  <2>1. ASSUME NEW n \in 1..Len(wloc.results)
        PROVE  GoodIn(CandsOf[wloc.run][n], wloc.results[n], hist')
    <3>1. GoodIn(CandsOf[wloc.run][n], wloc.results[n], hist) BY <1>1 DEF ResultsGood
    <3> QED BY <3>1, GoodStep
  <2> QED BY <1>1, <2>1 DEF ResultsGood
<1>2. ASSUME NEW r \in Runs, StartRun(r) PROVE ResultsGood'
  <2>1. wloc'.results = <<>> BY <1>2 DEF StartRun
  <2>2. Len(<<>>) = 0 OBVIOUS
  <2>3. 1..0 = {} OBVIOUS
  <2> QED BY <2>1, <2>2, <2>3 DEF ResultsGood
<1>3. ASSUME WriteNext PROVE ResultsGood'
  <2>1. wpc = "write" BY <1>3 DEF WriteNext
  <2>2. CASE wloc.at > Len(CandsOf[wloc.run])
    <3>1. wloc' = [wloc EXCEPT !.at = 1] BY <1>3, <2>2 DEF WriteNext
    <3>2. wloc'.run = wloc.run /\ wloc'.results = wloc.results BY <1>0, <3>1 DEF WorkerState
    <3> QED BY <1>1, <2>1, <3>2
  <2>3. CASE ~(wloc.at > Len(CandsOf[wloc.run]))
    <3> DEFINE c == CandsOf[wloc.run][wloc.at]
               rw == RowFor(c, decision[c], NoDomain, hist')
               n == wloc.at + 1
               rs == Append(wloc.results, rw)
    <3>1. wloc.run \in Runs /\ wloc.at \in 1..(Len(CandsOf[wloc.run]) + 1)
          /\ Len(wloc.results) = wloc.at - 1
      BY <1>0, <2>1 DEF WorkerOK
    <3>2. Len(CandsOf[wloc.run]) \in Nat BY <3>1, CandsOfAssumption, LenProperties
    <3>3. wloc.at <= Len(CandsOf[wloc.run]) BY <2>3, <3>1, <3>2
    <3>4. c \in Cands BY <1>0, <2>1, <3>3, WorkerCand
    <3>5. hist' = AfterWrite(c, decision[c], NoDomain) /\ wloc' = [wloc EXCEPT !.at = n, !.results = rs]
      BY <1>3, <2>3 DEF WriteNext
    <3>6. NoDomain \in AnyDomain /\ hist \in Histories BY DEF AnyDomain, StateType, Histories
    <3>7. GoodIn(c, rw, hist') /\ rw \in Rows
      <4> HIDE DEF c
      <4> QED BY <3>4, <3>5, <3>6, GoodWrite, WriteEffect
    <3> HIDE DEF rw
    <3>8. wloc.results \in Seq(Rows) BY <1>0 DEF WorkerState
    <3>9. /\ Len(rs) = wloc.at
          /\ \A m \in 1..Len(wloc.results) : rs[m] = wloc.results[m]
          /\ rs[wloc.at] = rw
      <4>1. wloc.at \in Nat BY <1>0 DEF WorkerState
      <4>2. Len(rs) = Len(wloc.results) + 1 /\ rs[Len(wloc.results) + 1] = rw
            /\ \A m \in 1..Len(wloc.results) : rs[m] = wloc.results[m]
        BY <3>7, <3>8, AppendProperties
      <4> QED BY <3>1, <4>1, <4>2
    <3> HIDE DEF n, rs
    <3>10. wloc'.run = wloc.run /\ wloc'.results = rs BY <1>0, <3>5 DEF WorkerState
    <3>11. ASSUME NEW m \in 1..Len(rs) PROVE GoodIn(CandsOf[wloc.run][m], rs[m], hist')
      <4>1. CASE m = wloc.at BY <3>7, <3>9, <4>1
      <4>2. CASE m # wloc.at
        <5>1. m \in 1..Len(wloc.results) BY <3>1, <3>9, <4>2
        <5>2. GoodIn(CandsOf[wloc.run][m], wloc.results[m], hist) BY <2>1, <5>1 DEF ResultsGood
        <5> QED BY <3>9, <5>1, <5>2, GoodStep
      <4> QED BY <4>1, <4>2
    <3> QED BY <3>10, <3>11 DEF ResultsGood
  <2> QED BY <2>2, <2>3
<1>4. ASSUME RecordNext PROVE ResultsGood'
  <2>1. wpc = "record" BY <1>4 DEF RecordNext
  <2>2. CASE wloc.at > Len(CandsOf[wloc.run]) BY <1>4, <2>2 DEF RecordNext, ResultsGood
  <2>3. CASE ~(wloc.at > Len(CandsOf[wloc.run]))
    <3> DEFINE n == wloc.at + 1
    <3>1. wloc' = [wloc EXCEPT !.at = n] BY <1>4, <2>3 DEF RecordNext
    <3> HIDE DEF n
    <3>2. wloc'.run = wloc.run /\ wloc'.results = wloc.results BY <1>0, <3>1 DEF WorkerState
    <3> QED BY <1>1, <2>1, <3>2
  <2> QED BY <2>2, <2>3
<1>5. ASSUME EvaluateFails \/ WorkerStops PROVE ResultsGood'
  BY <1>5 DEF EvaluateFails, WorkerStops, ResultsGood
<1>6. ASSUME Evaluate PROVE ResultsGood'
  BY <1>1, <1>6 DEF Evaluate
<1>7. ASSUME ~WorkerStep, ~EvaluateFails, ~WorkerStops PROVE ResultsGood'
  <2>1. UNCHANGED <<wpc, wloc>>
    BY <1>7 DEF Next, ReviewStep, RescueStep, Resolve, ReviewBegin, CheckPrior, ReviewWrite, ReviewRecord,
       ReviewStops, RescueSelect, RescueWrite, RescueRecord, RescueEnds, RescueRaises, ListBegin, ListPage,
       TakePage, OtherStore, vars
  <2>2. CASE wpc = "idle" BY <2>1, <2>2 DEF ResultsGood
  <2>3. CASE wpc # "idle" BY <1>1, <2>1, <2>3
  <2> QED BY <2>2, <2>3
<1> QED BY <1>2, <1>3, <1>4, <1>5, <1>6, <1>7 DEF WorkerStep

\* What a reviewer's call is about to record stays true.
LEMMA CallGoodStep ==
  ASSUME StateType, CallsOK, [Next]_vars, NEW v \in Reviewers, CallGood(v)
  PROVE  CallGood(v)'
<1>0. /\ rpc \in [Reviewers -> {"idle", "resolve", "check", "write", "record"}]
      /\ rloc \in [Reviewers -> CallState]
  BY DEF StateType, CallState
<1>1. ASSUME rpc'[v] = rpc[v], rloc'[v] = rloc[v] PROVE CallGood(v)'
  BY <1>1, GoodStep DEF CallGood
<1>2. ASSUME NEW u \in Reviewers, u # v, ReviewStep(u) \/ ReviewStops(u)
      PROVE  rpc'[v] = rpc[v] /\ rloc'[v] = rloc[v]
  BY <1>0, <1>2 DEF ReviewStep, ReviewBegin, Resolve, CheckPrior, ReviewWrite, ReviewRecord, ReviewStops,
     Proceed, Return, GotoR
<1>3. ASSUME NEW c \in Cands, NEW res \in {"approved", "rejected"}, NEW d \in Domains \cup {NoDomain},
             ReviewBegin(v, c, res, d)
      PROVE  CallGood(v)'
  <2>1. rpc'[v] # "record" BY <1>0, <1>3 DEF ReviewBegin, GotoR
  <2> QED BY <2>1 DEF CallGood
<1>4. ASSUME Resolve(v) \/ CheckPrior(v) \/ ReviewRecord(v) \/ ReviewStops(v) PROVE CallGood(v)'
  <2>1. rpc'[v] # "record"
    BY <1>0, <1>4 DEF Resolve, CheckPrior, ReviewRecord, ReviewStops, Proceed, Return, GotoR
  <2> QED BY <2>1 DEF CallGood
<1>5. ASSUME ReviewWrite(v) PROVE CallGood(v)'
  <2> DEFINE p == rloc[v]
             rw == RowFor(p.cand, "promote", p.domain, hist')
             new == [p EXCEPT !.result = rw]
  <2>1. rpc[v] = "write" /\ hist' = AfterWrite(p.cand, "promote", p.domain)
        /\ rloc' = [rloc EXCEPT ![v] = new]
    BY <1>5 DEF ReviewWrite
  <2>2. p.cand \in Cands /\ p.domain \in AnyDomain BY <2>1, ReviewerCand
  <2>3. p \in CallState BY <1>0
  <2>4. GoodIn(p.cand, rw, hist') BY <2>1, <2>2, GoodWrite
  <2> HIDE DEF p, rw
  <2>5. new.cand = p.cand /\ new.result = rw BY <2>3 DEF CallState
  <2> HIDE DEF new
  <2>6. rloc'[v] = new BY <1>0, <2>1
  <2> QED BY <2>4, <2>5, <2>6 DEF CallGood
<1>6. ASSUME ~\E u \in Reviewers : ReviewStep(u) \/ ReviewStops(u) PROVE UNCHANGED <<rpc, rloc>>
  BY <1>6 DEF Next, WorkerStep, RescueStep, StartRun, Evaluate, EvaluateFails, WriteNext, RecordNext,
     WorkerStops, RescueSelect, RescueWrite, RescueRecord, RescueEnds, RescueRaises, ListBegin, ListPage,
     TakePage, OtherStore, vars
<1> QED BY <1>1, <1>2, <1>3, <1>4, <1>5, <1>6 DEF ReviewStep

\* What the script is about to record stays true.
LEMMA ScriptGoodStep == StateType /\ CallsOK /\ ScriptGood /\ [Next]_vars => ScriptGood'
<1> SUFFICES ASSUME StateType, CallsOK, ScriptGood, [Next]_vars PROVE ScriptGood' OBVIOUS
<1>1. ASSUME NEW c \in Cands, RescueWrite(c) PROVE ScriptGood'
  <2> DEFINE rw == RowFor(c, "promote", RescueDomainOf[c], hist')
  <2>1. hist' = AfterWrite(c, "promote", RescueDomainOf[c])
        /\ sloc' = [todo |-> sloc.todo \ {c}, cand |-> c, result |-> rw]
    BY <1>1 DEF RescueWrite
  <2>2. RescueDomainOf[c] \in AnyDomain BY DataAssumption DEF AnyDomain
  <2>3. GoodIn(c, rw, hist') BY <2>1, <2>2, GoodWrite
  <2> HIDE DEF rw
  <2>4. sloc'.cand = c /\ sloc'.result = rw BY <2>1
  <2> QED BY <2>3, <2>4 DEF ScriptGood
<1>2. ASSUME RescueSelect \/ RescueRecord \/ RescueEnds \/ \E c \in Cands : RescueRaises(c)
      PROVE  spc' # "record"
  BY <1>2 DEF RescueSelect, RescueRecord, RescueEnds, RescueRaises
<1>3. ASSUME ~RescueStep, ~\E c \in Cands : RescueRaises(c) PROVE UNCHANGED <<spc, sloc>>
  BY <1>3 DEF Next, WorkerStep, ReviewStep, StartRun, Evaluate, EvaluateFails, WriteNext, RecordNext,
     WorkerStops, ReviewBegin, Resolve, CheckPrior, ReviewWrite, ReviewRecord, ReviewStops, ListBegin,
     ListPage, TakePage, OtherStore, vars
<1>4. ASSUME UNCHANGED <<spc, sloc>> PROVE ScriptGood' BY <1>4, GoodStep DEF ScriptGood
<1>5. ASSUME spc' # "record" PROVE ScriptGood' BY <1>5 DEF ScriptGood
<1> QED BY <1>1, <1>2, <1>3, <1>4, <1>5 DEF RescueStep

\* The rows of the table: whoever writes one last, it is true.
LEMMA TableStep == StateType /\ CallsOK /\ RowsOK /\ [Next]_vars => TableGood'
<1> SUFFICES ASSUME StateType, CallsOK, RowsOK, [Next]_vars, NEW c \in Cands
             PROVE  GoodIn(c, row'[c], hist')
  BY DEF TableGood
<1>0. row \in [Cands -> Rows] BY DEF StateType
<1>1. ASSUME row'[c] = row[c] PROVE GoodIn(c, row'[c], hist')
  <2>1. GoodIn(c, row[c], hist) BY DEF RowsOK, TableGood
  <2> QED BY <1>1, <2>1, GoodStep
<1>2. ASSUME RecordNext PROVE GoodIn(c, row'[c], hist')
  <2> DEFINE d == CandsOf[wloc.run][wloc.at]
  <2>1. CASE wloc.at > Len(CandsOf[wloc.run]) \/ c # d
    BY <1>0, <1>1, <1>2, <2>1 DEF RecordNext
  <2>2. CASE ~(wloc.at > Len(CandsOf[wloc.run])) /\ c = d
    <3>1. wpc = "record" /\ row' = [row EXCEPT ![d] = wloc.results[wloc.at]]
      BY <1>2, <2>2 DEF RecordNext
    <3>2. wloc.run \in Runs /\ wloc.at \in 1..(Len(CandsOf[wloc.run]) + 1)
          /\ Len(wloc.results) = Len(CandsOf[wloc.run])
      BY <3>1 DEF CallsOK, WorkerOK
    <3>3. Len(CandsOf[wloc.run]) \in Nat BY <3>2, CandsOfAssumption, LenProperties
    <3>4. wloc.at \in 1..Len(wloc.results) BY <2>2, <3>2, <3>3
    <3>5. GoodIn(d, wloc.results[wloc.at], hist) BY <3>1, <3>4 DEF RowsOK, ResultsGood
    <3>6. row'[c] = wloc.results[wloc.at] BY <1>0, <2>2, <3>1
    <3> HIDE DEF d
    <3> QED BY <2>2, <3>5, <3>6, GoodStep
  <2> QED BY <2>1, <2>2
<1>3. ASSUME NEW v \in Reviewers, ReviewRecord(v) PROVE GoodIn(c, row'[c], hist')
  <2>1. CASE c # rloc[v].cand BY <1>0, <1>1, <1>3, <2>1 DEF ReviewRecord
  <2>2. CASE c = rloc[v].cand
    <3>1. rpc[v] = "record" /\ row'[c] = rloc[v].result BY <1>0, <1>3, <2>2 DEF ReviewRecord
    <3>2. GoodIn(c, rloc[v].result, hist) BY <2>2, <3>1 DEF RowsOK, CallGood
    <3> QED BY <3>1, <3>2, GoodStep
  <2> QED BY <2>1, <2>2
<1>4. ASSUME RescueRecord PROVE GoodIn(c, row'[c], hist')
  <2>1. CASE row'[c] = row[c] BY <1>1, <2>1
  <2>2. CASE row'[c] # row[c]
    <3>1. c = sloc.cand /\ row'[c] = sloc.result /\ spc = "record"
      BY <1>0, <1>4, <2>2 DEF RescueRecord
    <3>2. GoodIn(c, sloc.result, hist) BY <3>1 DEF RowsOK, ScriptGood
    <3> QED BY <3>1, <3>2, GoodStep
  <2> QED BY <2>1, <2>2
<1>5. ASSUME ~RecordNext, ~(\E v \in Reviewers : ReviewRecord(v)), ~RescueRecord PROVE row' = row
  BY <1>5 DEF Next, WorkerStep, ReviewStep, RescueStep, StartRun, Evaluate, EvaluateFails, WriteNext,
     WorkerStops, ReviewBegin, Resolve, CheckPrior, ReviewWrite, ReviewStops, RescueSelect, RescueWrite,
     RescueEnds, RescueRaises, ListBegin, ListPage, TakePage, OtherStore, vars
<1> QED BY <1>1, <1>2, <1>3, <1>4, <1>5

\* At the start there is no row and no version.
LEMMA RowsInit == Init => RowsOK /\ Traced
<1> SUFFICES ASSUME Init PROVE RowsOK /\ Traced OBVIOUS
<1>1. TableGood BY DEF Init, TableGood, GoodIn, NoRow
<1>2. ResultsGood /\ ScriptGood BY DEF Init, ResultsGood, ScriptGood
<1>3. ASSUME NEW v \in Reviewers PROVE CallGood(v) BY DEF Init, CallGood
<1>4. \A k \in Identities : Len(hist[k]) = 0 BY DEF Init
<1>5. Traced BY <1>4 DEF Traced, BecameKnowledge
<1> QED BY <1>1, <1>2, <1>3, <1>5 DEF RowsOK

\* Every row, in the table or in the hands of a caller, stays true.
LEMMA RowsStep == StateType /\ CallsOK /\ RowsOK /\ [Next]_vars => RowsOK'
BY TableStep, ResultsStep, CallGoodStep, ScriptGoodStep DEF RowsOK

-----------------------------------------------------------------------------
(***************************************************************************)
(* Paging through the pending reviews.                                     *)
(***************************************************************************)

\* A candidate that was decided belongs to a run with a stamp.
LEMMA DecidedIsStamped ==
  ASSUME CallsOK, StampsOK, NEW c \in Cands, decision[c] # "none"
  PROVE  RunOf(c) \in Runs /\ run[RunOf(c)] = "evaluated" /\ stamp[RunOf(c)] > 0
<1>1. RunOf(c) \in Runs BY CandPlace
<1>2. c \in CandsIn(RunOf(c)) BY <1>1, CandsInRun
<1>3. run[RunOf(c)] = "evaluated" BY <1>1, <1>2 DEF CallsOK, RunsOK
<1> QED BY <1>1, <1>3 DEF StampsOK

\* A run gets its stamp when it is evaluated, larger than those there were.
LEMMA StampsStep ==
  ASSUME StateType, CallsOK, StampsOK, [Next]_vars
  PROVE  /\ StampsOK'
         /\ \A r \in Runs : stamp[r] > 0 => stamp'[r] = stamp[r]
<1>0. /\ run \in [Runs -> {"none", "processing", "evaluated", "failed"}] /\ stamp \in [Runs -> Nat]
      /\ WorkerOK
  BY DEF StateType, CallsOK
<1>f. IsFiniteSet(Stamped) /\ Cardinality(Stamped) \in Nat
  BY FS_Subset, FS_CardinalityType, DataAssumption DEF Stamped
<1>1. ASSUME NEW r \in Runs, run[r] # "evaluated", stamp' = stamp,
             \E s \in {"processing", "failed"} : run' = [run EXCEPT ![r] = s]
      PROVE  StampsOK' /\ \A q \in Runs : stamp[q] > 0 => stamp'[q] = stamp[q]
  <2>1. \A q \in Runs : run'[q] = "evaluated" <=> run[q] = "evaluated" BY <1>0, <1>1
  <2>2. Stamped' = Stamped BY <1>1 DEF Stamped
  <2> QED BY <1>1, <2>1, <2>2 DEF StampsOK
<1>2. ASSUME Evaluate PROVE StampsOK' /\ \A q \in Runs : stamp[q] > 0 => stamp'[q] = stamp[q]
  <2> DEFINE r == wloc.run
             n == Cardinality(Stamped)
  <2>1. r \in Runs /\ run[r] = "processing" BY <1>0, <1>2 DEF Evaluate, WorkerOK
  <2>2. stamp' = [stamp EXCEPT ![r] = 1 + n] /\ run' = [run EXCEPT ![r] = "evaluated"]
    BY <1>2 DEF Evaluate, Stamped
  <2>3. stamp[r] = 0 BY <1>0, <2>1 DEF StampsOK
  <2>4. n \in Nat BY <1>f
  <2> HIDE DEF r, n
  <2>5. stamp'[r] = 1 + n /\ \A q \in Runs \ {r} : stamp'[q] = stamp[q] BY <1>0, <2>1, <2>2
  <2>6. run'[r] = "evaluated" /\ \A q \in Runs \ {r} : run'[q] = run[q] BY <1>0, <2>1, <2>2
  <2>7. Stamped' = Stamped \cup {r} /\ r \notin Stamped
    BY <2>1, <2>3, <2>4, <2>5 DEF Stamped
  <2>8. Cardinality(Stamped') = 1 + n
    BY <1>f, <2>7, FS_AddElement DEF n
  <2>9. \A q \in Runs : stamp'[q] > 0 <=> run'[q] = "evaluated"
    BY <2>4, <2>5, <2>6 DEF StampsOK
  <2>10. \A q \in Runs \ {r} : stamp[q] \in Nat /\ stamp[q] <= n
    BY <1>0 DEF StampsOK, n
  <2>11. \A q \in Runs : stamp'[q] <= Cardinality(Stamped')
    BY <2>4, <2>5, <2>8, <2>10
  <2>12. \A p, q \in Stamped' : stamp'[p] = stamp'[q] => p = q
    <3> SUFFICES ASSUME NEW p \in Stamped', NEW q \in Stamped', stamp'[p] = stamp'[q] PROVE p = q
      OBVIOUS
    <3>1. p \in Runs /\ q \in Runs BY <2>1, <2>7 DEF Stamped
    <3>2. CASE p = r \/ q = r BY <2>4, <2>5, <2>10, <3>1, <3>2
    <3>3. CASE p # r /\ q # r
      <4>1. p \in Stamped /\ q \in Stamped BY <2>7, <3>3
      <4>2. stamp[p] = stamp[q] BY <2>5, <3>1, <3>3
      <4> QED BY <4>1, <4>2 DEF StampsOK
    <3> QED BY <3>2, <3>3
  <2>13. StampsOK' BY <2>9, <2>11, <2>12 DEF StampsOK
  <2> QED BY <2>3, <2>5, <2>13
<1>3. ASSUME NEW r \in Runs, StartRun(r)
      PROVE  StampsOK' /\ \A q \in Runs : stamp[q] > 0 => stamp'[q] = stamp[q]
  BY <1>1, <1>3 DEF StartRun
<1>4. ASSUME EvaluateFails PROVE StampsOK' /\ \A q \in Runs : stamp[q] > 0 => stamp'[q] = stamp[q]
  BY <1>0, <1>1, <1>4 DEF EvaluateFails, WorkerOK
<1>5. ASSUME ~Evaluate, ~(\E r \in Runs : StartRun(r)), ~EvaluateFails
      PROVE  UNCHANGED <<run, stamp>>
  BY <1>5 DEF Next, WorkerStep, ReviewStep, RescueStep, WriteNext, RecordNext,
     WorkerStops, ReviewBegin, Resolve, CheckPrior, ReviewWrite, ReviewRecord, ReviewStops, RescueSelect,
     RescueWrite, RescueRecord, RescueEnds, RescueRaises, ListBegin, ListPage, TakePage, OtherStore,
     audit, vars
<1>6. ASSUME UNCHANGED <<run, stamp>>
      PROVE  StampsOK' /\ \A q \in Runs : stamp[q] > 0 => stamp'[q] = stamp[q]
  <2>1. Stamped' = Stamped BY <1>6 DEF Stamped
  <2> QED BY <1>6, <2>1 DEF StampsOK
<1> QED BY <1>2, <1>3, <1>4, <1>5, <1>6

\* The order of decided candidates never changes.
LEMMA EarlierStays ==
  ASSUME StateType, CallsOK, StampsOK, [Next]_vars,
         NEW b \in Cands, NEW c \in Cands, decision[b] # "none", decision[c] # "none"
  PROVE  Earlier(b, c)' <=> Earlier(b, c)
<1>1. /\ RunOf(b) \in Runs /\ stamp[RunOf(b)] > 0
      /\ RunOf(c) \in Runs /\ stamp[RunOf(c)] > 0
  BY DecidedIsStamped
<1>2. stamp'[RunOf(b)] = stamp[RunOf(b)] /\ stamp'[RunOf(c)] = stamp[RunOf(c)]
  BY <1>1, StampsStep
<1> QED BY <1>2 DEF Earlier

\* What was decided and is pending after a step was pending before.
LEMMA PendingShrinks ==
  ASSUME StateType, CallsOK, [Next]_vars, NEW c \in Cands, decision[c] # "none", c \in PendingReviews'
  PROVE  c \in PendingReviews
BY AuditStep DEF PendingReviews

\* A client that does nothing still sees what it must.
LEMMA ListerStays ==
  ASSUME StateType, CallsOK, StampsOK, [Next]_vars, NEW l \in ListClients, ListerOK(l),
         lister'[l] = lister[l]
  PROVE  ListerOK(l)'
<1> DEFINE p == lister[l]
<1>0. p \in ListerState BY DEF StateType, ListerState
<1>1. p.seen \subseteq Cands /\ p.due \subseteq Cands /\ p.cursor \in Cands \cup {Other}
  BY <1>0 DEF ListerState
<1>2. \A c \in p.seen \cup p.due : decision[c] # "none" BY DEF ListerOK
<1>3. \A c \in p.seen \cup p.due : decision'[c] # "none"
  BY <1>1, <1>2, AuditStep
<1>4. p.cursor # Other => p.cursor \in p.seen BY DEF ListerOK
<1>5. \A c \in p.due \cap PendingReviews' : c \in p.due \cap PendingReviews
  BY <1>1, <1>2, PendingShrinks
<1>6. \A c \in p.seen : c = p.cursor \/ Earlier(c, p.cursor)'
  <2> SUFFICES ASSUME NEW c \in p.seen, c # p.cursor PROVE Earlier(c, p.cursor)' OBVIOUS
  <2>1. p.cursor \in p.seen BY <1>4 DEF ListerOK
  <2>2. Earlier(c, p.cursor) BY DEF ListerOK
  <2> QED BY <1>1, <1>2, <2>1, <2>2, EarlierStays
<1>7. p.pc = "paging" => \A c \in (p.due \cap PendingReviews') \ p.seen :
        p.cursor # Other => Earlier(p.cursor, c)'
  <2> SUFFICES ASSUME p.pc = "paging", NEW c \in (p.due \cap PendingReviews') \ p.seen, p.cursor # Other
               PROVE  Earlier(p.cursor, c)'
    OBVIOUS
  <2>1. c \in (p.due \cap PendingReviews) \ p.seen BY <1>5
  <2>2. Earlier(p.cursor, c) BY <2>1 DEF ListerOK
  <2> QED BY <1>1, <1>2, <1>4, <2>1, <2>2, EarlierStays
<1>8. p.pc = "done" => p.due \cap PendingReviews' \subseteq p.seen
  BY <1>5 DEF ListerOK
<1> QED BY <1>3, <1>4, <1>6, <1>7, <1>8 DEF ListerOK

\* A client takes the next page: everything up to the new cursor is seen, and
\* nothing was seen before.
LEMMA ListerPages ==
  ASSUME StateType, CallsOK, StampsOK, NEW l \in ListClients, ListerOK(l), ListPage(l)
  PROVE  ListerOK(l)'
<1> DEFINE p == lister[l]
           S == {c \in PendingReviews : p.cursor = Other \/ Earlier(p.cursor, c)}
           page == FirstOf(S)
           last == CHOOSE c \in page : \A d \in page : ~Earlier(c, d)
           tw == p.twice \/ page \cap p.seen # {}
           new == [p EXCEPT !.seen = p.seen \cup page, !.twice = tw, !.cursor = last]
<1>0. lister \in [ListClients -> ListerState] /\ stamp \in [Runs -> Nat] BY DEF StateType, ListerState
<1>1. p \in ListerState BY <1>0
<1>2. p.seen \subseteq Cands /\ p.due \subseteq Cands /\ p.cursor \in Cands \cup {Other}
  BY <1>1 DEF ListerState
<1>3. TakePage(l, page) BY DEF ListPage
<1>4. p.pc = "paging" /\ UNCHANGED <<stamp, decision, review>> BY <1>3 DEF TakePage, audit
<1>5. S \subseteq PendingReviews /\ PendingReviews \subseteq Cands BY DEF PendingReviews
<1>6. \A c \in PendingReviews : decision[c] # "none" /\ c \in Cands BY DEF PendingReviews
<1>7. /\ page \subseteq S
      /\ \A c \in page : \A d \in S : Earlier(d, c) => d \in page
      /\ page = {} => S = {}
  <2>1. S \in SUBSET Cands BY <1>5
  <2> HIDE DEF S
  <2> QED BY <1>0, <2>1, PageOf
\* Two rows that were decided are one before the other
<1>8. \A b, c \in p.seen \cup p.due \cup PendingReviews : b = c \/ Earlier(b, c) \/ Earlier(c, b)
  <2> SUFFICES ASSUME NEW b \in p.seen \cup p.due \cup PendingReviews,
                      NEW c \in p.seen \cup p.due \cup PendingReviews, b # c
               PROVE  Earlier(b, c) \/ Earlier(c, b)
    OBVIOUS
  <2>1. b \in Cands /\ decision[b] # "none" /\ c \in Cands /\ decision[c] # "none"
    BY <1>2, <1>6 DEF ListerOK
  <2>2. stamp[RunOf(b)] > 0 /\ stamp[RunOf(c)] > 0 BY <2>1, DecidedIsStamped
  <2> QED BY <1>0, <2>1, <2>2, EarlierTotal
<1>9. /\ \A c \in Cands : ~Earlier(c, c)
      /\ \A b, c, d \in Cands : Earlier(b, c) /\ Earlier(c, d) => Earlier(b, d)
  BY <1>0, EarlierOrder
<1>10. CASE page = {}
  <2>1. lister' = [lister EXCEPT ![l].pc = "done"]
    <3> HIDE DEF page
    <3> QED BY <1>3, <1>10 DEF TakePage
  <2>2. lister'[l] = [p EXCEPT !.pc = "done"] BY <1>0, <2>1
  <2>3. /\ lister'[l].pc = "done" /\ lister'[l].seen = p.seen /\ lister'[l].due = p.due
        /\ lister'[l].cursor = p.cursor /\ lister'[l].twice = p.twice
    BY <1>1, <2>2 DEF ListerState
  <2>4. p.due \cap PendingReviews \subseteq p.seen
    <3> SUFFICES ASSUME NEW c \in p.due \cap PendingReviews, c \notin p.seen PROVE FALSE OBVIOUS
    <3>1. p.cursor # Other => Earlier(p.cursor, c) BY <1>4 DEF ListerOK
    <3>2. c \in S BY <3>1
    <3> QED BY <1>7, <1>10, <3>2
  <2>5. PendingReviews' = PendingReviews BY <1>4 DEF PendingReviews
  <2>6. \A b, c : Earlier(b, c)' <=> Earlier(b, c) BY <1>4 DEF Earlier
  <2> QED BY <1>4, <2>3, <2>4, <2>5, <2>6 DEF ListerOK
<1>11. CASE page # {}
  <2>1. lister' = [lister EXCEPT ![l] = new]
    <3> HIDE DEF page
    <3> QED BY <1>3, <1>11, Zenon DEF TakePage
  <2>2. last \in page /\ \A d \in page : ~Earlier(last, d)
    <3>1. page \in SUBSET Cands BY <1>5, <1>7
    <3> HIDE DEF page
    <3> QED BY <1>0, <1>11, <3>1, PageEnds
  <2>3. page \cap p.seen = {}
    <3> SUFFICES ASSUME NEW c \in page, c \in p.seen PROVE FALSE OBVIOUS
    <3>1. p.cursor # Other /\ (c = p.cursor \/ Earlier(c, p.cursor)) BY DEF ListerOK
    <3>2. Earlier(p.cursor, c) BY <1>7, <3>1
    <3> QED BY <1>2, <1>9, <3>1, <3>2
  <2>4. tw = FALSE BY <2>3 DEF ListerOK
  <2>p. page \subseteq PendingReviews BY <1>5, <1>7
  <2>s. last \in Cands /\ last # Other BY <1>5, <2>2, <2>p, DataAssumption
  <2> HIDE DEF tw, last, page
  <2>5. lister'[l] = new BY <1>0, <2>1
  <2>6. /\ lister'[l].pc = "paging" /\ lister'[l].seen = p.seen \cup page /\ lister'[l].due = p.due
        /\ lister'[l].cursor = last /\ lister'[l].twice = tw
    BY <1>1, <1>4, <2>5 DEF ListerState
  <2>7. \A c \in p.seen \cup page : c = last \/ Earlier(c, last)
    <3> SUFFICES ASSUME NEW c \in p.seen \cup page PROVE c = last \/ Earlier(c, last) OBVIOUS
    <3>1. CASE c \in page BY <1>8, <2>2, <2>p, <3>1
    <3>2. CASE c \in p.seen
      <4>1. p.cursor # Other /\ (c = p.cursor \/ Earlier(c, p.cursor)) BY <3>2 DEF ListerOK
      <4>2. Earlier(p.cursor, last) BY <1>7, <2>2, <4>1
      <4> QED BY <1>2, <1>9, <2>s, <3>2, <4>1, <4>2
    <3> QED BY <3>1, <3>2
  <2>8. \A c \in (p.due \cap PendingReviews) \ (p.seen \cup page) : Earlier(last, c)
    <3> SUFFICES ASSUME NEW c \in p.due \cap PendingReviews, c \notin p.seen, c \notin page
                 PROVE  Earlier(last, c)
      OBVIOUS
    <3>1. p.cursor # Other => Earlier(p.cursor, c) BY <1>4 DEF ListerOK
    <3>2. c \in S BY <3>1
    <3>3. ~Earlier(c, last) BY <1>7, <2>2, <3>2
    <3> QED BY <1>8, <2>2, <2>p, <3>3
  <2>9. \A c \in p.seen \cup page \cup p.due : decision[c] # "none" BY <1>6, <2>p DEF ListerOK
  <2>10. PendingReviews' = PendingReviews BY <1>4 DEF PendingReviews
  <2>11. \A b, c : Earlier(b, c)' <=> Earlier(b, c) BY <1>4 DEF Earlier
  <2> QED BY <1>4, <2>2, <2>4, <2>6, <2>7, <2>8, <2>9, <2>10, <2>11, <2>s DEF ListerOK
<1> QED BY <1>10, <1>11

\* A client begins to page: nothing seen, and what is due was decided.
LEMMA ListerBegins ==
  ASSUME StateType, NEW l \in ListClients, ListerOK(l), ListBegin(l)
  PROVE  ListerOK(l)'
<1> DEFINE p == lister[l]
           new == [p EXCEPT !.pc = "paging", !.due = PendingReviews]
<1>1. p \in ListerState BY DEF StateType, ListerState
<1>2. lister' = [lister EXCEPT ![l] = new] BY DEF ListBegin
<1>3. lister'[l] = new BY <1>2 DEF StateType
<1>4. /\ lister'[l].pc = "paging" /\ lister'[l].seen = p.seen /\ lister'[l].due = PendingReviews
      /\ lister'[l].cursor = p.cursor /\ lister'[l].twice = p.twice
  BY <1>1, <1>3 DEF ListerState
<1>5. p.pc = "idle" BY DEF ListBegin
<1>6. p.seen = {} /\ p.cursor = Other BY <1>5 DEF ListerOK
<1>7. \A c \in PendingReviews : decision[c] # "none" BY DEF PendingReviews
<1>8. decision' = decision BY DEF ListBegin, audit
<1> QED BY <1>4, <1>6, <1>7, <1>8 DEF ListerOK

\* Every step keeps what a client has seen and has still to see.
LEMMA ListingStep == StateType /\ CallsOK /\ ListingOK /\ [Next]_vars => ListingOK'
<1> SUFFICES ASSUME StateType, CallsOK, ListingOK, [Next]_vars, NEW l \in ListClients
             PROVE  ListerOK(l)'
  BY StampsStep DEF ListingOK
<1>0. StampsOK /\ ListerOK(l) /\ lister \in [ListClients -> ListerState]
  BY DEF ListingOK, StateType, ListerState
<1>1. ASSUME lister'[l] = lister[l] PROVE ListerOK(l)' BY <1>0, <1>1, ListerStays
<1>2. ASSUME ListBegin(l) PROVE ListerOK(l)' BY <1>0, <1>2, ListerBegins
<1>3. ASSUME ListPage(l) PROVE ListerOK(l)' BY <1>0, <1>3, ListerPages
<1>4. ASSUME NEW m \in ListClients, m # l, ListBegin(m) PROVE lister'[l] = lister[l]
  BY <1>0, <1>4 DEF ListBegin
<1>5. ASSUME NEW m \in ListClients, m # l, NEW page, TakePage(m, page) PROVE lister'[l] = lister[l]
  BY <1>0, <1>5 DEF TakePage
<1>6. ASSUME NEW m \in ListClients, m # l, ListPage(m) PROVE lister'[l] = lister[l]
  BY <1>5, <1>6 DEF ListPage
<1>7. ASSUME ~\E m \in ListClients : ListBegin(m) \/ ListPage(m) PROVE lister' = lister
  BY <1>7 DEF Next, WorkerStep, ReviewStep, RescueStep, StartRun, Evaluate, EvaluateFails, WriteNext,
     RecordNext, WorkerStops, ReviewBegin, Resolve, CheckPrior, ReviewWrite, ReviewRecord, ReviewStops,
     RescueSelect, RescueWrite, RescueRecord, RescueEnds, RescueRaises, OtherStore, vars
<1> QED BY <1>1, <1>2, <1>3, <1>4, <1>6, <1>7

\* No run is stamped and nobody pages at the start.
LEMMA ListingInit == Init => ListingOK
<1> SUFFICES ASSUME Init PROVE ListingOK OBVIOUS
<1>1. Stamped = {} BY DEF Init, Stamped
<1>2. Cardinality(Stamped) = 0 BY <1>1, FS_EmptySet
<1>3. StampsOK BY <1>1, <1>2 DEF Init, StampsOK
<1>4. ASSUME NEW l \in ListClients PROVE ListerOK(l) BY DEF Init, ListerOK
<1> QED BY <1>3, <1>4 DEF ListingOK

-----------------------------------------------------------------------------
(***************************************************************************)
(* The theorems.                                                           *)
(***************************************************************************)
LEMMA Inductive == Spec => []IInv
<1>1. Init => IInv BY TypeInit, CallsInit, RowsInit, ListingInit DEF IInv
<1>2. IInv /\ [Next]_vars => IInv'
  BY TypeStep, CallsStep, RowsStep, TracedStep, ListingStep DEF IInv
<1> QED BY <1>1, <1>2, PTL DEF Spec

\* The tables of the audit keep their types, and a row that says written names
\* a version with its candidate's content: the worker, the reviewers and the
\* script replace each other's rows, but only by rows that are true, and a
\* version never leaves Knowledge.
THEOREM AuditIsTrue == Spec => []AuditConsistent
<1>1. IInv => AuditConsistent
  <2> SUFFICES ASSUME IInv PROVE AuditConsistent OBVIOUS
  <2>1. hist \in Histories BY DEF IInv, StateType, Histories
  <2>2. ASSUME NEW k \in Identities, NEW n \in 1..Len(hist[k])
        PROVE  hist[k][n].by \in Cands \cup {Other}
    <3>1. hist[k] \in Seq(Versions) BY <2>1 DEF Histories
    <3>2. hist[k][n] \in Versions BY <3>1, ElementOfSeq
    <3> QED BY <3>2 DEF Versions
  <2>3. ASSUME NEW l \in ListClients PROVE lister[l].seen \subseteq Cands
    BY DEF IInv, StateType
  <2>4. TypeOK BY <2>2, <2>3 DEF IInv, StateType, TypeOK
  <2>5. AuditPointsToKnowledge BY DEF IInv, RowsOK, TableGood, GoodIn, AuditPointsToKnowledge
  <2> QED BY <2>4, <2>5 DEF AuditConsistent
<1> QED BY <1>1, Inductive, PTL

\* Whatever the worker, the reviewers and the script interleave and wherever
\* they stop, a candidate that became Knowledge was promoted by the gate, or
\* held for review and approved.
THEOREM KnowledgeWasDecided == Spec => []WrittenWasDecided
<1>1. IInv => WrittenWasDecided BY DEF IInv, Traced, Allowed, WrittenWasDecided
<1> QED BY <1>1, Inductive, PTL

\* A client that pages through the pending reviews by cursor misses no review
\* that stayed pending and is shown none twice, whatever the worker adds and
\* the reviewers resolve between two pages.
THEOREM PagingIsComplete == Spec => []ListingComplete
<1>1. IInv => ListingComplete BY DEF IInv, ListingOK, ListerOK, ListingComplete
<1> QED BY <1>1, Inductive, PTL

\* The resolution of a candidate and the decision it resolved never change.
THEOREM ResolutionsAreFinal == Spec => ReviewIsFinal
<1>1. IInv /\ [Next]_vars =>
        [\A c \in Cands : review[c] # "none" => review'[c] = review[c] /\ decision'[c] = decision[c]]_vars
  <2> SUFFICES ASSUME IInv, [Next]_vars, NEW c \in Cands, review[c] # "none"
               PROVE  review'[c] = review[c] /\ decision'[c] = decision[c]
    OBVIOUS
  <2>1. decision[c] # "none" BY DEF IInv, CallsOK, ReviewsOK
  <2> QED BY <2>1, AuditStep DEF IInv
<1> QED BY <1>1, Inductive, PTL DEF Spec, ReviewIsFinal
=============================================================================
