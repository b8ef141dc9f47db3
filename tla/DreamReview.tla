----------------------------- MODULE DreamReview -----------------------------
(***************************************************************************)
(* From a reasoned dream to Knowledge: the worker audits the gate's        *)
(* decisions, writes the promoted candidates and records what it wrote;    *)
(* meanwhile reviewers list, reject and approve the candidates held back,  *)
(* and an operator's script rescues approvals that metadata blocked.  They *)
(* are separate processes that share the audit database and the store, and *)
(* no lock spans a decision, the write it leads to and the record of it.   *)
(*                                                                         *)
(* The gate is abstracted to its outcome, a knowledge store to what        *)
(* KnowledgeEvolution shows it does: append a version unless the head has  *)
(* that content.  A store cut short is completed before the next store of  *)
(* its identity, so its effect is placed where it was cut.                 *)
(***************************************************************************)
EXTENDS Naturals, Sequences, SequencesExt, FiniteSets

CONSTANTS
  Runs,        \* dream runs; every attempt at a job has a fresh one
  Cands,       \* candidates of all runs
  CandsOf,     \* run -> sequence of its candidates
  EntityOf,    \* candidate -> entity it is about
  ContentOf,   \* candidate -> its content
  DomainOf,    \* candidate -> domain its evidence gives, or NoDomain
  RescueDomainOf, \* candidate -> domain the rescue script settles on
  BadEvidence, \* candidates citing evidence outside the snapshot or not stored
  MixedIdentity, \* candidates whose evidence has two owners
  Domains, NoDomain,
  OtherContents, Other, \* what other writers store, and their name
  Reviewers,
  ListClients, \* clients paging through the pending reviews
  PageLimit,   \* rows of one listing page
  MaxReviews, MaxOther, MaxStops, MaxRescues \* bounds on the environment

ASSUME CandsOfAssumption ==
  /\ CandsOf \in [Runs -> Seq(Cands)]
  /\ \A c \in Cands : \E r \in Runs : \E n \in 1..Len(CandsOf[r]) : CandsOf[r][n] = c
  /\ \A r, q \in Runs : \A m \in 1..Len(CandsOf[r]), n \in 1..Len(CandsOf[q]) :
       CandsOf[r][m] = CandsOf[q][n] => r = q /\ m = n

ASSUME DataAssumption ==
  /\ IsFiniteSet(Runs) /\ IsFiniteSet(Cands) /\ PageLimit \in Nat \ {0}
  /\ Other \notin Cands
  /\ DomainOf \in [Cands -> Domains \cup {NoDomain}]
  /\ RescueDomainOf \in [Cands -> Domains \cup {NoDomain}]

VARIABLES
  run,      \* dream_runs: run -> status
  stamp,    \* run -> order of its decisions' created_at
  decision, \* dream_candidate_decisions: candidate -> decision
  review,   \* dream_candidate_reviews: candidate -> resolution
  row,      \* dream_candidate_writes: candidate -> status and knowledge id
  hist,     \* Knowledge: identity -> sequence of versions
  wpc, wloc,  \* the worker
  rpc, rloc,  \* the reviewers' calls
  spc, sloc,  \* the rescue script
  lister,     \* clients paging through the pending reviews
  reviews, others, stops, rescues

vars == <<run, stamp, decision, review, row, hist, wpc, wloc, rpc, rloc, spc, sloc,
          lister, reviews, others, stops, rescues>>
audit == <<run, stamp, decision, review>>
bounds == <<reviews, others, stops, rescues>>

RunOf(c) == CHOOSE r \in Runs : \E n \in 1..Len(CandsOf[r]) : CandsOf[r][n] = c
IndexOf(c) == CHOOSE n \in 1..Len(CandsOf[RunOf(c)]) : CandsOf[RunOf(c)][n] = c
CandsIn(r) == {CandsOf[r][n] : n \in 1..Len(CandsOf[r])}
Identities == {EntityOf[c] : c \in Cands} \X Domains

Decisions == {"promote", "review", "reject"}
WriteStatus == {"written", "skipped_not_promoted", "blocked_metadata", "blocked_evidence_id"}
NoKey == <<Other, NoDomain>>
NoRow == [status |-> "none", key |-> NoKey, version |-> 0]
NoWork == [run |-> CHOOSE r \in Runs : TRUE, at |-> 1, results |-> <<>>]
Idle == [cand |-> Other, resolution |-> "none", domain |-> NoDomain, result |-> NoRow]

-----------------------------------------------------------------------------
(* Writing a candidate *)

\* _domain_for: the override wins, then what the evidence says
KeyOf(c, domain) == <<EntityOf[c], IF domain # NoDomain THEN domain ELSE DomainOf[c]>>

\* write_candidate: the checks before the store, in order
Outcome(c, dec, domain) ==
  CASE dec # "promote" -> "skipped_not_promoted"
    [] dec = "promote" /\ c \in BadEvidence -> "blocked_evidence_id"
    [] dec = "promote" /\ c \notin BadEvidence
       /\ (KeyOf(c, domain)[2] = NoDomain \/ c \in MixedIdentity) -> "blocked_metadata"
    [] OTHER -> "written"

\* What KnowledgeEvolution.store does to an identity: no_change, or a new head
Evolve(k, content, by) ==
  IF hist[k] # <<>> /\ Last(hist[k]).content = content THEN hist
  ELSE [hist EXCEPT ![k] = Append(@, [content |-> content, by |-> by])]

\* Knowledge after write_candidate, and the row that describes it
AfterWrite(c, dec, domain) ==
  IF Outcome(c, dec, domain) = "written" THEN Evolve(KeyOf(c, domain), ContentOf[c], c) ELSE hist

\* Wrong variant: the row names the version that was replaced
RowPrevious(c, dec, domain, h) ==
  [status |-> Outcome(c, dec, domain),
   key |-> IF Outcome(c, dec, domain) = "written" THEN KeyOf(c, domain) ELSE NoKey,
   version |-> IF Outcome(c, dec, domain) = "written" THEN Len(h[KeyOf(c, domain)]) - 1 ELSE 0]

RowFor(c, dec, domain, h) ==
  [status |-> Outcome(c, dec, domain),
   key |-> IF Outcome(c, dec, domain) = "written" THEN KeyOf(c, domain) ELSE NoKey,
   version |-> IF Outcome(c, dec, domain) = "written" THEN Len(h[KeyOf(c, domain)]) ELSE 0]

-----------------------------------------------------------------------------
(* The worker: DreamPromotionCoordinator.evaluate, then write_and_audit *)

\* audit.start; the request id is new for every attempt, so there is no conflict
StartRun(r) ==
  /\ wpc = "idle" /\ run[r] = "none"
  /\ run' = [run EXCEPT ![r] = "processing"]
  /\ wpc' = "evaluate"
  /\ wloc' = [run |-> r, at |-> 1, results |-> <<>>]
  /\ UNCHANGED <<stamp, decision, review, row, hist, rpc, rloc, spc, sloc, lister, bounds>>

\* gate.evaluate and audit.complete: all decisions appear in one transaction
Evaluate ==
  LET r == wloc.run
  IN /\ wpc = "evaluate"
     /\ \E d \in [CandsIn(r) -> Decisions] :
          decision' = [c \in Cands |-> IF c \in CandsIn(r) THEN d[c] ELSE decision[c]]
     /\ run' = [run EXCEPT ![r] = "evaluated"]
     /\ stamp' = [stamp EXCEPT ![r] = 1 + Cardinality({q \in Runs : stamp[q] > 0})]
     /\ wpc' = "write"
     /\ UNCHANGED <<review, row, hist, wloc, rpc, rloc, spc, sloc, lister, bounds>>

\* ... or one of them raises, and the run is marked failed
EvaluateFails ==
  /\ wpc = "evaluate" /\ stops < MaxStops
  /\ stops' = stops + 1
  /\ run' = [run EXCEPT ![wloc.run] = "failed"]
  /\ wpc' = "idle" /\ wloc' = NoWork
  /\ UNCHANGED <<stamp, decision, review, row, hist, rpc, rloc, spc, sloc, lister,
                 reviews, others, rescues>>

\* write_promoted: every candidate in turn, the results kept in memory ...
WriteNext ==
  LET c == CandsOf[wloc.run][wloc.at]
  IN /\ wpc = "write"
     /\ IF wloc.at > Len(CandsOf[wloc.run])
        THEN wpc' = "record" /\ wloc' = [wloc EXCEPT !.at = 1] /\ UNCHANGED hist
        ELSE /\ hist' = AfterWrite(c, decision[c], NoDomain)
             /\ wloc' = [wloc EXCEPT !.at = @ + 1,
                          !.results = Append(@, RowFor(c, decision[c], NoDomain, hist'))]
             /\ UNCHANGED wpc
     /\ UNCHANGED <<audit, row, rpc, rloc, spc, sloc, lister, bounds>>

\* ... and then recorded: INSERT OR REPLACE, whatever the row says by now
RecordNext ==
  /\ wpc = "record"
  /\ IF wloc.at > Len(CandsOf[wloc.run])
     THEN wpc' = "idle" /\ wloc' = NoWork /\ UNCHANGED row
     ELSE /\ row' = [row EXCEPT ![CandsOf[wloc.run][wloc.at]] = wloc.results[wloc.at]]
          /\ wloc' = [wloc EXCEPT !.at = @ + 1]
          /\ UNCHANGED wpc
  /\ UNCHANGED <<audit, hist, rpc, rloc, spc, sloc, lister, bounds>>

\* A store or a record raises, or the process dies; a store that was under way
\* may have taken effect.  The job is retried with a new run.
WorkerStops ==
  /\ wpc # "idle" /\ stops < MaxStops
  /\ stops' = stops + 1
  /\ wpc' = "idle" /\ wloc' = NoWork
  /\ hist' \in {hist} \cup
       (IF wpc = "write" /\ wloc.at <= Len(CandsOf[wloc.run])
        THEN LET c == CandsOf[wloc.run][wloc.at] IN {AfterWrite(c, decision[c], NoDomain)}
        ELSE {})
  /\ UNCHANGED <<audit, row, rpc, rloc, spc, sloc, lister, reviews, others, rescues>>

-----------------------------------------------------------------------------
(* Reviewers: DreamOperations.review *)

GotoR(v, l) == rpc' = [rpc EXCEPT ![v] = l]
Proceed(v, l) == GotoR(v, l) /\ UNCHANGED rloc
Return(v) == GotoR(v, "idle") /\ rloc' = [rloc EXCEPT ![v] = Idle]

\* A call arrives and reads whether the candidate is resolved already
ReviewBegin(v, c, res, domain) ==
  /\ rpc[v] = "idle" /\ reviews < MaxReviews
  /\ reviews' = reviews + 1
  /\ IF review[c] \notin {"none", res} THEN UNCHANGED <<rpc, rloc>>
     ELSE /\ rloc' = [rloc EXCEPT ![v] = [cand |-> c, resolution |-> res,
                                          domain |-> domain, result |-> NoRow]]
          /\ GotoR(v, IF review[c] = "none" THEN "resolve" ELSE "check")
  /\ UNCHANGED <<audit, row, hist, wpc, wloc, spc, sloc, lister, others, stops, rescues>>

\* Wrong variant: the resolution is stored with INSERT OR REPLACE
ResolveReplaces(v) ==
  LET c == rloc[v].cand
  IN /\ rpc[v] = "resolve"
     /\ IF decision[c] = "review"
        THEN review' = [review EXCEPT ![c] = rloc[v].resolution] /\ Proceed(v, "check")
        ELSE Return(v) /\ UNCHANGED review
     /\ UNCHANGED <<run, stamp, decision, row, hist, wpc, wloc, spc, sloc, lister, bounds>>

\* Wrong variant: the resolution is stored in the words of the gate
ResolveAsDecision(v) ==
  LET c == rloc[v].cand
  IN /\ rpc[v] = "resolve"
     /\ IF decision[c] = "review" /\ review[c] = "none"
        THEN review' = [review EXCEPT ![c] = "promote"] /\ Proceed(v, "check")
        ELSE Return(v) /\ UNCHANGED review
     /\ UNCHANGED <<run, stamp, decision, row, hist, wpc, wloc, spc, sloc, lister, bounds>>

\* audit.resolve_review: only a candidate held for review, only once (the
\* primary key refuses the second of two that both saw it unresolved)
Resolve(v) ==
  LET c == rloc[v].cand
  IN /\ rpc[v] = "resolve"
     /\ IF decision[c] = "review" /\ review[c] = "none"
        THEN review' = [review EXCEPT ![c] = rloc[v].resolution] /\ Proceed(v, "check")
        ELSE Return(v) /\ UNCHANGED review
     /\ UNCHANGED <<run, stamp, decision, row, hist, wpc, wloc, spc, sloc, lister, bounds>>

\* Wrong variant: a rejected candidate is written like an approved one
CheckPriorAny(v) ==
  /\ rpc[v] = "check"
  /\ IF row[rloc[v].cand].status = "written" THEN Return(v) ELSE Proceed(v, "write")
  /\ UNCHANGED <<audit, row, hist, wpc, wloc, spc, sloc, lister, bounds>>

\* A rejection ends here; so does an approval whose row says written
CheckPrior(v) ==
  /\ rpc[v] = "check"
  /\ IF rloc[v].resolution # "approved" \/ row[rloc[v].cand].status = "written"
     THEN Return(v) ELSE Proceed(v, "write")
  /\ UNCHANGED <<audit, row, hist, wpc, wloc, spc, sloc, lister, bounds>>

\* The candidate is written as promoted
ReviewWrite(v) ==
  LET c == rloc[v].cand
  IN /\ rpc[v] = "write"
     /\ hist' = AfterWrite(c, "promote", rloc[v].domain)
     /\ rloc' = [rloc EXCEPT ![v].result = RowFor(c, "promote", rloc[v].domain, hist')]
     /\ GotoR(v, "record")
     /\ UNCHANGED <<audit, row, wpc, wloc, spc, sloc, lister, bounds>>

ReviewRecord(v) ==
  /\ rpc[v] = "record"
  /\ row' = [row EXCEPT ![rloc[v].cand] = rloc[v].result]
  /\ Return(v)
  /\ UNCHANGED <<audit, hist, wpc, wloc, spc, sloc, lister, bounds>>

\* A step of the call raises, or the server dies; as for the worker
ReviewStops(v) ==
  /\ rpc[v] # "idle" /\ stops < MaxStops
  /\ stops' = stops + 1
  /\ Return(v)
  /\ hist' \in {hist} \cup
       (IF rpc[v] = "write" THEN {AfterWrite(rloc[v].cand, "promote", rloc[v].domain)} ELSE {})
  /\ UNCHANGED <<audit, row, wpc, wloc, spc, sloc, lister, reviews, others, rescues>>

-----------------------------------------------------------------------------
(* rescue_blocked_candidates.py *)

Rescuable == {c \in Cands : row[c].status = "blocked_metadata" /\ review[c] = "approved"}

\* The rows are selected once, before the first is written
RescueSelect ==
  /\ spc = "idle" /\ rescues < MaxRescues
  /\ rescues' = rescues + 1
  /\ sloc' = [todo |-> Rescuable, cand |-> Other, result |-> NoRow]
  /\ spc' = "write"
  /\ UNCHANGED <<audit, row, hist, wpc, wloc, rpc, rloc, lister, reviews, others, stops>>

\* One of them is written with the domain the script found
RescueWrite(c) ==
  /\ spc = "write" /\ c \in sloc.todo
  /\ hist' = AfterWrite(c, "promote", RescueDomainOf[c])
  /\ sloc' = [todo |-> sloc.todo \ {c}, cand |-> c,
              result |-> RowFor(c, "promote", RescueDomainOf[c], hist')]
  /\ spc' = "record"
  /\ UNCHANGED <<audit, row, wpc, wloc, rpc, rloc, lister, bounds>>

\* ... and its row updated if the write went through
RescueRecord ==
  /\ spc = "record"
  /\ row' = IF sloc.result.status = "written" THEN [row EXCEPT ![sloc.cand] = sloc.result] ELSE row
  /\ sloc' = [sloc EXCEPT !.cand = Other, !.result = NoRow]
  /\ spc' = "write"
  /\ UNCHANGED <<audit, hist, wpc, wloc, rpc, rloc, lister, bounds>>

\* An error on one row is reported and the next one tried
RescueRaises(c) ==
  /\ spc = "write" /\ c \in sloc.todo /\ stops < MaxStops
  /\ stops' = stops + 1
  /\ hist' \in {hist, AfterWrite(c, "promote", RescueDomainOf[c])}
  /\ sloc' = [sloc EXCEPT !.todo = @ \ {c}]
  /\ UNCHANGED <<audit, row, wpc, wloc, rpc, rloc, spc, lister, reviews, others, rescues>>

RescueEnds ==
  /\ spc = "write" /\ sloc.todo = {}
  /\ spc' = "idle"
  /\ UNCHANGED <<audit, row, hist, wpc, wloc, rpc, rloc, sloc, lister, bounds>>

-----------------------------------------------------------------------------
(* Listing the pending reviews, page by page *)

PendingReviews == {c \in Cands : decision[c] = "review" /\ review[c] = "none"}

\* ORDER BY created_at, dream_run_id, candidate_index
Earlier(c, d) == \/ stamp[RunOf(c)] < stamp[RunOf(d)]
                 \/ RunOf(c) = RunOf(d) /\ IndexOf(c) < IndexOf(d)

\* The first rows of a set in that order, at most PageLimit
FirstOf(S) == {c \in S : Cardinality({d \in S : Earlier(d, c)}) < PageLimit}

ListBegin(l) ==
  /\ lister[l].pc = "idle"
  /\ lister' = [lister EXCEPT ![l].pc = "paging", ![l].due = PendingReviews]
  /\ UNCHANGED <<audit, row, hist, wpc, wloc, rpc, rloc, spc, sloc, bounds>>

\* The client's cursor names the last row of the page; an empty page is the end
TakePage(l, page) ==
  LET p == lister[l] IN
  /\ p.pc = "paging"
  /\ lister' = IF page = {} THEN [lister EXCEPT ![l].pc = "done"]
               ELSE [lister EXCEPT ![l] =
                       [p EXCEPT !.seen = p.seen \cup page,
                                 !.twice = p.twice \/ page \cap p.seen # {},
                                 !.cursor = CHOOSE c \in page : \A d \in page : ~Earlier(c, d)]]
  /\ UNCHANGED <<audit, row, hist, wpc, wloc, rpc, rloc, spc, sloc, bounds>>

\* Wrong variant: pages are counted off from the start (LIMIT ? OFFSET ?)
ListPageByOffset(l) ==
  LET n == Cardinality(lister[l].seen)
  IN TakePage(l, {c \in PendingReviews :
                    Cardinality({d \in PendingReviews : Earlier(d, c)}) \in n..(n + PageLimit - 1)})

\* dream_reviews with the cursor of the page before: rows strictly after it
ListPage(l) ==
  TakePage(l, FirstOf({c \in PendingReviews :
                         lister[l].cursor = Other \/ Earlier(lister[l].cursor, c)}))

-----------------------------------------------------------------------------
\* Another writer stores a version of the same identity
OtherStore(k, x) ==
  /\ others < MaxOther
  /\ others' = others + 1
  /\ hist' = Evolve(k, x, Other)
  /\ UNCHANGED <<audit, row, wpc, wloc, rpc, rloc, spc, sloc, lister, reviews, stops, rescues>>

Init ==
  /\ run = [r \in Runs |-> "none"]
  /\ stamp = [r \in Runs |-> 0]
  /\ decision = [c \in Cands |-> "none"]
  /\ review = [c \in Cands |-> "none"]
  /\ row = [c \in Cands |-> NoRow]
  /\ hist = [k \in Identities |-> <<>>]
  /\ wpc = "idle" /\ wloc = NoWork
  /\ rpc = [v \in Reviewers |-> "idle"] /\ rloc = [v \in Reviewers |-> Idle]
  /\ spc = "idle" /\ sloc = [todo |-> {}, cand |-> Other, result |-> NoRow]
  /\ lister = [l \in ListClients |-> [pc |-> "idle", cursor |-> Other, seen |-> {},
                                    twice |-> FALSE, due |-> {}]]
  /\ reviews = 0 /\ others = 0 /\ stops = 0 /\ rescues = 0

WorkerStep == (\E r \in Runs : StartRun(r)) \/ Evaluate \/ WriteNext \/ RecordNext

ReviewStep(v) ==
  \/ \E c \in Cands, res \in {"approved", "rejected"}, d \in Domains \cup {NoDomain} :
       ReviewBegin(v, c, res, d)
  \/ Resolve(v) \/ CheckPrior(v) \/ ReviewWrite(v) \/ ReviewRecord(v)

RescueStep == RescueSelect \/ (\E c \in Cands : RescueWrite(c)) \/ RescueRecord \/ RescueEnds

Next ==
  \/ WorkerStep \/ EvaluateFails \/ WorkerStops
  \/ \E v \in Reviewers : ReviewStep(v) \/ ReviewStops(v)
  \/ RescueStep \/ \E c \in Cands : RescueRaises(c)
  \/ \E l \in ListClients : ListBegin(l) \/ ListPage(l)
  \/ \E k \in Identities, x \in OtherContents : OtherStore(k, x)

Spec == Init /\ [][Next]_vars

-----------------------------------------------------------------------------
(* Properties *)

Rows == [status: WriteStatus \cup {"none"}, key: Identities \cup {NoKey}, version: Nat]

\* Every variable keeps its type: run and candidate statuses, rows that point
\* at identities, and call states of the worker, the reviewers and the script.
TypeOK ==
  /\ run \in [Runs -> {"none", "processing", "evaluated", "failed"}]
  /\ decision \in [Cands -> Decisions \cup {"none"}]
  /\ review \in [Cands -> {"none", "approved", "rejected"}]
  /\ row \in [Cands -> Rows]
  /\ \A k \in Identities : \A n \in 1..Len(hist[k]) :
       hist[k][n].by \in Cands \cup {Other}
  /\ wpc \in {"idle", "evaluate", "write", "record"}
  /\ rpc \in [Reviewers -> {"idle", "resolve", "check", "write", "record"}]
  /\ spc \in {"idle", "write", "record"}
  /\ \A l \in ListClients : lister[l].seen \subseteq Cands

\* The candidate became a version of Knowledge
BecameKnowledge(c) == \E k \in Identities : \E n \in 1..Len(hist[k]) : hist[k][n].by = c

\* Every Knowledge version that Dreaming wrote can be traced to a gate decision
\* that allowed it: promoted, or held for review and approved, whatever crashed
\* between the decision, the write and its record.
WrittenWasDecided ==
  \A c \in Cands : BecameKnowledge(c) =>
    \/ decision[c] = "promote"
    \/ decision[c] = "review" /\ review[c] = "approved"

\* A row that says written points at a version with the candidate's content,
\* however worker, reviewers and script overwrote each other's rows.
AuditPointsToKnowledge ==
  \A c \in Cands : row[c].status = "written" =>
    /\ row[c].version \in 1..Len(hist[row[c].key])
    /\ hist[row[c].key][row[c].version].content = ContentOf[c]

\* A client that pages through the pending reviews while others resolve them
\* and the worker adds new ones sees every review that was pending throughout,
\* and none twice.
ListingComplete ==
  \A l \in ListClients :
    /\ lister[l].pc = "done" => lister[l].due \cap PendingReviews \subseteq lister[l].seen
    /\ ~lister[l].twice

\* A resolution is never changed or withdrawn, and the decision it resolved
\* stays what it was: two reviewers cannot both have their way.
ReviewIsFinal ==
  [][\A c \in Cands : review[c] # "none" =>
       review'[c] = review[c] /\ decision'[c] = decision[c]]_vars

\* The tables of the audit are well formed and true of the Knowledge they name.
AuditConsistent == TypeOK /\ AuditPointsToKnowledge
=============================================================================
