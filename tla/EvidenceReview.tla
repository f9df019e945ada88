----------------------------- MODULE EvidenceReview -----------------------------
(***************************************************************************)
(* From the paper service's payloads to a stored experiment review:        *)
(* the journal reads five payloads one after the other while the service   *)
(* may be reset, redeployed or down (journal/experiment_snapshot.go,       *)
(* paper_client.go, paper/dashboard.go), derives three statuses and the    *)
(* mandatory blockers from what it read, the bridge's three stages add     *)
(* claims and the bridge assembles a review (bridge/review_run.go,         *)
(* review.go, review_assemble.go), and the journal validates what it is    *)
(* sent (journal/experiment_review.go).                                    *)
(*                                                                         *)
(* A path into the snapshot is a tuple <<source, field>> or                *)
(* <<"provenance", field, config>>; a statement is a key.                  *)
(***************************************************************************)
EXTENDS Integers, SequencesExt

CONSTANTS
    Configs,        \* 1 .. n: the enabled configurations, in the order of the payload
    SourceStates,   \* the states a source may be read in
    Worlds,         \* the deployments a snapshot may be taken of
    Keys,           \* statements a stage may write
    MaxItems,       \* reviewMaxItemsPerList, reviewMaxItems
    MaxPaths,       \* reviewMaxPathsPerItem, reviewMaxPaths
    MaxGen,         \* bound: generations
    MaxRaised       \* bound: claims the stages raise

Row == [live : BOOLEAN, trained : {"clean", "synthetic", "unstated"},
        frame : {"real", "synthetic", "unstated"},
        verdict : {"none", "", "EDGE", "NO EDGE", "INCONCLUSIVE", "SUSPECT", "other"},
        current : BOOLEAN, evidence : BOOLEAN]

\* What a payload of the paper service depends on.
World == [gen : 1 .. MaxGen, rev : {1, 2}, started : BOOLEAN, measurable : BOOLEAN,
          healthy : BOOLEAN, agrees : BOOLEAN, ready : BOOLEAN, rows : [Configs -> Row]]

ASSUME ReviewAssumption ==
    /\ Configs = 1 .. Cardinality(Configs) /\ IsFiniteSet(Configs)
    /\ Worlds \subseteq World
    /\ SourceStates \subseteq {"live", "stale", "unavailable"} /\ SourceStates # {}
    /\ {MaxItems, MaxPaths, MaxGen} \subseteq Nat \ {0} /\ MaxRaised \in Nat

\* paperSourceEndpoints: the order of the reads.
Order == <<"readiness", "dashboard", "experiments", "status", "provenance">>
Names == Range(Order)

\* A source as it was read: what the service was, and the generation it stated (0: none).
Reading == [state : {"unread", "live", "stale", "unavailable"}, gen : 0 .. MaxGen, of : World]

Path(source, field) == <<source, field>>
Of(field, c) == <<"provenance", field, c>>

VARIABLES
    world,      \* the paper deployment
    clocks,     \* history: generations whose official clock has started
    page,       \* the dashboard being composed: <<>> or <<the world at its start>>
    retried,    \* the dashboard has been composed again once
    sources,    \* the snapshot's readings
    phase,
    raised,     \* the claims of the stages, in order
    review,     \* the artifact sent to the journal
    rewritten   \* history: the artifact is not the one the bridge assembled

vars == <<world, clocks, page, retried, sources, phase, raised, review, rewritten>>

-----------------------------------------------------------------------------
(* The reading of a snapshot *)

Available(s, n) == s[n].state \in {"live", "stale"}

Generations(s) == {s[n].gen : n \in {m \in Names : Available(s, m)}} \ {0}
Revisions(s)   == {s[n].of.rev : n \in {m \in Names : Available(s, m)}}

\* Mutant: the first stated generation is taken for all.
MixedNever(s) == FALSE

\* agreedGeneration: one stated generation, or 0 when none was stated.
Mixed(s) == Cardinality(Generations(s)) > 1
AgreedGeneration(s) == IF Generations(s) = {} THEN 0 ELSE CHOOSE g \in Generations(s) : TRUE

Blocker(code, paths) == [list |-> "blockers", code |-> code, key |-> code, paths |-> paths]
Given(condition, blocker) == IF condition THEN <<blocker>> ELSE <<>>

\* deriveSnapshotVerdicts: the health of each source, then the revision.
Alphabetical == <<"dashboard", "experiments", "provenance", "readiness", "status">>

SourceBlockers(s) ==
    FlattenSeq([i \in 1 .. 5 |->
        LET n == Alphabetical[i]
        IN  Given(s[n].state = "unavailable",
                  Blocker("source-unavailable", {Path(n, "state"), Path(n, "reason")}))
            \o Given(s[n].state = "stale",
                  Blocker("source-stale", {Path(n, "state"), Path(n, "reportedAsOf")}))])
    \o Given(Cardinality(Revisions(s)) > 1, Blocker("mixed-revision", {<<"revision">>}))

StartedPath == Path("dashboard", "officialStartedAt")

\* derivePaperStatus: has the paper experiment been measured?
PaperStatus(s) ==
    LET w == s["dashboard"].of
    IN  IF ~Available(s, "dashboard")
        THEN [value |-> "unjudged", paths |-> {Path("dashboard", "state")}, blockers |-> <<>>]
        ELSE IF ~w.started
        THEN [value |-> "unjudged", paths |-> {StartedPath},
              blockers |-> <<Blocker("clock-not-started", {StartedPath, Path("dashboard", "clock")})>>]
        ELSE [value |-> IF w.measurable THEN "measurable" ELSE "collecting",
              paths |-> {StartedPath, Path("dashboard", "sample")}, blockers |-> <<>>]

\* candidateRank, least established first.
Ranked == <<"unknown", "inconclusive", "no_edge", "edge">>
Rank(v) == CHOOSE i \in 1 .. 4 : Ranked[i] = v
LeastEstablished(vs) == CHOOSE v \in vs : \A u \in vs : Rank(v) =< Rank(u)

\* The loop of deriveCandidateStatus, for one configuration.
Tainted(row) == row.trained # "clean" \/ row.frame # "real"

\* Mutant: a verdict is read without its provenance.
RowDemotionsUntainted(row) ==
    IF ~row.live THEN {"unknown"}
    ELSE CASE row.verdict = "EDGE" -> {} [] row.verdict = "NO EDGE" -> {"no_edge"}
           [] row.verdict \in {"INCONCLUSIVE", "SUSPECT"} -> {"inconclusive"} [] OTHER -> {"unknown"}

RowDemotions(row) ==
    IF ~row.live \/ Tainted(row) THEN {"unknown"}
    ELSE CASE row.verdict = "EDGE" ->
                IF row.current /\ row.evidence THEN {} ELSE {"inconclusive"}
           [] row.verdict = "NO EDGE" -> {"no_edge"}
           [] row.verdict \in {"INCONCLUSIVE", "SUSPECT"} -> {"inconclusive"}
           [] OTHER -> {"unknown"}

RowBlockers(row, c) ==
    LET when(condition, code, fields) ==
            Given(condition, Blocker(code, {Of(f, c) : f \in fields}))
        judged == row.live /\ row.verdict # "none"
    IN  when(~row.live, "no-evaluator-verdict", {"availability"})
        \o when(row.live /\ row.trained # "clean", "synthetic-trained-model", {"trainedOnSynthetic"})
        \o when(row.live /\ row.frame = "unstated", "synthetic-frame", {"currentData"})
        \o when(row.live /\ row.frame = "synthetic", "synthetic-frame", {"currentData.synthetic"})
        \o when(row.live /\ row.verdict = "none", "no-evaluator-verdict", {"evaluation"})
        \o when(judged /\ row.verdict = "EDGE" /\ ~row.evidence,
                "evidence-not-current", {"evaluation.evidenceCurrent"})
        \o when(judged /\ row.verdict = "EDGE" /\ ~row.current,
                "strategy-version-mismatch", {"evaluation.current", "evaluation.strategyVersion"})
        \o when(judged /\ row.verdict = "NO EDGE", "verdict-not-edge", {"evaluation.verdict"})
        \o when(judged /\ row.verdict = "INCONCLUSIVE", "verdict-inconclusive", {"evaluation.verdict"})
        \o when(judged /\ row.verdict = "SUSPECT", "verdict-suspect", {"evaluation.verdict"})
        \o when(judged /\ row.verdict = "", "no-evaluator-verdict", {"evaluation.verdict"})
        \o when(judged /\ row.verdict = "other", "unrecognised-verdict", {"evaluation.verdict"})

RowPath(row, c) ==
    Of(CASE ~row.live -> "availability"
         [] row.live /\ row.verdict = "none" -> "evaluation"
         [] OTHER -> "evaluation.verdict", c)

\* EvaluatorReading: what the evaluator said, and whether that can be applied.
Verdict(row)  == IF row.live /\ row.verdict # "none" THEN row.verdict ELSE ""
Validity(row) == IF Verdict(row) = "" THEN "unknown" ELSE IF Tainted(row) THEN "invalid" ELSE "valid"

RowsOf(s) == IF Available(s, "provenance") THEN s["provenance"].of.rows ELSE <<>>

CandidateStatus(s) ==
    LET rows == RowsOf(s)
    IN  IF Configs = {} \/ ~Available(s, "provenance")
        THEN [value |-> "unknown", blockers |-> <<>>,
              paths |-> {Path("provenance", IF Available(s, "provenance") THEN "configs" ELSE "state")}]
        ELSE [value |-> LeastEstablished({"edge"} \cup UNION {RowDemotions(rows[c]) : c \in Configs}),
              blockers |-> FlattenSeq([c \in Configs |-> RowBlockers(rows[c], c)]),
              paths |-> {RowPath(rows[c], c) : c \in Configs}]

\* aggregateEvaluatorReadings.
Verdicts(s) == {Verdict(RowsOf(s)[c]) : c \in DOMAIN RowsOf(s)} \ {""}

EvaluatorResult(s) ==
    CASE Verdicts(s) = {} -> ""
      [] Cardinality(Verdicts(s)) > 1 -> "MIXED"
      [] OTHER -> CHOOSE v \in Verdicts(s) : TRUE

EvidenceValidity(s) ==
    CASE Verdicts(s) = {} -> "unknown"
      [] \E c \in DOMAIN RowsOf(s) : Validity(RowsOf(s)[c]) = "invalid" -> "invalid"
      [] OTHER -> "valid"

\* deriveOperationalStatus: unavailable outranks degraded.
OperationalStatus(s) ==
    LET broken(n, ok) == Available(s, n) /\ ~ok
        blockers ==
            Given(broken("dashboard", s["dashboard"].of.healthy),
                  Blocker("integrity-degraded", {Path("dashboard", "integrity"),
                                                 Path("dashboard", "integrityReasons")}))
            \o Given(broken("status", s["status"].of.agrees),
                  Blocker("store-desync", {Path("status", "desyncedConfigs"),
                                           Path("status", "pendingBookings")}))
            \o Given(broken("readiness", s["readiness"].of.ready),
                  Blocker("readiness-blocked", {Path("readiness", "ready"),
                                                Path("readiness", "blockers")}))
        down == {n \in Names : s[n].state = "unavailable"}
        cited == {p \in {Path("dashboard", "integrity"), Path("status", "desyncedConfigs"),
                         Path("readiness", "ready")} : Available(s, p[1])}
                 \cup {Path(n, "state") : n \in down}
    IN  [value |-> CASE down # {} -> "unavailable"
                     [] /\ down = {}
                        /\ blockers # <<>> \/ \E n \in Names : s[n].state = "stale" -> "degraded"
                     [] OTHER -> "verified",
         blockers |-> blockers,
         paths |-> IF cited = {} THEN {Path("dashboard", "state")} ELSE cited]

MandatoryBlockers(s) ==
    SourceBlockers(s) \o PaperStatus(s).blockers \o CandidateStatus(s).blockers
        \o OperationalStatus(s).blockers

\* snapshotPathIndex, snapshotPaths: the fields the stored snapshot really has.
Index(s) ==
    {<<"revision">>}
    \cup {Path(n, "state") : n \in Names}
    \cup {Path(n, "reason") : n \in {m \in Names : s[m].state \in {"unavailable", "stale"}}}
    \cup {Path(n, "reportedAsOf") : n \in {m \in Names : Available(s, m)}}
    \cup {p \in {StartedPath, Path("dashboard", "clock"), Path("dashboard", "sample"),
                 Path("dashboard", "integrity"), Path("dashboard", "integrityReasons"),
                 Path("status", "desyncedConfigs"), Path("status", "pendingBookings"),
                 Path("readiness", "ready"), Path("readiness", "blockers"),
                 Path("provenance", "configs")} : Available(s, p[1])}
    \cup {Of(f, c) : f \in {"availability", "trainedOnSynthetic", "currentData", "evaluation"},
                     c \in DOMAIN RowsOf(s)}
    \cup {Of("currentData.synthetic", c) :
            c \in {d \in DOMAIN RowsOf(s) : RowsOf(s)[d].live /\ RowsOf(s)[d].frame # "unstated"}}
    \cup {Of(f, c) :
            f \in {"evaluation.verdict", "evaluation.current", "evaluation.evidenceCurrent",
                   "evaluation.strategyVersion"},
            c \in {d \in DOMAIN RowsOf(s) : RowsOf(s)[d].live /\ RowsOf(s)[d].verdict # "none"}}

-----------------------------------------------------------------------------
(* The paper deployment, while it is being read *)

Reset ==
    /\ world.gen < MaxGen
    /\ phase = "reading"
    /\ world' = [world EXCEPT !.gen = @ + 1, !.started = FALSE, !.measurable = FALSE]
    /\ UNCHANGED <<clocks, page, retried, sources, phase, raised, review, rewritten>>

StartOfficial ==
    /\ ~world.started
    /\ phase = "reading"
    /\ world' = [world EXCEPT !.started = TRUE]
    /\ clocks' = clocks \cup {world.gen}
    /\ UNCHANGED <<page, retried, sources, phase, raised, review, rewritten>>

Deploy ==
    /\ world.rev = 1
    /\ phase = "reading"
    /\ world' = [world EXCEPT !.rev = 2]
    /\ UNCHANGED <<clocks, page, retried, sources, phase, raised, review, rewritten>>

-----------------------------------------------------------------------------
(* Assembly *)

Unread == {i \in 1 .. 5 : sources[Order[i]].state = "unread"}
NextSource == Order[CHOOSE i \in Unread : \A j \in Unread : i =< j]

Take(n, state, gen, w) ==
    sources' = [sources EXCEPT ![n] =
                   [state |-> state, of |-> w, gen |-> IF state = "unavailable" THEN 0 ELSE gen]]

\* readSnapshotSource: one GET; every failure is a state.
ReadSource ==
    /\ phase = "reading" /\ Unread # {} /\ NextSource # "dashboard"
    /\ \E state \in SourceStates : Take(NextSource, state, world.gen, world)
    /\ UNCHANGED <<world, clocks, page, retried, phase, raised, review, rewritten>>

\* handleDashboard reads the generation, composes the page, and reads it again.
OpenDashboard ==
    /\ phase = "reading" /\ Unread # {} /\ NextSource = "dashboard" /\ page = <<>>
    /\ page' = <<world>>
    /\ UNCHANGED <<world, clocks, retried, sources, phase, raised, review, rewritten>>

\* dashboardReadToken.
SameToken == page[1].gen = world.gen

\* The ledger is read between the two tokens; one that moved is composed again, once.
ServeDashboard ==
    /\ page # <<>>
    /\ page' = <<>>
    /\ IF SameToken
       THEN /\ \E state \in SourceStates :
                 Take("dashboard", state, page[1].gen,
                      [world EXCEPT !.healthy = page[1].healthy])
            /\ UNCHANGED retried
       ELSE /\ retried' = TRUE
            /\ IF retried THEN Take("dashboard", "unavailable", 0, world) ELSE UNCHANGED sources
    /\ UNCHANGED <<world, clocks, phase, raised, review, rewritten>>

\* handleSnapshotCreate: a snapshot that straddles a reset is refused.
AssembleSnapshot ==
    /\ phase = "reading" /\ Unread = {}
    /\ phase' = IF Mixed(sources) THEN "refused" ELSE "stored"
    /\ UNCHANGED <<world, clocks, page, retried, sources, raised, review, rewritten>>

-----------------------------------------------------------------------------
(* The bridge *)

\* Claims a stage may make: of a mandatory blocker, of something else, or citing nothing
\* or a field that is not there.
Citations(s) == {b.paths : b \in Range(MandatoryBlockers(s))}
                \cup {{}, {<<"revision">>}, {Path("dashboard", "invented")}}
Codes(s) == {b.code : b \in Range(MandatoryBlockers(s))} \cup {""}
Claims(s) == [list : {"blockers", "unknowns"}, code : Codes(s), key : Keys, paths : Citations(s)]
Listed(list) == SelectSeq(raised, LAMBDA claim : claim.list = list)

\* convertReviewClaims: an invented citation fails the run, a claim without one is dropped.
RaiseClaim ==
    /\ phase = "stored" /\ Len(raised) < MaxRaised
    /\ \E claim \in Claims(sources) :
        IF claim.paths \subseteq Index(sources)
        THEN /\ claim.paths # {}
             /\ raised' = Append(raised, claim)
             /\ UNCHANGED phase
        ELSE phase' = "failed" /\ UNCHANGED raised
    /\ UNCHANGED <<world, clocks, page, retried, sources, review, rewritten>>

FirstWith(key, claims) == CHOOSE i \in DOMAIN claims :
    claims[i].key = key /\ \A j \in DOMAIN claims : claims[j].key = key => i =< j

\* At most n of a claim's further citations; which ones depends on their order.
Capped(paths, more) ==
    IF Cardinality(paths \cup more) =< MaxPaths THEN paths \cup more
    ELSE CHOOSE p \in SUBSET (paths \cup more) : paths \subseteq p /\ Cardinality(p) = MaxPaths

\* dedupeClaims: the first statement stays, with the first code that is not empty and every path.
Deduped(claims) ==
    LET keep == {i \in DOMAIN claims : i = FirstWith(claims[i].key, claims)}
        same(i) == {j \in DOMAIN claims : claims[j].key = claims[i].key}
        coded(i) == {j \in same(i) : claims[j].code # ""}
        merged(i) ==
            [claims[i] EXCEPT
                !.code = IF coded(i) = {} THEN ""
                         ELSE claims[CHOOSE j \in coded(i) : \A k \in coded(i) : j =< k].code,
                !.paths = Capped(@, UNION {claims[j].paths : j \in same(i)})]
        order == SetToSortSeq(keep, <)
    IN  [k \in DOMAIN order |-> merged(order[k])]

Truncated(claims) == SubSeq(claims, 1, IF Len(claims) < MaxItems THEN Len(claims) ELSE MaxItems)

Status(v) == [value |-> v.value, paths |-> v.paths]

\* Mutant: one blocker for each code.
AssembledOncePerCode(s) ==
    LET all == MandatoryBlockers(s)
        first == {i \in DOMAIN all : \A j \in DOMAIN all : all[j].code = all[i].code => i =< j}
        order == SetToSortSeq(first, <)
    IN  [gen |-> AgreedGeneration(s),
         paper |-> Status(PaperStatus(s)), candidate |-> Status(CandidateStatus(s)),
         operational |-> Status(OperationalStatus(s)),
         result |-> EvaluatorResult(s), validity |-> EvidenceValidity(s),
         blockers |-> [k \in DOMAIN order |-> all[order[k]]], unknowns |-> <<>>]

\* assembleReview: the statuses are copied, the mandatory blockers come first.
Assembled(s) ==
    [gen |-> AgreedGeneration(s),
     paper |-> Status(PaperStatus(s)), candidate |-> Status(CandidateStatus(s)),
     operational |-> Status(OperationalStatus(s)),
     result |-> EvaluatorResult(s), validity |-> EvidenceValidity(s),
     blockers |-> Truncated(MandatoryBlockers(s) \o Deduped(Listed("blockers"))),
     unknowns |-> Deduped(Listed("unknowns"))]

AssembleReview ==
    /\ phase = "stored"
    /\ phase' = "assembled"
    /\ review' = <<Assembled(sources)>>
    /\ UNCHANGED <<world, clocks, page, retried, sources, raised, rewritten>>

\* A worker of another build: it drops a blocker, cites less, or states another status.
WithoutBlocker(r, i) == [r EXCEPT !.blockers = [k \in 1 .. Len(@) - 1 |-> @[IF k < i THEN k ELSE k + 1]]]
CitingLess(r, i, p)  == [r EXCEPT !.blockers = [@ EXCEPT ![i].paths = @ \ {p}]]
Restating(r, value)  == [r EXCEPT !.candidate.value = value]

Rewrite ==
    /\ phase = "assembled" /\ ~rewritten
    /\ rewritten' = TRUE
    /\ LET r == review[1]
       IN  \/ \E i \in DOMAIN r.blockers : review' = <<WithoutBlocker(r, i)>>
           \/ \E i \in DOMAIN r.blockers : \E p \in r.blockers[i].paths : review' = <<CitingLess(r, i, p)>>
           \/ \E v \in Range(Ranked) : review' = <<Restating(r, v)>>
    /\ UNCHANGED <<world, clocks, page, retried, sources, phase, raised>>

-----------------------------------------------------------------------------
(* Validation in the journal *)

\* Mutant: a blocker is answered by its code alone.
AnsweredByCode(want, got) == \E i \in DOMAIN got : got[i].code = want.code

\* blockerAnswered: by its code and every field it cites.
Answered(want, got) ==
    \E i \in DOMAIN got : got[i].code = want.code /\ want.paths \subseteq got[i].paths

\* validateReviewPaths.
Resolves(paths, s) == paths # {} /\ Cardinality(paths) =< MaxPaths /\ paths \subseteq Index(s)

StatusHolds(got, derived, s) == got.value = derived.value /\ Resolves(got.paths, s)

\* validateExperimentReview.
Accepts(r, s) ==
    /\ r.gen = AgreedGeneration(s)
    /\ r.result = EvaluatorResult(s) /\ r.validity = EvidenceValidity(s)
    /\ StatusHolds(r.paper, PaperStatus(s), s)
    /\ StatusHolds(r.candidate, CandidateStatus(s), s)
    /\ StatusHolds(r.operational, OperationalStatus(s), s)
    /\ Len(r.blockers) =< MaxItems /\ Len(r.unknowns) =< MaxItems
    /\ \A claim \in Range(r.blockers \o r.unknowns) : Resolves(claim.paths, s)
    /\ \A want \in Range(MandatoryBlockers(s)) : Answered(want, r.blockers)

Upload ==
    /\ phase = "assembled"
    /\ phase' = IF Accepts(review[1], sources) THEN "accepted" ELSE "rejected"
    /\ UNCHANGED <<world, clocks, page, retried, sources, raised, review, rewritten>>

-----------------------------------------------------------------------------
Init ==
    /\ world \in Worlds
    /\ clocks = IF world.started THEN {world.gen} ELSE {}
    /\ page = <<>> /\ retried = FALSE
    /\ sources = [n \in Names |-> [state |-> "unread", gen |-> 0, of |-> world]]
    /\ phase = "reading"
    /\ raised = <<>> /\ review = <<>> /\ rewritten = FALSE

Next ==
    \/ Reset \/ StartOfficial \/ Deploy
    \/ ReadSource \/ OpenDashboard \/ ServeDashboard \/ AssembleSnapshot
    \/ RaiseClaim \/ AssembleReview \/ Rewrite \/ Upload

Spec == Init /\ [][Next]_vars

-----------------------------------------------------------------------------
(* Properties *)

(***************************************************************************)
(* A stored snapshot is of one experiment (experiment_snapshot.go:171      *)
(* errMixedGeneration, paper/dashboard.go:92): a clock that its dashboard  *)
(* shows running did start in the generation the snapshot names, whatever  *)
(* resets cross the five reads or the composition of the dashboard.        *)
(***************************************************************************)
SnapshotIsOfOneExperiment ==
    phase \notin {"reading", "refused"} /\ PaperStatus(sources).value # "unjudged" =>
        AgreedGeneration(sources) \in clocks

(***************************************************************************)
(* `edge` is earned (experiment_snapshot.go:615-617): only by a deployment *)
(* in which every configuration was read live, trained on and scoring real *)
(* data, with an EDGE verdict that is current and has its evidence.        *)
(***************************************************************************)
Earned(row) ==
    row.live /\ row.trained = "clean" /\ row.frame = "real" /\ row.verdict = "EDGE"
        /\ row.current /\ row.evidence

EdgeIsEarned ==
    phase = "accepted" /\ review[1].candidate.value = "edge" =>
        \A c \in Configs : Earned(world.rows[c])

(***************************************************************************)
(* What the bridge assembles passes the journal's validation: the two      *)
(* restatements of the rules agree, whatever was read and whatever the     *)
(* stages added (bridge/review_assemble.go:92, experiment_review.go:150).  *)
(***************************************************************************)
OwnReviewIsAccepted == phase = "rejected" => rewritten

(***************************************************************************)
(* Nothing bad is dropped (experiment_review.go:290-308,                   *)
(* experiment_snapshot.go:231-241): an accepted review, whoever assembled  *)
(* it, names every source that could not be read or was old, every         *)
(* configuration on synthetic data and every negative verdict, each by its *)
(* own field.  It states every verdict that was read, or MIXED, and calls  *)
(* it valid only when each rests on real data.                             *)
(***************************************************************************)
Cites(field) == \E b \in Range(review[1].blockers) : field \in b.paths

VerdictIsStated ==
    LET rows == RowsOf(sources)
        judged == {c \in DOMAIN rows : rows[c].live /\ rows[c].verdict \notin {"none", ""}}
    IN  /\ \A c \in judged : review[1].result \in {rows[c].verdict, "MIXED"}
        /\ review[1].validity = "valid" =>
                judged # {} /\ \A c \in judged : ~Tainted(rows[c])

NothingBadIsDropped ==
    phase = "accepted" =>
        /\ Available(sources, "provenance") => VerdictIsStated
        /\ \A n \in Names : sources[n].state # "live" => Cites(Path(n, "state"))
        /\ \A c \in DOMAIN RowsOf(sources) :
            LET row == RowsOf(sources)[c]
            IN  /\ ~row.live => Cites(Of("availability", c))
                /\ row.live /\ row.trained # "clean" => Cites(Of("trainedOnSynthetic", c))
                /\ row.live /\ row.verdict \in {"NO EDGE", "SUSPECT"} =>
                        Cites(Of("evaluation.verdict", c))

=============================================================================
