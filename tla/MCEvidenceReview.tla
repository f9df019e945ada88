---------------------------- MODULE MCEvidenceReview ----------------------------
(***************************************************************************)
(* Three families of snapshots in one run: "rows" varies what the          *)
(* evaluator said of each configuration, "health" what can be read, in     *)
(* what state, across resets and deploys, "claims" what the stages and     *)
(* workers of another build make of it.                                    *)
(***************************************************************************)
EXTENDS EvidenceReview

CONSTANT NumConfigs

VARIABLE family

MCConfigs == 1 .. NumConfigs

Good == [live |-> TRUE, trained |-> "clean", frame |-> "real", verdict |-> "EDGE",
         current |-> TRUE, evidence |-> TRUE]

\* currency and evidence are only looked at under EDGE, nothing else when the row is not live;
\* many configurations all have their edge
Rows == IF NumConfigs > 2 THEN {Good} ELSE
        {row \in Row :
            /\ row.verdict # "EDGE" => row.current /\ row.evidence
            /\ ~row.live => row = [Good EXCEPT !.live = FALSE]}

Clean == [gen |-> 1, rev |-> 1, started |-> TRUE, measurable |-> TRUE, healthy |-> TRUE,
          agrees |-> TRUE, ready |-> TRUE, rows |-> [c \in MCConfigs |-> Good]]

RowWorlds    == {[Clean EXCEPT !.rows = rows] : rows \in [MCConfigs -> Rows]}
HealthWorlds == {[Clean EXCEPT !.started = t, !.measurable = t, !.healthy = h, !.agrees = h, !.ready = h] :
                    t, h \in BOOLEAN}
ClaimWorlds  == {[Clean EXCEPT !.started = FALSE, !.rows = [c \in MCConfigs |-> row]] :
                    row \in {[Good EXCEPT !.verdict = "NO EDGE", !.trained = "synthetic"]}}

MCWorlds == RowWorlds \cup HealthWorlds \cup ClaimWorlds

\* The states the sources outside `names` are not read in.
Only(names, states) == \A n \in Names \ names : sources'[n].state \notin states

Stays ==
    /\ family # "claims" => raised' = raised /\ phase' # "failed" /\ rewritten' = rewritten
    /\ Cardinality({n \in Names : sources'[n].state \in {"stale", "unavailable"}}) =< 2
    /\ world'.gen = 1 \/ world'.rev = 1
    /\ family # "health" => world' = world /\ Only({}, {"stale"})
    /\ family = "rows"   => Only({"provenance"}, {"unavailable"})
    /\ family = "claims" => Only({}, {"unavailable"}) /\ (rewritten' => Len(raised') =< 1)

MCInit ==
    /\ Init
    /\ \/ family = "rows"   /\ world \in RowWorlds
       \/ family = "health" /\ world \in HealthWorlds
       \/ family = "claims" /\ world \in ClaimWorlds

MCSpec == MCInit /\ [][Next /\ Stays /\ UNCHANGED family]_<<vars, family>>
=============================================================================
