------------------------------ MODULE MCAutomation ------------------------------
(***************************************************************************)
(* The automation of the Python services and the gateway in one run: the   *)
(* lane ledger, the model lease, the ingestion of a story, the challenger  *)
(* trials and the analyst's runs. Their rows, files and locks are not      *)
(* shared, so each behaviour runs one of them, `part`, while the others    *)
(* stay as they started. The trials are run twice: a lease that lapses     *)
(* between two controllers over one evaluation of their own, and one       *)
(* controller with every evaluation and fault, and bars that complete      *)
(* between its passes.                                                     *)
(***************************************************************************)
EXTENDS LaneLedger, ModelLease, EventCorpus, ModelTrials, AnalystRuns

VARIABLE part

MCInit ==
    /\ part \in {"lane", "model", "corpus", "lapse", "trials", "analyst"}
    /\ LaneInit /\ ModelInit /\ CorpusInit /\ TrialInit /\ AnalystInit

OnlyController == CHOOSE c \in Controllers : TRUE

TrialsAsIn(story) ==
    IF story = "trials"
    THEN /\ overruns' = 0 /\ \A c \in Controllers \ {OnlyController} : pass'[c] = pass[c]
         /\ bars' # bars => PassAt(OnlyController, "idle")
         /\ verdicts' # verdicts => \E r \in DOMAIN evals : evals[r] = "going" /\ evals'[r] = "done"
    ELSE /\ trialFaults' = 0 /\ evals' \in {<<>>, <<"going">>, <<"done">>}
         /\ evals' = <<"going">> /\ evals = <<>> => \E c \in Controllers : PassAt(c, "post")
         /\ evals' = <<"done">> => verdicts' = Models

\* The last pass starts alone, over what the passes side by side have left.
LastAlone ==
    began' # began /\ began' = MaxIngests => \A i \in Ingests : In(i, "idle")

Runs(p) ==
    /\ part = p /\ UNCHANGED part
    /\ p = "lane" \/ UNCHANGED laneVars
    /\ p = "model" \/ UNCHANGED modelVars
    /\ p = "corpus" \/ UNCHANGED corpusVars
    /\ p \in {"lapse", "trials"} \/ UNCHANGED trialVars
    /\ p = "analyst" \/ UNCHANGED analystVars

MCNext ==
    \/ Runs("lane") /\ LaneNext
    \/ Runs("model") /\ ModelNext
    \/ Runs("corpus") /\ CorpusNext /\ LastAlone
    \/ Runs("lapse") /\ TrialNext /\ TrialsAsIn("lapse")
    \/ Runs("trials") /\ TrialNext /\ TrialsAsIn("trials")
    \/ Runs("analyst") /\ AnalystNext

MCSpec == MCInit /\ [][MCNext]_<<part, laneVars, modelVars, corpusVars, trialVars, analystVars>>
=================================================================================
