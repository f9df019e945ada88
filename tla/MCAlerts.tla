-------------------------------- MODULE MCAlerts --------------------------------
(***************************************************************************)
(* The two halves of the alerts service in one run; `focus` says which     *)
(* half runs, and on which instance of it:                                 *)
(*   "rules"    passes, failing writes and a stop, without edits           *)
(*   "edits"    passes that PATCH requests overlap                         *)
(*   "stops"    the monitor's loop, its workers, and a stop                *)
(*   "overlap"  the loop and the operator's tick at once                   *)
(***************************************************************************)
EXTENDS AlertRules, ThesisMonitor

CONSTANT Loop       \* the sweeper that is the loop

VARIABLE focus

Rules ==
    /\ RulesNext
    /\ UNCHANGED monitorVars
    /\ focus = "rules" => edit' = edit
    /\ focus = "edits" => stops' = stops /\ savedMarks' = savedMarks /\ saved' = rules'

Monitor ==
    /\ MonitorNext
    /\ UNCHANGED ruleVars
    /\ focus = "stops" => \A s \in Sweepers \ {Loop} : sweep'[s] = Resting
    /\ focus = "overlap" => /\ kills' = kills /\ cut' = cut /\ reviewed' = reviewed
                            /\ leases' = leases \/ overlapped

MCInit ==
    /\ RulesInit /\ MonitorInit
    /\ \A px \in Prices : bar.px =< px
    /\ focus \in {"rules", "edits", "stops", "overlap"}

MCNext ==
    \/ focus \in {"rules", "edits"} /\ Rules /\ UNCHANGED focus
    \/ focus \in {"stops", "overlap"} /\ Monitor /\ UNCHANGED focus

MCSpec == MCInit /\ [][MCNext]_<<ruleVars, monitorVars, focus>>
=============================================================================
