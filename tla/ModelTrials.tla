------------------------------ MODULE ModelTrials ------------------------------
(***************************************************************************)
(* The challenger automation of services/prediction: controllers           *)
(* (autonomy.py) that reserve, train and judge trials in PostgreSQL        *)
(* (db.py), the evaluator they share with the operator (evalrun.py), and   *)
(* the paired scoring of a trial on later bars (shadow.py).                *)
(*                                                                         *)
(* A controller's pass is a chain of statements and HTTP calls; it may     *)
(* stop anywhere, and its lease may lapse under it. A bar is its number, an *)
(* evaluation run its number in the order of the starts. What the models   *)
(* score is left out: a paired row is its bar and the bar that settled it. *)
(***************************************************************************)
EXTENDS Naturals, Sequences, FiniteSets

CONSTANTS
    Controllers,    \* replicas of the supervised process
    Models,         \* PREDICTION_AUTOMATION_CONFIGS
    MaxTrials,      \* PREDICTION_AUTOMATION_MAX_TRIALS
    MinNewBars,     \* PREDICTION_AUTOMATION_MIN_NEW_BARS
    PairedBars,     \* PREDICTION_SHADOW_MIN_PAIRED_BARS
    MaxBar, MaxEvals, MaxTrialTroubles   \* bounds: MaxTrialTroubles on overruns and faults together

ASSUME TrialAssumption == /\ MaxTrials \in Nat \ {0} /\ MinNewBars \in Nat \ {0}
                          /\ PairedBars \in Nat \ {0} /\ MaxBar \in Nat /\ MaxEvals \in Nat

VARIABLES
    bars,           \* the last completed bar of each model's series
    turn,           \* the controller's lease: who holds it, and whether it has expired
    trials,         \* automation_trials, in the order of their creation
    paired,         \* automation_shadow_observations: trial -> set of [bar, next]
    verdicts,       \* the models with a stored verdict
    evals,          \* the evaluator's processes: "going", "done" or "failed"
    runner,         \* the lock's run, the last run's record, the runs the service still watches
    pass,           \* memory: where each controller is
    overruns,       \* history: leases that lapsed under a running pass
    crossed,        \* history: a lock was reclaimed that its watcher had yet to release
    trialFaults     \* bound: stops, calls and writes that fail

trialVars == <<bars, turn, trials, paired, verdicts, evals, runner, pass, overruns,
              crossed, trialFaults>>
evalVars == <<verdicts, evals, runner, crossed>>
NoOne == "nobody"
Open == {"reserved", "trained", "evaluating", "evaluated", "evaluation-failed", "shadowing"}
Shadowed == {"evaluated", "evaluation-failed", "shadowing"}
Resting == [at |-> "idle", saw |-> [state |-> "idle", run |-> 0], again |-> FALSE, open |-> {},
            todo |-> {}, on |-> 0, was |-> {}, model |-> NoOne, bar |-> 0, appended |-> FALSE]

TrialTroubles == overruns + trialFaults
Fails == TrialTroubles < MaxTrialTroubles /\ trialFaults' = trialFaults + 1
TrialIds == DOMAIN trials
Of(k) == {t \in TrialIds : trials[t].model = k}

TrialInit ==
    /\ bars = [k \in Models |-> 0]
    /\ turn = [by |-> NoOne, lapsed |-> FALSE]
    /\ trials = <<>> /\ paired = <<>>
    /\ verdicts = {} /\ evals = <<>>
    /\ runner = [lock |-> 0, last |-> 0, state |-> "none", watched |-> {}, noted |-> {}]
    /\ pass = [c \in Controllers |-> Resting]
    /\ overruns = 0 /\ crossed = FALSE /\ trialFaults = 0

-----------------------------------------------------------------------------
\* The evaluator. `start` runs inside one request of the service's only event loop.

Going(r) == r # 0 /\ evals[r] = "going"

\* _acquire: a lock whose process is gone is reclaimed.
MayStart == ~Going(runner.lock) /\ Len(evals) < MaxEvals

StartRun ==
    /\ evals' = Append(evals, "going")
    /\ runner' = [runner EXCEPT !.lock = Len(evals) + 1, !.last = Len(evals) + 1,
                                !.state = "running", !.watched = @ \cup {Len(evals) + 1}]
    /\ crossed' = (crossed \/ runner.lock \in runner.watched \cup runner.noted)

\* POST /evaluate/run by the operator.
StartManually ==
    /\ MayStart /\ StartRun
    /\ UNCHANGED <<bars, turn, trials, paired, verdicts, pass, overruns, trialFaults>>

\* The harness exits; a config it had no data for keeps the verdict it had.
EndRun(r, how, written) ==
    /\ Going(r)
    /\ evals' = [evals EXCEPT ![r] = how]
    /\ verdicts' = verdicts \cup written
    /\ UNCHANGED <<bars, turn, trials, paired, runner, crossed, pass, overruns, trialFaults>>

\* _watch: the outcome is recorded, or fails to be; then the lock file is unlinked, whosever it is.
NoteRun(r) ==
    /\ r \in runner.watched /\ ~Going(r)
    /\ \/ /\ runner' = [runner EXCEPT !.watched = @ \ {r}, !.noted = @ \cup {r},
                                      !.last = r, !.state = evals[r]]
          /\ UNCHANGED trialFaults
       \/ Fails /\ runner' = [runner EXCEPT !.watched = @ \ {r}, !.noted = @ \cup {r}]
    /\ UNCHANGED <<bars, turn, trials, paired, verdicts, evals, crossed, pass, overruns>>

FreeRun(r) ==
    /\ r \in runner.noted
    /\ runner' = [runner EXCEPT !.noted = @ \ {r}, !.lock = 0]
    /\ UNCHANGED <<bars, turn, trials, paired, verdicts, evals, crossed, pass, overruns, trialFaults>>

\* The service restarts: nobody watches the runs any more, which go on or are killed with it.
RestartService ==
    /\ runner.watched \cup runner.noted # {} /\ Fails
    /\ runner' = [runner EXCEPT !.watched = {}, !.noted = {}]
    /\ \/ UNCHANGED evals
       \/ evals' = [r \in DOMAIN evals |-> IF Going(r) THEN "failed" ELSE evals[r]]
    /\ UNCHANGED <<bars, turn, trials, paired, verdicts, crossed, pass, overruns>>

\* GET /evaluate/status.
Status ==
    IF runner.lock # 0
    THEN [state |-> IF Going(runner.lock) THEN "running" ELSE "failed", run |-> runner.lock]
    ELSE [state |-> CASE runner.state = "none" -> "idle"
                      [] runner.state = "running" -> "failed"
                      [] OTHER -> runner.state,
          run |-> runner.last]

-----------------------------------------------------------------------------
\* The lease of a pass, and its end.

PassAt(c, where) == pass[c].at = where
PassMoves(c, where) == pass' = [pass EXCEPT ![c].at = where]

BeginPass(c) ==
    /\ PassAt(c, "idle")
    /\ turn.by = NoOne \/ turn.lapsed
    /\ turn' = [by |-> c, lapsed |-> FALSE]
    /\ PassMoves(c, "status")
    /\ UNCHANGED <<bars, trials, paired, evalVars, overruns, trialFaults>>

\* lease_expires_at passes: under a pass that goes on, or after one that stopped.
Lapse ==
    /\ turn.by # NoOne /\ ~turn.lapsed
    /\ \/ PassAt(turn.by, "idle") /\ UNCHANGED overruns
       \/ ~PassAt(turn.by, "idle") /\ TrialTroubles < MaxTrialTroubles /\ overruns' = overruns + 1
    /\ turn' = [turn EXCEPT !.lapsed = TRUE]
    /\ UNCHANGED <<bars, trials, paired, evalVars, pass, trialFaults>>

\* run_once's finally: only the token's own lease is cleared.
EndPass(c) ==
    /\ PassAt(c, "release")
    /\ turn' = IF turn.by = c THEN [by |-> NoOne, lapsed |-> FALSE] ELSE turn
    /\ pass' = [pass EXCEPT ![c] = Resting]
    /\ UNCHANGED <<bars, trials, paired, evalVars, overruns, trialFaults>>

\* A call fails and the error ends the pass.
Raise(c) ==
    /\ pass[c].at \in {"status", "post", "reserve"} /\ Fails
    /\ pass' = [pass EXCEPT ![c] = [Resting EXCEPT !.at = "release"]]
    /\ UNCHANGED <<bars, turn, trials, paired, evalVars, overruns>>

StopPass(c) ==
    /\ ~PassAt(c, "idle") /\ Fails
    /\ pass' = [pass EXCEPT ![c] = Resting]
    /\ UNCHANGED <<bars, turn, trials, paired, evalVars, overruns>>

-----------------------------------------------------------------------------
\* _reconcile_evaluation.

ReadStatus(c) ==
    /\ PassAt(c, "status")
    /\ pass' = [pass EXCEPT ![c].at = "judge", ![c].saw = Status]
    /\ UNCHANGED <<bars, turn, trials, paired, evalVars, overruns, trialFaults>>

\* Mutant: the newest finished run is taken for the trial's own.
AttachedToAny(saw, t) == TRUE

\* "A completed manual/older run must not be attached to a newer autonomous trial."
Attached(saw, t) == saw.run = trials[t].run

Judged(saw, t) ==
    LET trial == trials[t] IN
    IF trial.status # "evaluating" THEN trial
    ELSE IF Attached(saw, t) /\ saw.state = "done" /\ trial.model \in verdicts
    THEN [trial EXCEPT !.status = "evaluated", !.judged = saw.run, !.fine = TRUE]
    ELSE IF Attached(saw, t) \/ saw.run > trial.run
    THEN [trial EXCEPT !.status = "evaluation-failed", !.judged = saw.run]
    ELSE trial

Judge(c) ==
    LET saw == pass[c].saw
        after == IF saw.state \in {"done", "failed"} THEN [t \in TrialIds |-> Judged(saw, t)]
                                                     ELSE trials
    IN  /\ PassAt(c, "judge")
        /\ trials' = after
        /\ pass' = [pass EXCEPT ![c].at = "shadow", ![c].again = after # trials,
                                ![c].saw = IF saw.state = "running" THEN [saw EXCEPT !.run = 0]
                                                                    ELSE Resting.saw,
                                ![c].todo = {t \in TrialIds : after[t].status \in Shadowed},
                                ![c].was = {t \in TrialIds : after[t].status = "shadowing"}]
        /\ UNCHANGED <<bars, turn, paired, evalVars, overruns, trialFaults>>

-----------------------------------------------------------------------------
\* _advance_shadows: both versions score the newest bar, and the previous pair is settled by it.

SettledRows(t) == {row \in paired[t] : row.next # 0}
Newest(t) == {row \in paired[t] : \A other \in paired[t] : other.bar <= row.bar}

ScoreTrial(c, t) ==
    /\ PassAt(c, "shadow") /\ t \in pass[c].todo
    /\ \/ pass' = [pass EXCEPT ![c].todo = @ \ {t}] /\ UNCHANGED trials    \* ShadowDeferred
       \/ /\ trials' = [trials EXCEPT ![t].status = "shadow-failed"]       \* ShadowInvalid
          /\ pass' = [pass EXCEPT ![c].todo = @ \ {t}]
       \/ /\ pass' = [pass EXCEPT ![c].at = "previous", ![c].on = t,
                                  ![c].bar = bars[trials[t].model]]
          /\ UNCHANGED trials
    /\ UNCHANGED <<bars, turn, paired, evalVars, overruns, trialFaults>>

\* record_shadow_bar's SELECT ... FOR UPDATE: which row is the newest is decided here; what it holds
\* is read when the lock is granted, in RecordPair.
FindPrevious(c) ==
    /\ PassAt(c, "previous")
    /\ pass' = [pass EXCEPT ![c].at = "record", ![c].open = {row.bar : row \in Newest(pass[c].on)}]
    /\ UNCHANGED <<bars, turn, trials, paired, evalVars, overruns, trialFaults>>

RecordPair(c) ==
    LET t == pass[c].on
        bar == pass[c].bar
        settle == {IF row.bar \in pass[c].open /\ row.next = 0 THEN [row EXCEPT !.next = bar]
                                                               ELSE row : row \in paired[t]}
        full == Cardinality({row \in settle : row.next # 0}) >= PairedBars
        later == \A old \in pass[c].open : bar > old
        clash == \E row \in paired[t] : row.bar = bar
        rest == [pass[c] EXCEPT !.open = {}]
    IN  /\ PassAt(c, "record")
        /\ paired' = [paired EXCEPT ![t] =
                        IF ~later \/ (clash /\ ~full) THEN @
                        ELSE IF full THEN settle ELSE settle \cup {[bar |-> bar, next |-> 0]}]
        /\ pass' = [pass EXCEPT ![c] =
                        IF later /\ clash /\ ~full THEN [Resting EXCEPT !.at = "release"]
                        ELSE [rest EXCEPT !.at = "mark", !.appended = later /\ ~full]]
        /\ UNCHANGED <<bars, turn, trials, evalVars, overruns, trialFaults>>

\* advance_trial: the status follows what is settled and what the listing said it was, with no look
\* at what it is by now.
MarkShadow(c) ==
    LET t == pass[c].on IN
    /\ PassAt(c, "mark")
    /\ trials' =
         IF Cardinality(SettledRows(t)) >= PairedBars
         THEN [trials EXCEPT ![t].status = "shadow-complete"]
         ELSE IF pass[c].appended /\ t \notin pass[c].was
              THEN [trials EXCEPT ![t].status = "shadowing"] ELSE trials
    /\ pass' = [pass EXCEPT ![c] = [@ EXCEPT !.at = "shadow", !.todo = @ \ {t}, !.on = 0,
                                             !.bar = 0, !.appended = FALSE]]
    /\ UNCHANGED <<bars, turn, paired, evalVars, overruns, trialFaults>>

-----------------------------------------------------------------------------
\* _train_due_configs.

ListOpen(c) ==
    /\ PassAt(c, "shadow") /\ pass[c].todo = {}
    /\ pass' = [pass EXCEPT ![c].at = "train", ![c].todo = Models, ![c].was = {},
                            ![c].open = {k \in Models : \E t \in Of(k) : trials[t].status \in Open}]
    /\ UNCHANGED <<bars, turn, trials, paired, evalVars, overruns, trialFaults>>

\* Mutant: a failed attempt does not spend the budget.
SpentByModels(k) == Cardinality({t \in Of(k) : trials[t].status # "training-failed"})

\* count_automation_trials.
Spent(k) == Cardinality(Of(k))

\* automation_trial_baseline: the newest trial that has a cutoff, or the active model's.
Baseline(k) ==
    LET cut == {t \in Of(k) : trials[t].through # 0} IN
    IF cut = {} THEN 0 ELSE trials[CHOOSE t \in cut : \A u \in cut : u <= t].through

Consider(c, k) ==
    /\ PassAt(c, "train") /\ k \in pass[c].todo
    /\ pass' = [pass EXCEPT ![c] =
                  IF k \in @.open \/ Spent(k) >= MaxTrials THEN [@ EXCEPT !.todo = @ \ {k}]
                  ELSE [@ EXCEPT !.at = "progress", !.todo = @ \ {k}, !.model = k]]
    /\ UNCHANGED <<bars, turn, trials, paired, evalVars, overruns, trialFaults>>

\* _bar_progress: too few new bars, or a frame that cannot be used, skips the config.
Progress(c) ==
    LET k == pass[c].model IN
    /\ PassAt(c, "progress")
    /\ \/ pass' = [pass EXCEPT ![c] = [@ EXCEPT !.at = "train", !.model = NoOne]]
       \/ /\ bars[k] >= Baseline(k) + MinNewBars
          /\ pass' = [pass EXCEPT ![c].at = "reserve", ![c].bar = bars[k]]
    /\ UNCHANGED <<bars, turn, trials, paired, evalVars, overruns, trialFaults>>

\* reserve_automation_trial: INSERT ... ON CONFLICT (config, trigger bar) DO NOTHING.
ReserveTrial(c) ==
    LET k == pass[c].model
        taken == \E t \in Of(k) : trials[t].bar = pass[c].bar
    IN  /\ PassAt(c, "reserve")
        /\ IF taken
           THEN /\ pass' = [pass EXCEPT ![c] = [@ EXCEPT !.at = "train", !.model = NoOne, !.bar = 0]]
                /\ UNCHANGED <<trials, paired>>
           ELSE /\ trials' = Append(trials, [model |-> k, bar |-> pass[c].bar, status |-> "reserved",
                                             through |-> 0, since |-> 0, run |-> 0, judged |-> 0,
                                             fine |-> FALSE])
                /\ paired' = Append(paired, {})
                /\ pass' = [pass EXCEPT ![c].at = "training", ![c].on = Len(trials) + 1]
        /\ UNCHANGED <<bars, turn, evalVars, overruns, trialFaults>>

\* The training call returns or fails, and the trial says so; or the row cannot be written, twice,
\* and stays reserved. `since` keeps how many evaluations had begun by then.
FinishTraining(c) ==
    LET t == pass[c].on
        done == [pass[c] EXCEPT !.model = NoOne, !.bar = 0, !.on = 0]
    IN  /\ PassAt(c, "training")
        /\ \/ /\ \E through \in pass[c].bar .. bars[pass[c].model] :
                    trials' = [trials EXCEPT ![t] = [@ EXCEPT !.status = "trained", !.through = through,
                                                              !.since = Len(evals)]]
              /\ pass' = [pass EXCEPT ![c] = [done EXCEPT !.at = "train"]]
              /\ UNCHANGED trialFaults
           \/ /\ trials' = [trials EXCEPT ![t].status = "training-failed"]
              /\ pass' = [pass EXCEPT ![c] = [done EXCEPT !.at = "train"]]
              /\ UNCHANGED trialFaults
           \/ /\ Fails
              /\ pass' = [pass EXCEPT ![c] = [Resting EXCEPT !.at = "release"]]
              /\ UNCHANGED trials
        /\ UNCHANGED <<bars, turn, paired, evalVars, overruns>>

-----------------------------------------------------------------------------
\* _start_evaluation: one run for every trained trial.

ListTrained(c) ==
    LET saw == IF pass[c].again THEN Status ELSE pass[c].saw
        trained == {t \in TrialIds : trials[t].status = "trained"}
    IN  /\ PassAt(c, "train") /\ pass[c].todo = {}
        /\ pass' = [pass EXCEPT ![c] =
                      IF trained = {} \/ saw.state = "running"
                      THEN [Resting EXCEPT !.at = "release"]
                      ELSE [Resting EXCEPT !.at = "post", !.todo = trained]]
        /\ UNCHANGED <<bars, turn, trials, paired, evalVars, overruns, trialFaults>>

\* POST /evaluate/run: 202 with the start, an answer that is lost, or 409.
PostRun(c) ==
    /\ PassAt(c, "post")
    /\ IF Going(runner.lock)
       THEN PassMoves(c, "release") /\ UNCHANGED <<evals, runner, crossed, trialFaults>>
       ELSE /\ MayStart /\ StartRun
            /\ \/ /\ pass' = [pass EXCEPT ![c].at = "posted", ![c].on = Len(evals) + 1]
                  /\ UNCHANGED trialFaults
               \/ Fails /\ PassMoves(c, "release")
    /\ UNCHANGED <<bars, turn, trials, paired, verdicts, overruns>>

MarkEvaluating(c) ==
    /\ PassAt(c, "posted")
    /\ trials' = [t \in TrialIds |->
                    IF t \in pass[c].todo /\ trials[t].status = "trained"
                    THEN [trials[t] EXCEPT !.status = "evaluating", !.run = pass[c].on] ELSE trials[t]]
    /\ pass' = [pass EXCEPT ![c] = [Resting EXCEPT !.at = "release"]]
    /\ UNCHANGED <<bars, turn, paired, evalVars, overruns, trialFaults>>

CompleteBar(k) ==
    /\ bars[k] < MaxBar
    /\ bars' = [bars EXCEPT ![k] = @ + 1]
    /\ UNCHANGED <<turn, trials, paired, evalVars, pass, overruns, trialFaults>>

TrialNext ==
    \/ StartManually \/ RestartService \/ Lapse
    \/ \E r \in DOMAIN evals : NoteRun(r) \/ FreeRun(r)
    \/ \E r \in DOMAIN evals, how \in {"done", "failed"}, written \in SUBSET Models : EndRun(r, how, written)
    \/ \E k \in Models : CompleteBar(k)
    \/ \E c \in Controllers :
         \/ BeginPass(c) \/ EndPass(c) \/ Raise(c) \/ StopPass(c)
         \/ ReadStatus(c) \/ Judge(c) \/ ListOpen(c)
         \/ FindPrevious(c) \/ RecordPair(c) \/ MarkShadow(c)
         \/ Progress(c) \/ ReserveTrial(c) \/ FinishTraining(c)
         \/ ListTrained(c) \/ PostRun(c) \/ MarkEvaluating(c)
         \/ \E k \in Models : Consider(c, k)
         \/ \E t \in TrialIds : ScoreTrial(c, t)

TrialSpec == TrialInit /\ [][TrialNext]_trialVars

-----------------------------------------------------------------------------
\* "It cannot create more than the fixed trial budget" (PREDICTION_AUTOMATION_CONTRACT.md, 5): failed
\* and abandoned attempts spend it too, and one trial of a model is in progress at a time. Each
\* lease that lapses under a running pass lets one more through: the budget is read, and the open
\* trials are listed, before the reservation, and neither is read again.
BudgetIsKept ==
    \A k \in Models :
        /\ Cardinality(Of(k)) <= MaxTrials + overruns
        /\ Cardinality({t \in Of(k) : trials[t].status \in Open}) <= 1 + overruns

\* What a trial is judged by is its own: a run that has ended, that began after the training, and
\* that was not an older one's record written late (a run whose lock another's watcher has removed
\* reads as failed while it goes on); and its paired rows are settled each by the bar after it, no
\* more of them than the window asks for, whatever stopped or came twice in between, but for one
\* more with each lease that lapsed under a pass that went on to settle it.
EvidenceIsItsOwn ==
    \A t \in TrialIds :
        /\ trials[t].judged # 0 => /\ ~Going(trials[t].judged) \/ crossed
                                   /\ trials[t].judged >= trials[t].run
                                   /\ trials[t].run > trials[t].since
        /\ trials[t].fine => trials[t].judged = trials[t].run /\ evals[trials[t].run] = "done"
        /\ Cardinality(SettledRows(t)) <= PairedBars + overruns
        /\ \A row \in SettledRows(t) : row.next > row.bar
        /\ overruns = 0 =>
             /\ \A row \in paired[t] : row.next = 0 => row \in Newest(t)
             /\ \A row \in SettledRows(t), other \in paired[t] :
                    other.bar <= row.bar \/ other.bar >= row.next
=============================================================================
