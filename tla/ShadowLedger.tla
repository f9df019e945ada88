------------------------------ MODULE ShadowLedger ------------------------------
(***************************************************************************)
(* The experimental shadow ledger of src/paper: on every tick the engine   *)
(* keeps the bars it was served and settles what they make due (engine.go  *)
(* markPhase, store.go SaveShadowBars), and on a new bar it keeps the      *)
(* first signal and quote it saw (SaveShadowObservation).                  *)
(*                                                                         *)
(* The configs are of one ticker and timeframe, so they share its bars. A  *)
(* bar is its number; `real` says that it has a source and a close. A quote *)
(* is whether it may be executed; prices and returns are left out.         *)
(***************************************************************************)
EXTENDS Naturals, FiniteSets

CONSTANTS
    ShadowConfigs,      \* the configs that share one series of bars
    ShadowHorizons,     \* shadowHorizons: 1, 3, 5 and 10 in the code
    History,            \* shadowHistoryLimit: 16 in the code
    MaxShadowBar, MaxShadowTroubles     \* bounds

ASSUME ShadowAssumption == History \in Nat \ {0} /\ ShadowHorizons \subseteq Nat \ {0}

VARIABLES
    shadowRows,     \* whether the store is PostgreSQL's tables
    newest,         \* the number of completed bars
    forming,        \* whether the series is served with the bar that forms
    shelf,          \* the store: [obs, bars, outcomes], in memory or in the tables
    filed,          \* the file
    cursor,         \* LastBarUnix of each config
    tick,           \* memory: the tick in progress
    skipped,        \* history: bars that left the served history before they were kept
    answered,       \* history: observations whose save was answered
    whole,          \* history: the last SaveShadowBars succeeded, with no restart since
    shadowTroubles  \* bound: failed writes, stops and synthetic answers

shadowVars == <<shadowRows, newest, forming, shelf, filed, cursor, tick, skipped, answered, whole,
                shadowTroubles>>
NoData == [obs |-> {}, bars |-> {}, outcomes |-> {}]
NoTick == [at |-> "idle", now |-> 0, todo |-> {}, decide |-> {}, bar |-> 0]
Trouble == shadowTroubles < MaxShadowTroubles /\ shadowTroubles' = shadowTroubles + 1
Numbers(bars) == {bar.n : bar \in bars}

ShadowInit ==
    /\ shadowRows \in BOOLEAN
    /\ newest = 1 /\ forming = FALSE
    /\ shelf = NoData /\ filed = NoData
    /\ cursor = [k \in ShadowConfigs |-> 0]
    /\ tick = NoTick
    /\ skipped = {} /\ answered = {} /\ whole = FALSE /\ shadowTroubles = 0

-----------------------------------------------------------------------------
\* The series: a bar forms, and completes. The oldest one served drops out when the next one forms.
FormBar ==
    /\ ~forming /\ newest < MaxShadowBar
    /\ forming' = TRUE
    /\ skipped' = skipped \cup {n \in 1 .. newest : n + History <= newest + 1 /\ n \notin Numbers(shelf.bars)}
    /\ UNCHANGED <<shadowRows, newest, shelf, filed, cursor, tick, answered, whole, shadowTroubles>>

EndBar ==
    /\ forming
    /\ newest' = newest + 1 /\ forming' = FALSE
    /\ UNCHANGED <<shadowRows, shelf, filed, cursor, tick, skipped, answered, whole, shadowTroubles>>

-----------------------------------------------------------------------------
\* Mutant: only the newest bar is asked for.
ServedLatest == {n \in 1 .. tick.now : ~forming /\ n = newest}

\* GET /candles?limit=16, and the bars of it that were complete when the tick began (barComplete).
Served == {n \in 1 .. tick.now : n + History > newest + (IF forming THEN 1 ELSE 0)}

\* A bar that is kept stays as it was first seen.
WithBars(data, real) ==
    [data EXCEPT !.bars = @ \cup {[n |-> n, real |-> real] : n \in Served \ Numbers(data.bars)}]

\* settleShadowOutcomes: the window of an outcome is the first h kept bars after its signal.
Later(data, bar) == {b \in data.bars : b.n > bar}
Window(data, bar, h) ==
    {b \in Later(data, bar) : Cardinality({c \in Later(data, bar) : c.n < b.n}) < h}
Due(data) ==
    {due \in data.obs \X ShadowHorizons :
        /\ Cardinality(Later(data, due[1].bar)) >= due[2]
        /\ ~\E o \in data.outcomes : o.config = due[1].config /\ o.bar = due[1].bar /\ o.h = due[2]}
Outcome(data, obs, h) ==
    LET window == Window(data, obs.bar, h) IN
    [config |-> obs.config, bar |-> obs.bar, h |-> h,
     exit |-> CHOOSE n \in Numbers(window) : \A m \in Numbers(window) : m <= n,
     eligible |-> obs.eligible /\ \A b \in window : b.real]
Settled(data) ==
    [data EXCEPT !.outcomes = @ \cup {Outcome(data, due[1], due[2]) : due \in Due(data)}]

\* One write: done, refused, or done while an error is reported. A file's memory is put back after
\* either error; a table keeps what was committed.
Write(new) ==
    \/ /\ shelf' = new
       /\ filed' = IF shadowRows THEN filed ELSE new
       /\ UNCHANGED shadowTroubles
    \/ Trouble /\ UNCHANGED <<shelf, filed>>
    \/ /\ Trouble
       /\ IF shadowRows THEN shelf' = new /\ UNCHANGED filed ELSE filed' = new /\ UNCHANGED shelf

Succeeded == shadowTroubles' = shadowTroubles

StartTick ==
    /\ tick.at = "idle"
    /\ tick' = [NoTick EXCEPT !.at = "mark", !.now = newest, !.todo = ShadowConfigs]
    /\ UNCHANGED <<shadowRows, newest, forming, shelf, filed, cursor, skipped, answered, whole, shadowTroubles>>

\* After the mark of a config: the last bar served is decided on, once all are marked, if it is new
\* and was complete when the tick began.
BarsMarked(k) ==
    [tick EXCEPT !.at = "mark", !.todo = @ \ {k},
                 !.decide = IF ~forming /\ newest = tick.now /\ newest > cursor[k]
                            THEN @ \cup {[config |-> k, bar |-> newest]} ELSE @]

\* markPhase on files: bars and outcomes are one write, under the store's lock.
MarkFile(k) ==
    /\ tick.at = "mark" /\ k \in tick.todo /\ ~shadowRows
    /\ Write(Settled(WithBars(shelf, TRUE)))
    /\ whole' = Succeeded
    /\ tick' = BarsMarked(k)
    /\ UNCHANGED <<shadowRows, newest, forming, cursor, skipped, answered>>

\* The answer of the analysis service is synthetic.
MarkSynthetic(k) ==
    /\ tick.at = "mark" /\ k \in tick.todo /\ Trouble
    /\ shelf' = Settled(WithBars(shelf, FALSE))
    /\ filed' = IF shadowRows THEN filed ELSE shelf'
    /\ whole' = TRUE
    /\ tick' = BarsMarked(k)
    /\ UNCHANGED <<shadowRows, newest, forming, cursor, skipped, answered>>

\* It cannot be reached: nothing is kept and nothing is decided.
MarkNothing(k) ==
    /\ tick.at = "mark" /\ k \in tick.todo
    /\ tick' = [tick EXCEPT !.todo = @ \ {k}]
    /\ UNCHANGED <<shadowRows, newest, forming, shelf, filed, cursor, skipped, answered, whole, shadowTroubles>>

\* markPhase on PostgreSQL: a transaction for the bars, then one for what is due by then, even after
\* the first has failed.
InsertBars(k) ==
    /\ tick.at = "mark" /\ k \in tick.todo /\ shadowRows
    /\ Write(WithBars(shelf, TRUE))
    /\ whole' = Succeeded
    /\ tick' = [BarsMarked(k) EXCEPT !.at = "settle"]
    /\ UNCHANGED <<shadowRows, newest, forming, cursor, skipped, answered>>

InsertOutcomes ==
    /\ tick.at = "settle"
    /\ Write(Settled(shelf))
    /\ whole' = (whole /\ Succeeded)
    /\ tick' = [tick EXCEPT !.at = "mark"]
    /\ UNCHANGED <<shadowRows, newest, forming, cursor, skipped, answered>>

\* decidePhase. No signal is served: an absence consumes the bar, an error does not.
DecideNothing(d, consumed) ==
    /\ tick.at = "mark" /\ tick.todo = {} /\ d \in tick.decide
    /\ cursor' = IF consumed THEN [cursor EXCEPT ![d.config] = d.bar] ELSE cursor
    /\ filed' = IF shadowRows THEN filed ELSE shelf
    /\ tick' = [tick EXCEPT !.decide = @ \ {d}]
    /\ UNCHANGED <<shadowRows, newest, forming, shelf, skipped, answered, whole, shadowTroubles>>

\* The first signal and quote of the bar are kept, before any gate.
IsFirst(d) == ~\E o \in shelf.obs : o.config = d.config /\ o.bar = d.bar
Observe(d, eligible) ==
    LET obs == [config |-> d.config, bar |-> d.bar, eligible |-> eligible] IN
        /\ tick.at = "mark" /\ tick.todo = {} /\ d \in tick.decide
        /\ IF IsFirst(d) THEN Write([shelf EXCEPT !.obs = @ \cup {obs}])
                         ELSE UNCHANGED <<shelf, filed, shadowTroubles>>
        /\ answered' = IF IsFirst(d) /\ Succeeded THEN answered \cup {obs} ELSE answered
        /\ tick' = [tick EXCEPT !.at = "record", !.todo = {d.config}, !.decide = @ \ {d}, !.bar = d.bar]
        /\ UNCHANGED <<shadowRows, newest, forming, cursor, skipped, whole>>

\* The decision is recorded with the state document, and the bar is consumed unless the book could
\* not act on it.
RecordDecision(consumed) ==
    /\ tick.at = "record"
    /\ cursor' = IF consumed THEN [k \in ShadowConfigs |-> IF k \in tick.todo THEN tick.bar ELSE cursor[k]]
                             ELSE cursor
    /\ filed' = IF shadowRows THEN filed ELSE shelf
    /\ tick' = [tick EXCEPT !.at = "mark", !.todo = {}, !.bar = 0]
    /\ UNCHANGED <<shadowRows, newest, forming, shelf, skipped, answered, whole, shadowTroubles>>

FinishTick ==
    /\ tick.at = "mark" /\ tick.todo = {} /\ tick.decide = {}
    /\ tick' = NoTick
    /\ UNCHANGED <<shadowRows, newest, forming, shelf, filed, cursor, skipped, answered, whole, shadowTroubles>>

\* The process stops and starts again.
RestartShadow ==
    /\ tick.at # "idle" /\ Trouble
    /\ shelf' = IF shadowRows THEN shelf ELSE filed
    /\ tick' = NoTick /\ whole' = FALSE
    /\ UNCHANGED <<shadowRows, newest, forming, filed, cursor, skipped, answered>>

ShadowNext ==
    \/ FormBar \/ EndBar \/ StartTick \/ InsertOutcomes \/ FinishTick \/ RestartShadow
    \/ \E k \in ShadowConfigs : MarkFile(k) \/ MarkSynthetic(k) \/ MarkNothing(k) \/ InsertBars(k)
    \/ \E d \in tick.decide, yes \in BOOLEAN : DecideNothing(d, yes) \/ Observe(d, yes)
    \/ \E consumed \in BOOLEAN : RecordDecision(consumed)

ShadowSpec == ShadowInit /\ [][ShadowNext]_shadowVars

-----------------------------------------------------------------------------
\* An outcome is of the horizon it names: "without pretending several missed bars were one"
\* (engine.go), the h-th bar after the signal, unless one in between had left the served history
\* before any tick kept it. It is settled once, from the quote that was kept first, an answered
\* observation is never replaced, and after a good save nothing that is due is missing.
OutcomeIsItsHorizon ==
    /\ \A o \in shelf.outcomes :
         /\ o.exit = o.bar + o.h \/ \E n \in skipped : o.bar < n /\ n < o.exit
         /\ \A p \in shelf.outcomes :
                p.config = o.config /\ p.bar = o.bar /\ p.h = o.h => p = o
         /\ o.eligible => /\ [config |-> o.config, bar |-> o.bar, eligible |-> TRUE] \in shelf.obs
                          /\ \A b \in shelf.bars : o.bar < b.n /\ b.n <= o.exit => b.real
    /\ answered \subseteq shelf.obs
    /\ \A obs, other \in shelf.obs : obs.config = other.config /\ obs.bar = other.bar => obs = other
    /\ whole /\ tick.at # "settle" => Due(shelf) = {}
=============================================================================
