------------------------------- MODULE AnalystRuns -------------------------------
(***************************************************************************)
(* The gateway's analyst runs: a POST answers from the cache or starts one *)
(* background run of its question (analyst.go handleAnalyst), which a       *)
(* browser then polls (analystjobs.go), while records age out of memory.   *)
(*                                                                         *)
(* A question is (ticker, horizon, asOf, user): its key, and its run id.   *)
(* A run is its number in the order of the starts; time counts in units of *)
(* which a run may take RunLimit.                                          *)
(***************************************************************************)
EXTENDS Naturals, Sequences

CONSTANTS
    AnalystKeys, Askers,
    RunLimit,       \* analystTimeout
    RunGrace,       \* what a running record is given on top of it before it is swept
    KeepFor,        \* analystRunRetention
    CacheFor,       \* AnalystTTL
    MaxMinutes, MaxAnalyses     \* bounds

ASSUME AnalystAssumption == RunLimit \in Nat /\ RunGrace \in Nat \ {0} /\ KeepFor \in Nat /\ CacheFor \in Nat

VARIABLES
    minute,     \* the clock
    analyses,   \* the background goroutines, in the order of their starts
    records,    \* memory: byID, key -> record
    envelopes,  \* memory: the cache, key -> the run it is of and when it expires
    asks        \* memory: where each POST is, and the run that it was told

analystVars == <<minute, analyses, records, envelopes, asks>>
NoRecord == [status |-> "none", run |-> 0, at |-> 0]
NoAsk == [at |-> "idle", key |-> CHOOSE k \in AnalystKeys : TRUE, run |-> 0]
Working(r) == analyses[r].state \in {"going", "cached"}
Cached(k) == envelopes[k].run # 0 /\ minute <= envelopes[k].until

AnalystInit ==
    /\ minute = 0 /\ analyses = <<>>
    /\ records = [k \in AnalystKeys |-> NoRecord]
    /\ envelopes = [k \in AnalystKeys |-> [run |-> 0, until |-> 0]]
    /\ asks = [a \in Askers |-> NoAsk]

\* Mutant: a running record is dropped at the deadline of its run, without the margin.
ExpiredAtDeadline(record) ==
    \/ record.status = "running" /\ minute - record.at >= RunLimit
    \/ record.status \in {"done", "failed"} /\ minute - record.at > KeepFor

\* sweepLocked: `at` is StartedAt of a running record, EndedAt of another.
Expired(record) ==
    \/ record.status = "running" /\ minute - record.at > RunLimit + RunGrace
    \/ record.status \in {"done", "failed"} /\ minute - record.at > KeepFor

Swept == [k \in AnalystKeys |-> IF Expired(records[k]) THEN NoRecord ELSE records[k]]

\* handleAnalyst reads the cache, unless the caller asked to refresh.
PostQuestion(a, k, refresh) ==
    /\ asks[a].at # "missed"
    /\ asks' = [asks EXCEPT ![a] =
                  IF Cached(k) /\ ~refresh
                  THEN [at |-> "idle", key |-> k, run |-> envelopes[k].run]
                  ELSE [at |-> "missed", key |-> k, run |-> 0]]
    /\ UNCHANGED <<minute, analyses, records, envelopes>>

\* begin, under the registry's lock: the run in flight, or a new one.
Begin(a) ==
    LET k == asks[a].key
        next == Len(analyses) + 1
    IN  /\ asks[a].at = "missed"
        /\ IF Swept[k].status = "running"
           THEN /\ records' = Swept
                /\ asks' = [asks EXCEPT ![a] = [@ EXCEPT !.at = "idle", !.run = Swept[k].run]]
                /\ UNCHANGED analyses
           ELSE /\ next <= MaxAnalyses
                /\ analyses' = Append(analyses, [key |-> k, state |-> "going", since |-> minute])
                /\ records' = [Swept EXCEPT ![k] = [status |-> "running", run |-> next, at |-> minute]]
                /\ asks' = [asks EXCEPT ![a] = [@ EXCEPT !.at = "idle", !.run = next]]
        /\ UNCHANGED <<minute, envelopes>>

\* startAnalystRun: the envelope is cached before the record says so.
CacheEnvelope(r) ==
    /\ analyses[r].state = "going"
    /\ analyses' = [analyses EXCEPT ![r].state = "cached"]
    /\ envelopes' = [envelopes EXCEPT ![analyses[r].key] = [run |-> r, until |-> minute + CacheFor]]
    /\ UNCHANGED <<minute, records, asks>>

\* finish: the record of this id, if there still is one, whichever run it is of.
Finish(r, status) ==
    LET k == analyses[r].key IN
    /\ analyses[r].state = IF status = "done" THEN "cached" ELSE "going"
    /\ analyses' = [analyses EXCEPT ![r].state = "over"]
    /\ records' = IF records[k].status = "none" THEN records
                  ELSE [records EXCEPT ![k] = [@ EXCEPT !.status = status, !.at = minute]]
    /\ UNCHANGED <<minute, envelopes, asks>>

\* handleAnalystRun: a look at the record, which sweeps.
PollRun ==
    /\ records' = Swept
    /\ UNCHANGED <<minute, analyses, envelopes, asks>>

\* The deadline of its context ends a run, within the margin.
PassMinute ==
    /\ minute < MaxMinutes
    /\ \A r \in DOMAIN analyses : Working(r) => minute - analyses[r].since < RunLimit + RunGrace
    /\ minute' = minute + 1
    /\ UNCHANGED <<analyses, records, envelopes, asks>>

\* The gateway restarts: everything here was memory. It takes a unit of time, which bounds it.
RestartGateway ==
    /\ analyses # <<>> /\ minute < MaxMinutes
    /\ minute' = minute + 1
    /\ analyses' = [r \in DOMAIN analyses |-> [analyses[r] EXCEPT !.state = "over"]]
    /\ records' = [k \in AnalystKeys |-> NoRecord]
    /\ envelopes' = [k \in AnalystKeys |-> [run |-> 0, until |-> 0]]
    /\ asks' = [a \in Askers |-> NoAsk]

AnalystNext ==
    \/ PollRun \/ PassMinute \/ RestartGateway
    \/ \E a \in Askers : Begin(a) \/ \E k \in AnalystKeys, refresh \in BOOLEAN : PostQuestion(a, k, refresh)
    \/ \E r \in DOMAIN analyses : CacheEnvelope(r) \/ \E s \in {"done", "failed"} : Finish(r, s)

AnalystSpec == AnalystInit /\ [][AnalystNext]_analystVars

-----------------------------------------------------------------------------
\* "A second POST ... while a run is in flight ATTACHES to that run": two runs of a question never
\* compete for the model, although records age out while time passes and runs fail; a record is
\* its own run's, so that what a browser polls is the run it was told or one started after it; and
\* the cache is of a run that is not older than any that has finished well.
OneRunOfAQuestion ==
    /\ \A r, s \in DOMAIN analyses :
          Working(r) /\ Working(s) /\ analyses[r].key = analyses[s].key => r = s
    /\ \A r \in DOMAIN analyses : Working(r) => records[analyses[r].key].run = r
    /\ \A k \in AnalystKeys :
          /\ records[k].status = "running" => Working(records[k].run)
          /\ records[k].status = "done" => envelopes[k].run = records[k].run
          /\ \A a \in Askers : asks[a].key = k /\ records[k].status # "none" => records[k].run >= asks[a].run
=============================================================================
