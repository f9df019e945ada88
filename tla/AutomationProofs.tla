-------------------------- MODULE AutomationProofs --------------------------
(***************************************************************************)
(* Proofs about the automation components, for any number of callers,      *)
(* runs, questions, askers, requests, passes, jobs and documents and any   *)
(* lease, interval, limit and retention.                                   *)
(***************************************************************************)
EXTENDS LaneLedger, AnalystRuns, ModelLease, EventCorpus, SequenceTheorems, WellFoundedInduction, TLAPS

-----------------------------------------------------------------------------
(***************************************************************************)
(* The lane ledger: a caller that works on a run is the only one, and was  *)
(* told nothing of it yet.                                                 *)
(***************************************************************************)
LaneCaller == [pc : {"idle", "asked", "leasing", "working", "reporting", "closing", "settling"},
               moment : Nat, force : BOOLEAN, run : 0 .. MaxRuns, says : Outcomes \cup {"none"}]

LaneTypeOK ==
    /\ laneClock \in Nat
    /\ runs \in [RunIds -> {"unused", "running"} \cup Outcomes]
    /\ caller \in [Callers -> LaneCaller]
    /\ told \in [RunIds -> {"nothing", "refused"} \cup Outcomes]

HasRun(c) == caller[c].pc \in {"working", "reporting", "closing", "settling"}

RunsAreTheirCallers ==
    /\ \A c \in Callers : HasRun(c) =>
          /\ caller[c].run \in RunIds
          /\ told[caller[c].run] = "nothing"
          /\ runs[caller[c].run] \in {"running", "failure"}
          /\ caller[c].pc # "working" => caller[c].says \in Outcomes
    /\ \A c, d \in Callers : HasRun(c) /\ HasRun(d) /\ caller[c].run = caller[d].run => c = d
    /\ \A r \in RunIds : runs[r] = "unused" => told[r] = "nothing"

LaneInv == LaneTypeOK /\ RunsAreTheirCallers /\ AnswerMatchesRecord

\* A step that moves callers without touching a run or what was told of it, and gives none a run.
LEMMA LaneCallersMove ==
    ASSUME LaneInv, UNCHANGED <<runs, told>>, laneClock' \in Nat,
           caller' \in [Callers -> LaneCaller],
           \A c \in Callers : HasRun(c)' =>
               /\ HasRun(c) /\ caller'[c].run = caller[c].run
               /\ caller'[c].pc # "working" => caller'[c].says \in Outcomes
    PROVE  LaneInv'
BY DEF LaneInv, LaneTypeOK, RunsAreTheirCallers, AnswerMatchesRecord, HasRun

\* Every step of the lane ledger keeps its invariant.
LEMMA LaneStep == LaneInv /\ [LaneNext]_laneVars => LaneInv'
<1> SUFFICES ASSUME LaneInv, [LaneNext]_laneVars PROVE LaneInv'
  OBVIOUS
<1> USE LaneAssumption DEF LaneInv, LaneTypeOK, HasRun
<1>1. CASE LaneTick
  BY <1>1, LaneCallersMove DEF LaneTick, RunsAreTheirCallers
<1>2. ASSUME NEW c \in Callers, NEW force \in BOOLEAN, Ask(c, force) PROVE LaneInv'
  <2>1. [Idle EXCEPT !.pc = "asked", !.moment = laneClock, !.force = force] \in LaneCaller
    <3>1. laneClock \in Nat /\ 0 \in 0 .. MaxRuns
      OBVIOUS
    <3>2. CASE force = TRUE
      BY <3>1, <3>2 DEF LaneCaller, Idle, Free
    <3>3. CASE force = FALSE
      BY <3>1, <3>3 DEF LaneCaller, Idle, Free
    <3> QED BY <3>2, <3>3
  <2>2. \A d \in Callers : HasRun(d)' => HasRun(d) /\ caller'[d] = caller[d]
    BY <1>2 DEF Ask, Idle
  <2> QED
    BY <1>2, <2>1, <2>2, LaneCallersMove DEF Ask, RunsAreTheirCallers
<1>3. ASSUME NEW c \in Callers, Decline(c) PROVE LaneInv'
  BY <1>3, LaneCallersMove DEF Decline, At, Idle, LaneCaller, Free, RunsAreTheirCallers
<1>4. ASSUME NEW c \in Callers, LockLane(c) PROVE LaneInv'
  <2>1. [caller[c] EXCEPT !.pc = "leasing", !.force = FALSE] \in LaneCaller
    BY DEF LaneCaller
  <2>2. caller' = [caller EXCEPT ![c] = [caller[c] EXCEPT !.pc = "leasing", !.force = FALSE]]
    BY <1>4 DEF LockLane
  <2>3. \A d \in Callers : HasRun(d)' => HasRun(d) /\ caller'[d] = caller[d]
    BY <2>2 DEF LaneCaller
  <2> QED
    BY <1>4, <2>1, <2>2, <2>3, LaneCallersMove DEF LockLane, RunsAreTheirCallers
<1>5. ASSUME NEW c \in Callers, TakeLane(c) PROVE LaneInv'
  <2>1. PICK r \in Unused : TakeLane(c)!(r)
    BY <1>5 DEF TakeLane
  <2>2. /\ runs[r] = "unused" /\ r \in RunIds
        /\ \A id \in RunIds : runs'[id] = IF id = r THEN "running" ELSE Reconcile(runs[id])
    BY <2>1 DEF Unused
  <2>3. LaneTypeOK'
    <3>1. [caller[c] EXCEPT !.pc = "working", !.run = r] \in LaneCaller
      <4>1. caller[c] \in LaneCaller /\ r \in 0 .. MaxRuns
        BY <2>2 DEF RunIds
      <4> QED BY <4>1 DEF LaneCaller
    <3>2. caller' = [caller EXCEPT ![c] = [caller[c] EXCEPT !.pc = "working", !.run = r]]
      BY <2>1
    <3>3. runs' \in [RunIds -> {"unused", "running"} \cup Outcomes]
      BY <2>1 DEF Reconcile, Outcomes
    <3> QED BY <2>1, <3>1, <3>2, <3>3
  <2>4. RunsAreTheirCallers'
    BY <2>1, <2>2, <2>3 DEF RunsAreTheirCallers, LaneCaller, Reconcile
  <2>5. AnswerMatchesRecord'
    BY <2>1, <2>2 DEF AnswerMatchesRecord, RunsAreTheirCallers, Reconcile, Outcomes
  <2> QED BY <2>3, <2>4, <2>5
<1>6. ASSUME NEW c \in Callers, NEW outcome \in Outcomes, EndWork(c, outcome) PROVE LaneInv'
  BY ZenonT(30), <1>6, LaneCallersMove DEF EndWork, At, LaneCaller, RunsAreTheirCallers
<1>7. ASSUME NEW c \in Callers, CheckToken(c) PROVE LaneInv'
  <2>1. CASE HoldsToken(c)
    BY <1>7, <2>1, LaneCallersMove DEF CheckToken, Goes, At, LaneCaller, RunsAreTheirCallers
  <2>2. CASE ~HoldsToken(c)
    <3>1. Idle \in LaneCaller
      BY DEF Idle, LaneCaller, Free
    <3>2. /\ HasRun(c) /\ caller' = [caller EXCEPT ![c] = Idle]
          /\ told' = [told EXCEPT ![caller[c].run] = "refused"]
          /\ UNCHANGED <<laneClock, runs>>
      BY <1>7, <2>2 DEF CheckToken, At
    <3>3. LaneTypeOK'
      BY <3>1, <3>2
    <3>4. RunsAreTheirCallers' /\ AnswerMatchesRecord'
      BY <3>2 DEF RunsAreTheirCallers, AnswerMatchesRecord, Idle, Outcomes
    <3> QED BY <3>3, <3>4
  <2> QED BY <2>1, <2>2
<1>8. ASSUME NEW c \in Callers, LockRun(c) PROVE LaneInv'
  BY <1>8, LaneCallersMove DEF LockRun, Goes, At, LaneCaller, RunsAreTheirCallers
<1>9. ASSUME NEW c \in Callers, Settle(c) PROVE LaneInv'
  <2> DEFINE r == caller[c].run
  <2>1. Idle \in LaneCaller
    BY DEF Idle, LaneCaller, Free
  <2>2. /\ HasRun(c) /\ caller[c].pc # "working" /\ caller' = [caller EXCEPT ![c] = Idle]
        /\ runs' = [runs EXCEPT ![r] = caller[c].says]
        /\ told' = [told EXCEPT ![r] = caller[c].says] \/ UNCHANGED told
        /\ UNCHANGED laneClock
    BY <1>9 DEF Settle, At
  <2>3. r \in RunIds /\ caller[c].says \in Outcomes /\ told[r] = "nothing"
    BY <2>2 DEF RunsAreTheirCallers
  <2>4. LaneTypeOK'
    BY <2>1, <2>2, <2>3
  <2>5. RunsAreTheirCallers' /\ AnswerMatchesRecord'
    BY <2>2, <2>3 DEF RunsAreTheirCallers, AnswerMatchesRecord, Idle, Outcomes
  <2> QED BY <2>4, <2>5
<1>10. ASSUME NEW c \in Callers, Dropped(c) PROVE LaneInv'
  BY <1>10, LaneCallersMove DEF Dropped, Idle, LaneCaller, Free, RunsAreTheirCallers
<1>11. CASE UNCHANGED laneVars
  BY <1>11, LaneCallersMove DEF laneVars, RunsAreTheirCallers
<1> QED
  BY <1>1, <1>2, <1>3, <1>4, <1>5, <1>6, <1>7, <1>8, <1>9, <1>10, <1>11
     DEF LaneNext, AbortOne, StopCaller

\* What a caller was told is what the ledger says, for any number of callers and runs: the
\* completion of services/events/app/automation.py and the takeover that closes its run.
THEOREM LaneAnswersMatch == LaneSpec => []AnswerMatchesRecord
<1>1. LaneInit => LaneInv
  BY LaneAssumption DEF LaneInit, LaneInv, LaneTypeOK, LaneCaller, Idle, Free, RunsAreTheirCallers, HasRun,
     AnswerMatchesRecord, Outcomes, RunIds
<1>2. LaneInv => AnswerMatchesRecord
  BY DEF LaneInv
<1> QED
  BY <1>1, <1>2, LaneStep, PTL DEF LaneSpec

-----------------------------------------------------------------------------
(***************************************************************************)
(* The gateway's analyst runs: a run that works is its question's record,  *)
(* and what anybody was told is not newer than that record.                *)
(***************************************************************************)
Analyses == [key : AnalystKeys, state : {"going", "cached", "over"}, since : Nat]
Records == [status : {"none", "running", "done", "failed"}, run : Nat, at : Nat]
Asks == [at : {"idle", "missed"}, key : AnalystKeys \cup {NoAsk.key}, run : Nat]

AnalystTypeOK ==
    /\ minute \in Nat
    /\ analyses \in Seq(Analyses)
    /\ records \in [AnalystKeys -> Records]
    /\ envelopes \in [AnalystKeys -> [run : Nat, until : Nat]]
    /\ asks \in [Askers -> Asks]
    /\ \A a \in Askers : asks[a].at = "missed" => asks[a].key \in AnalystKeys

\* A run that works is its question's running record, which no sweep drops before it is over, and
\* the envelope it cached is still there.
WorkIsRecorded ==
    \A r \in DOMAIN analyses : Working(r) =>
        /\ records[analyses[r].key].status = "running"
        /\ records[analyses[r].key].run = r
        /\ records[analyses[r].key].at = analyses[r].since
        /\ minute - analyses[r].since <= RunLimit + RunGrace
        /\ analyses[r].state = "cached" => envelopes[analyses[r].key].run = r

\* A record that says running is of a run that works, and one that says done of the cached run.
RecordsAreTrue ==
    \A k \in AnalystKeys :
        /\ records[k].status = "running" =>
              /\ records[k].run \in DOMAIN analyses /\ Working(records[k].run)
              /\ analyses[records[k].run].key = k
        /\ records[k].status = "done" => envelopes[k].run = records[k].run

\* Runs are numbered as they start, so what a caller was told is not newer than its record.
RunsAreInOrder ==
    /\ \A k \in AnalystKeys :
          /\ envelopes[k].run <= Len(analyses)
          /\ records[k].status # "none" => envelopes[k].run <= records[k].run
    /\ \A a \in Askers :
          /\ asks[a].run <= Len(analyses)
          /\ \A k \in AnalystKeys :
                asks[a].key = k /\ records[k].status # "none" => asks[a].run <= records[k].run

AnalystInv == AnalystTypeOK /\ WorkIsRecorded /\ RecordsAreTrue /\ RunsAreInOrder

\* What the types say of one run, one record, one envelope and one caller.
AnalystFacts ==
    /\ minute \in Nat /\ Len(analyses) \in Nat /\ DOMAIN analyses = 1 .. Len(analyses)
    /\ \A r \in DOMAIN analyses :
          /\ r \in Nat /\ r > 0 /\ r <= Len(analyses)
          /\ analyses[r].key \in AnalystKeys /\ analyses[r].since \in Nat
          /\ analyses[r].state \in {"going", "cached", "over"}
    /\ \A k \in AnalystKeys :
          /\ records[k].run \in Nat /\ records[k].at \in Nat
          /\ records[k].status \in {"none", "running", "done", "failed"}
          /\ envelopes[k].run \in Nat /\ envelopes[k].until \in Nat
    /\ \A a \in Askers :
          /\ asks[a].run \in Nat
          /\ asks[a].at = "missed" => asks[a].key \in AnalystKeys

\* The type of the runs and the askers, said element by element.
LEMMA AnalystTyped == AnalystTypeOK => AnalystFacts
<1> SUFFICES ASSUME AnalystTypeOK PROVE AnalystFacts
  OBVIOUS
<1>1. /\ Len(analyses) \in Nat /\ DOMAIN analyses = 1 .. Len(analyses)
      /\ \A r \in DOMAIN analyses : analyses[r] \in Analyses /\ r \in Nat /\ r > 0 /\ r <= Len(analyses)
  BY DEF AnalystTypeOK
<1>2. \A k \in AnalystKeys : records[k] \in Records
  BY DEF AnalystTypeOK
<1>3. \A a \in Askers : asks[a].run \in Nat
  BY DEF AnalystTypeOK, Asks
<1> QED
  BY <1>1, <1>2, <1>3 DEF AnalystFacts, AnalystTypeOK, Analyses, Records

\* Two running records of one question are one, by the invariant.
LEMMA AnalystInvImplies == AnalystInv => OneRunOfAQuestion
<1> SUFFICES ASSUME AnalystInv PROVE OneRunOfAQuestion
  OBVIOUS
<1>1. AnalystFacts
  BY AnalystTyped DEF AnalystInv
<1>2. \A r \in DOMAIN analyses : Working(r) => records[analyses[r].key].run = r
  BY DEF AnalystInv, WorkIsRecorded, Working
<1>3. \A k \in AnalystKeys :
        /\ records[k].status = "running" => Working(records[k].run)
        /\ records[k].status = "done" => envelopes[k].run = records[k].run
  BY DEF AnalystInv, RecordsAreTrue, Working
<1>4. \A k \in AnalystKeys, a \in Askers :
        asks[a].key = k /\ records[k].status # "none" => records[k].run >= asks[a].run
  BY <1>1 DEF AnalystInv, RunsAreInOrder, AnalystFacts
<1> QED
  BY <1>2, <1>3, <1>4 DEF OneRunOfAQuestion, Working

\* A sweep, which the start of a run and a look at a record make: it drops no running record of a
\* run that works, for the run is given up within its limit and margin.
LEMMA SweepKeeps ==
    ASSUME AnalystInv, AnalystAssumption
    PROVE  /\ Swept \in [AnalystKeys -> Records]
           /\ \A k \in AnalystKeys : Swept[k] = records[k] \/ Swept[k].status = "none"
           /\ \A k \in AnalystKeys : records[k].status = "running" => Swept[k] = records[k]
<1>1. NoRecord \in Records /\ NoRecord.status = "none"
  BY DEF NoRecord, Records
<1>2. records \in [AnalystKeys -> Records] /\ AnalystFacts
  BY AnalystTyped DEF AnalystInv, AnalystTypeOK
<1>3. ASSUME NEW k \in AnalystKeys, records[k].status = "running" PROVE ~Expired(records[k])
  <2>1. /\ records[k].run \in DOMAIN analyses /\ Working(records[k].run)
        /\ analyses[records[k].run].key = k
    BY <1>3 DEF AnalystInv, RecordsAreTrue, Working
  <2>2. minute - records[k].at <= RunLimit + RunGrace
    BY <2>1 DEF AnalystInv, WorkIsRecorded, Working
  <2>3. records[k].at \in Nat /\ minute \in Nat
    BY <1>2 DEF AnalystFacts
  <2> QED BY <1>3, <2>2, <2>3 DEF Expired, AnalystAssumption
<1> QED
  BY <1>1, <1>2, <1>3 DEF Swept

\* The state of one run changes: its sequence stays one, and the others stay as they are.
LEMMA RunMoves ==
    ASSUME AnalystTypeOK, NEW r \in DOMAIN analyses, NEW state \in {"going", "cached", "over"},
           analyses' = [analyses EXCEPT ![r] = [analyses[r] EXCEPT !.state = state]]
    PROVE  /\ analyses' \in Seq(Analyses) /\ Len(analyses') = Len(analyses)
           /\ DOMAIN analyses' = DOMAIN analyses
           /\ \A s \in DOMAIN analyses : s # r => analyses'[s] = analyses[s]
           /\ analyses'[r].state = state /\ analyses'[r].key = analyses[r].key
           /\ analyses'[r].since = analyses[r].since
<1>1. analyses \in Seq(Analyses) /\ r \in 1 .. Len(analyses) /\ analyses[r] \in Analyses
  BY DEF AnalystTypeOK
<1> DEFINE new == [analyses[r] EXCEPT !.state = state]
<1>2. new \in Analyses /\ analyses' = [analyses EXCEPT ![r] = new]
  BY <1>1 DEF Analyses
<1>4. new.state = state /\ new.key = analyses[r].key /\ new.since = analyses[r].since
  BY <1>1 DEF Analyses
<1> HIDE DEF new
<1>3. /\ analyses' \in Seq(Analyses) /\ Len(analyses') = Len(analyses)
      /\ \A s \in 1 .. Len(analyses) :
            analyses'[s] = IF s = r THEN new ELSE analyses[s]
  BY <1>1, <1>2, ExceptSeq
<1> QED
  BY <1>1, <1>3, <1>4

\* Every step of the analyst's askers and runs keeps the invariant.
LEMMA AnalystStep == AnalystInv /\ [AnalystNext]_analystVars => AnalystInv'
<1> SUFFICES ASSUME AnalystInv, [AnalystNext]_analystVars PROVE AnalystInv'
  OBVIOUS
<1> USE AnalystAssumption DEF AnalystInv
<1>0. AnalystFacts
  BY AnalystTyped
<1>1. CASE PollRun
  <2>1. /\ records' = Swept /\ UNCHANGED <<minute, analyses, envelopes, asks>>
        /\ records' \in [AnalystKeys -> Records]
    BY <1>1, SweepKeeps DEF PollRun
  <2>2. AnalystTypeOK' BY <1>0, <2>1 DEF AnalystFacts, AnalystTypeOK
  <2>3. WorkIsRecorded'
    BY SMTT(30), <1>0, <2>1, SweepKeeps DEF AnalystFacts, WorkIsRecorded, Working, Analyses
  <2>4. RecordsAreTrue' /\ RunsAreInOrder'
    BY <1>0, <2>1, SweepKeeps DEF AnalystFacts, RecordsAreTrue, RunsAreInOrder, Working
  <2> QED BY <2>2, <2>3, <2>4
<1>2. CASE PassMinute
  <2>1. minute' = minute + 1 /\ UNCHANGED <<analyses, records, envelopes, asks>>
        /\ \A r \in DOMAIN analyses : Working(r) => minute - analyses[r].since < RunLimit + RunGrace
    BY <1>2 DEF PassMinute
  <2>2. AnalystTypeOK' BY <1>0, <2>1 DEF AnalystFacts, AnalystTypeOK
  <2>3. WorkIsRecorded'
    <3>1. ASSUME NEW r \in DOMAIN analyses, Working(r)
          PROVE  minute' - analyses[r].since <= RunLimit + RunGrace
      <4>1. minute - analyses[r].since < RunLimit + RunGrace
        BY <2>1, <3>1
      <4>2. analyses[r].since \in Nat /\ minute \in Nat
        BY <1>0 DEF AnalystFacts
      <4> QED
        BY <2>1, <4>1, <4>2 DEF AnalystAssumption
    <3> QED
      BY <2>1, <3>1 DEF AnalystInv, WorkIsRecorded, Working
  <2>4. RecordsAreTrue' /\ RunsAreInOrder'
    BY <1>0, <2>1 DEF AnalystFacts, RecordsAreTrue, RunsAreInOrder, Working
  <2> QED BY <2>2, <2>3, <2>4
<1>3. CASE RestartGateway
  <2>1. /\ minute' = minute + 1
        /\ analyses' = [r \in DOMAIN analyses |-> [analyses[r] EXCEPT !.state = "over"]]
        /\ records' = [k \in AnalystKeys |-> NoRecord]
        /\ envelopes' = [k \in AnalystKeys |-> [run |-> 0, until |-> 0]]
        /\ asks' = [a \in Askers |-> NoAsk]
    BY <1>3 DEF RestartGateway
  <2>2. /\ NoRecord \in Records /\ NoAsk \in Asks /\ NoAsk.at = "idle" /\ NoAsk.run = 0
    BY DEF NoRecord, Records, NoAsk, Asks
  <2>3. analyses' \in Seq(Analyses) /\ \A r \in DOMAIN analyses' : ~Working(r)'
    <3>1. \A r \in 1 .. Len(analyses) : [analyses[r] EXCEPT !.state = "over"] \in Analyses
      <4> SUFFICES ASSUME NEW r \in 1 .. Len(analyses)
                   PROVE  [analyses[r] EXCEPT !.state = "over"] \in Analyses
        OBVIOUS
      <4>1. analyses[r] \in Analyses
        BY <1>0, ElementOfSeq DEF AnalystTypeOK
      <4> QED BY <4>1 DEF Analyses
    <3>2. analyses' \in [1 .. Len(analyses) -> Analyses]
      BY <1>0, <2>1, <3>1 DEF AnalystFacts
    <3>3. analyses' \in Seq(Analyses)
      BY <1>0, <3>2, SeqDef DEF AnalystFacts
    <3>4. \A r \in DOMAIN analyses' : analyses'[r].state = "over"
      <4> SUFFICES ASSUME NEW r \in 1 .. Len(analyses)
                   PROVE  [analyses[r] EXCEPT !.state = "over"].state = "over"
        BY <1>0, <2>1 DEF AnalystFacts
      <4>1. analyses[r] \in Analyses
        BY <1>0, ElementOfSeq DEF AnalystTypeOK
      <4> QED BY <4>1 DEF Analyses
    <3> QED BY <3>3, <3>4 DEF Working
  <2>4. AnalystTypeOK' BY <1>0, <2>1, <2>2, <2>3 DEF AnalystFacts, AnalystTypeOK
  <2>5. WorkIsRecorded' BY <1>0, <2>3 DEF AnalystFacts, WorkIsRecorded, Working
  <2>6. RecordsAreTrue' /\ RunsAreInOrder'
    BY <1>0, <2>1, <2>2, <2>3 DEF AnalystFacts, RecordsAreTrue, RunsAreInOrder, NoRecord, Working
  <2> QED BY <2>4, <2>5, <2>6
<1>4. ASSUME NEW a \in Askers, Begin(a) PROVE AnalystInv'
  <2> DEFINE k == asks[a].key
             next == Len(analyses) + 1
  <2>1. k \in AnalystKeys /\ UNCHANGED <<minute, envelopes>>
    <3>1. asks[a].at = "missed"
      BY <1>4, Zenon DEF Begin
    <3>2. minute' = minute /\ envelopes' = envelopes
      BY <1>4 DEF Begin
    <3> QED BY <1>0, <3>1, <3>2 DEF AnalystFacts
  <2>2. CASE Swept[k].status = "running"
    <3>1. /\ records' = Swept /\ UNCHANGED analyses
          /\ asks' = [asks EXCEPT ![a] = [asks[a] EXCEPT !.at = "idle", !.run = Swept[k].run]]
      BY <1>4, <2>2 DEF Begin
    <3>2. Swept[k] = records[k] /\ records[k].status = "running"
      BY <2>1, <2>2, SweepKeeps
    <3>3. records[k].run \in Nat /\ records[k].run <= Len(analyses)
      BY <1>0, <2>1, <3>2 DEF RecordsAreTrue, AnalystFacts
    <3>4. AnalystTypeOK'
      <4>1. [asks[a] EXCEPT !.at = "idle", !.run = Swept[k].run] \in Asks
        BY <3>2, <3>3 DEF AnalystTypeOK, Asks
      <4> QED BY <2>1, <3>1, <4>1, SweepKeeps DEF AnalystTypeOK
    <3>5. WorkIsRecorded' /\ RecordsAreTrue'
      BY SMTT(30), <1>0, <2>1, <3>1, SweepKeeps DEF AnalystFacts, WorkIsRecorded, RecordsAreTrue, Working, Analyses
    <3>6. RunsAreInOrder'
      BY SMTT(30), <1>0, <2>1, <3>1, <3>2, <3>3, SweepKeeps DEF AnalystFacts, RunsAreInOrder, Asks, Working
    <3> QED BY <3>4, <3>5, <3>6
  <2>3. CASE Swept[k].status # "running"
    <3>1. /\ analyses' = Append(analyses, [key |-> k, state |-> "going", since |-> minute])
          /\ records' = [Swept EXCEPT ![k] = [status |-> "running", run |-> next, at |-> minute]]
          /\ asks' = [asks EXCEPT ![a] = [asks[a] EXCEPT !.at = "idle", !.run = next]]
      BY <1>4, <2>3 DEF Begin
    <3>2. [key |-> k, state |-> "going", since |-> minute] \in Analyses
      BY <1>0, <2>1 DEF Analyses, AnalystFacts
    <3>3. [status |-> "running", run |-> next, at |-> minute] \in Records
      BY <1>0 DEF Records, AnalystFacts
    <3>4. /\ analyses' \in Seq(Analyses) /\ Len(analyses') = next
          /\ \A r \in DOMAIN analyses : analyses'[r] = analyses[r]
          /\ analyses'[next] = [key |-> k, state |-> "going", since |-> minute]
          /\ DOMAIN analyses' = DOMAIN analyses \cup {next}
      BY <1>0, <3>1, <3>2 DEF AnalystTypeOK, AnalystFacts
    <3>5. \A r \in DOMAIN analyses : Working(r) => analyses[r].key # k
      BY <2>1, <2>3, SweepKeeps DEF WorkIsRecorded, Working
    <3>6. AnalystTypeOK'
      <4>1. [asks[a] EXCEPT !.at = "idle", !.run = next] \in Asks
        <5>1. asks[a] \in Asks /\ next \in Nat
          BY <1>0 DEF AnalystTypeOK, AnalystFacts
        <5> QED BY <5>1 DEF Asks
      <4> QED BY SMTT(30), <2>1, <3>1, <3>3, <3>4, <4>1, SweepKeeps DEF AnalystTypeOK
    <3>7. /\ records'[k].status = "running" /\ records'[k].run = next /\ records'[k].at = minute
          /\ \A q \in AnalystKeys : q # k => records'[q] = Swept[q]
      BY <2>1, <3>1, SweepKeeps
    <3>8. WorkIsRecorded'
      <4> SUFFICES ASSUME NEW r \in DOMAIN analyses', Working(r)' PROVE WorkIsRecorded!(r)'
        BY DEF WorkIsRecorded
      <4>1. CASE r = next
        BY <1>0, <2>1, <3>4, <3>7, <4>1 DEF AnalystFacts, AnalystAssumption
      <4>2. CASE r # next
        BY SMTT(30), <1>0, <2>1, <3>4, <3>5, <3>7, <4>2, SweepKeeps DEF AnalystFacts, WorkIsRecorded, Working
      <4> QED BY <4>1, <4>2
    <3>10. RecordsAreTrue'
      BY SMTT(30), <1>0, <2>1, <3>4, <3>7, SweepKeeps DEF AnalystFacts, RecordsAreTrue, Working
    <3>9. RunsAreInOrder'
      <4>1. \A b \in Askers : asks'[b].run = IF b = a THEN next ELSE asks[b].run
        BY <3>1 DEF AnalystTypeOK, Asks
      <4>2. \A b \in Askers : asks'[b].key = asks[b].key
        BY <3>1 DEF AnalystTypeOK, Asks
      <4>3. \A q \in AnalystKeys :
              /\ envelopes'[q].run <= next
              /\ records'[q].status # "none" => envelopes'[q].run <= records'[q].run
        <5> SUFFICES ASSUME NEW q \in AnalystKeys
                     PROVE  /\ envelopes[q].run <= next
                            /\ records'[q].status # "none" => envelopes[q].run <= records'[q].run
          BY <2>1
        <5>1. envelopes[q].run \in Nat /\ envelopes[q].run <= Len(analyses) /\ Len(analyses) \in Nat
          BY <1>0 DEF AnalystFacts, RunsAreInOrder
        <5>2. CASE q = k
          BY <3>7, <5>1, <5>2
        <5>3. CASE q # k
          <6>1. records'[q] = records[q] \/ records'[q].status = "none"
            BY <3>7, <5>3, SweepKeeps
          <6> QED BY <5>1, <6>1 DEF RunsAreInOrder
        <5> QED BY <5>2, <5>3
      <4>4. \A b \in Askers : asks[b].run <= next /\ asks[b].run \in Nat
        <5> SUFFICES ASSUME NEW b \in Askers PROVE asks[b].run <= next /\ asks[b].run \in Nat
          OBVIOUS
        <5>1. asks[b].run <= Len(analyses)
          BY DEF RunsAreInOrder
        <5>2. asks[b].run \in Nat /\ Len(analyses) \in Nat
          BY <1>0 DEF AnalystFacts
        <5> QED BY <5>1, <5>2
      <4>5. \A b \in Askers, q \in AnalystKeys :
              asks'[b].key = q /\ records'[q].status # "none" => asks'[b].run <= records'[q].run
        BY <1>0, <3>7, <4>1, <4>2, <4>4, SweepKeeps DEF AnalystFacts, RunsAreInOrder
      <4> QED BY <3>4, <4>1, <4>3, <4>4, <4>5 DEF RunsAreInOrder
    <3> QED BY <3>6, <3>8, <3>9, <3>10
  <2> QED BY <2>2, <2>3
<1>5. ASSUME NEW a \in Askers, NEW k \in AnalystKeys, NEW refresh \in BOOLEAN, PostQuestion(a, k, refresh)
      PROVE AnalystInv'
  <2>1. UNCHANGED <<minute, analyses, records, envelopes>>
    BY <1>5 DEF PostQuestion
  <2>2. PICK ask \in Asks : asks' = [asks EXCEPT ![a] = ask] /\ ask.key = k /\ ask.run \in {0, envelopes[k].run}
    <3>1. CASE Cached(k) /\ ~refresh
      <4>1. [at |-> "idle", key |-> k, run |-> envelopes[k].run] \in Asks
        BY <1>0 DEF AnalystFacts, Asks
      <4> QED BY <1>5, <3>1, <4>1 DEF PostQuestion
    <3>2. CASE ~(Cached(k) /\ ~refresh)
      <4>1. [at |-> "missed", key |-> k, run |-> 0] \in Asks
        BY DEF Asks
      <4> QED BY <1>5, <3>2, <4>1 DEF PostQuestion
    <3> QED BY <3>1, <3>2
  <2>3. AnalystTypeOK' BY <1>0, <2>1, <2>2 DEF AnalystFacts, AnalystTypeOK
  <2>4. WorkIsRecorded' /\ RecordsAreTrue'
    BY <1>0, <2>1 DEF AnalystFacts, WorkIsRecorded, RecordsAreTrue, Working
  <2>5. RunsAreInOrder'
    BY SMTT(30), <1>0, <2>1, <2>2 DEF AnalystFacts, RunsAreInOrder, Asks, Records, Working
  <2> QED BY <2>3, <2>4, <2>5
<1>6. ASSUME NEW r \in DOMAIN analyses, CacheEnvelope(r) PROVE AnalystInv'
  <2> DEFINE k == analyses[r].key
  <2>1. /\ analyses[r].state = "going" /\ k \in AnalystKeys
        /\ analyses' = [analyses EXCEPT ![r] = [analyses[r] EXCEPT !.state = "cached"]]
        /\ envelopes' = [envelopes EXCEPT ![k] = [run |-> r, until |-> minute + CacheFor]]
        /\ UNCHANGED <<minute, records, asks>>
    BY <1>0, <1>6 DEF CacheEnvelope, AnalystFacts
  <2>2. /\ records[k].status = "running" /\ records[k].run = r /\ records[k].at = analyses[r].since
        /\ \A s \in DOMAIN analyses : Working(s) /\ analyses[s].key = k => s = r
    BY <2>1 DEF WorkIsRecorded, Working
  <2>3. /\ analyses' \in Seq(Analyses) /\ Len(analyses') = Len(analyses)
        /\ DOMAIN analyses' = DOMAIN analyses
        /\ \A s \in DOMAIN analyses : s # r => analyses'[s] = analyses[s]
        /\ analyses'[r].state = "cached" /\ analyses'[r].key = analyses[r].key
        /\ analyses'[r].since = analyses[r].since
    BY <2>1, RunMoves, Zenon
  <2>4. envelopes'[k].run = r /\ \A q \in AnalystKeys : q # k => envelopes'[q] = envelopes[q]
    BY <2>1 DEF AnalystTypeOK
  <2>5. AnalystTypeOK'
    BY <1>0, <2>1, <2>3 DEF AnalystFacts, AnalystTypeOK, AnalystAssumption
  <2>6. WorkIsRecorded'
    BY SMTT(30), <1>0, <2>1, <2>2, <2>3, <2>4 DEF AnalystFacts, WorkIsRecorded, Working
  <2>7. RecordsAreTrue'
    BY <1>0, <2>1, <2>2, <2>3, <2>4 DEF AnalystFacts, RecordsAreTrue, Working
  <2>8. RunsAreInOrder'
    BY <1>0, <2>1, <2>2, <2>3, <2>4 DEF AnalystFacts, RunsAreInOrder
  <2> QED BY <2>5, <2>6, <2>7, <2>8
<1>7. ASSUME NEW r \in DOMAIN analyses, NEW s \in {"done", "failed"}, Finish(r, s) PROVE AnalystInv'
  <2> DEFINE k == analyses[r].key
  <2>1. Working(r) /\ k \in AnalystKeys /\ (s = "done" => analyses[r].state = "cached")
    BY <1>0, <1>7 DEF Finish, Working, AnalystFacts
  <2>2. /\ records[k].status = "running" /\ records[k].run = r /\ records[k].at = analyses[r].since
        /\ \A q \in DOMAIN analyses : Working(q) /\ analyses[q].key = k => q = r
        /\ s = "done" => envelopes[k].run = r
    BY <2>1 DEF WorkIsRecorded, Working
  <2>3. /\ analyses' = [analyses EXCEPT ![r] = [analyses[r] EXCEPT !.state = "over"]]
        /\ records' = [records EXCEPT ![k] = [records[k] EXCEPT !.status = s, !.at = minute]]
        /\ UNCHANGED <<minute, envelopes, asks>>
    BY <1>7, <2>2 DEF Finish
  <2>4. /\ analyses' \in Seq(Analyses) /\ Len(analyses') = Len(analyses)
        /\ DOMAIN analyses' = DOMAIN analyses
        /\ \A q \in DOMAIN analyses : q # r => analyses'[q] = analyses[q]
        /\ analyses'[r].state = "over" /\ analyses'[r].key = analyses[r].key
        /\ analyses'[r].since = analyses[r].since
    BY <2>3, RunMoves, Zenon
  <2>5. /\ records' \in [AnalystKeys -> Records]
        /\ records'[k].status = s /\ records'[k].run = r
        /\ \A q \in AnalystKeys : q # k => records'[q] = records[q]
    <3>1. [records[k] EXCEPT !.status = s, !.at = minute] \in Records
      BY ZenonT(30), <2>1 DEF AnalystTypeOK, Records
    <3>2. [records[k] EXCEPT !.status = s, !.at = minute].status = s
          /\ [records[k] EXCEPT !.status = s, !.at = minute].run = r
      BY <2>1, <2>2 DEF AnalystTypeOK, Records
    <3> QED BY <2>1, <2>3, <3>1, <3>2 DEF AnalystTypeOK
  <2>6. AnalystTypeOK'
    BY <2>3, <2>4, <2>5 DEF AnalystTypeOK
  <2>7. WorkIsRecorded'
    BY SMTT(30), <1>0, <2>1, <2>2, <2>3, <2>4, <2>5 DEF AnalystFacts, WorkIsRecorded, Working
  <2>8. RecordsAreTrue'
    <3>1. SUFFICES ASSUME NEW q \in AnalystKeys
                   PROVE  /\ records'[q].status = "running" =>
                                /\ records'[q].run \in DOMAIN analyses'
                                /\ analyses'[records'[q].run].state \in {"going", "cached"}
                                /\ analyses'[records'[q].run].key = q
                          /\ records'[q].status = "done" => envelopes'[q].run = records'[q].run
      BY Zenon DEF RecordsAreTrue, Working
    <3>2. CASE q = k
      BY <2>1, <2>2, <2>3, <2>5, <3>2
    <3>3. CASE q # k
      <4>1. records'[q] = records[q] /\ envelopes' = envelopes
        BY <2>3, <2>5, <3>3
      <4>2. CASE records[q].status = "running"
        <5>1. /\ records[q].run \in DOMAIN analyses /\ Working(records[q].run)
              /\ analyses[records[q].run].key = q
          BY <4>2 DEF RecordsAreTrue
        <5>2. records[q].run # r BY <3>3, <5>1
        <5>3. analyses'[records[q].run] = analyses[records[q].run]
          BY <2>4, <5>1, <5>2
        <5> QED BY <2>4, <3>3, <4>1, <4>2, <5>1, <5>3 DEF Working
      <4>3. CASE records[q].status # "running"
        BY <4>1, <4>3 DEF RecordsAreTrue
      <4> QED BY <4>2, <4>3
    <3> QED BY <3>2, <3>3
  <2>9. RunsAreInOrder'
    BY <1>0, <2>1, <2>2, <2>3, <2>4, <2>5 DEF AnalystFacts, RunsAreInOrder
  <2> QED BY <2>6, <2>7, <2>8, <2>9
<1>8. CASE UNCHANGED analystVars
  BY <1>8 DEF analystVars, AnalystTypeOK, WorkIsRecorded, RecordsAreTrue, RunsAreInOrder, Working
<1> QED
  BY <1>1, <1>2, <1>3, <1>4, <1>5, <1>6, <1>7, <1>8 DEF AnalystNext

\* However the askers' requests cross, one question never has two runs at work: what analyst.go:begin
\* promises with its running map.
THEOREM AnalystRunsAreSingle == AnalystSpec => []OneRunOfAQuestion
<1>1. ASSUME AnalystInit PROVE AnalystInv
  <2>1. /\ NoRecord \in Records /\ NoRecord.status = "none"
        /\ NoAsk \in Asks /\ NoAsk.at = "idle" /\ NoAsk.run = 0
    BY DEF NoRecord, Records, NoAsk, Asks
  <2>2. /\ minute = 0 /\ analyses = <<>> /\ analyses \in Seq(Analyses) /\ Len(analyses) = 0
        /\ DOMAIN analyses = {}
        /\ \A k \in AnalystKeys : envelopes[k].run = 0 /\ records[k].status = "none"
        /\ \A a \in Askers : asks[a].run = 0
    BY <1>1, <2>1 DEF AnalystInit
  <2>3. AnalystTypeOK
    BY <1>1, <2>1, <2>2 DEF AnalystInit, AnalystTypeOK
  <2> QED BY <2>2, <2>3 DEF AnalystInv, WorkIsRecorded, RecordsAreTrue, RunsAreInOrder
<1> QED
  BY <1>1, AnalystStep, AnalystInvImplies, PTL DEF AnalystSpec

-----------------------------------------------------------------------------
(***************************************************************************)
(* The model lease: the flock excludes, so that at most one pass is past   *)
(* its checks, and a job is one worker's until its lease lapses under it.  *)
(***************************************************************************)
HoldsFlock == {"locked", "checked", "clear", "generating"}
BeforeWrite == {"asking", "locking", "delivering"} \cup HoldsFlock
Places == {"idle", "between", "next", "reading", "acking", "returning"} \cup BeforeWrite
Work == [pc : Places, item : RawEvents \cup Jobs \cup {NoItem}, left : SUBSET RawEvents, tries : Nat]
JobRecords == [state : {"queued", "leased", "done"}, holder : Background \cup {Nobody}, lapsed : BOOLEAN]
ThesisRecords == [active : BOOLEAN, checks : Nat]
PersonPlaces == {"idle", "waiting", "locked", "held", "leaving"}

ModelTypeOK ==
    /\ begun \in [items : Nat, passes : Nat]
    /\ marker \in [state : {"none", "waiting", "held", "released"}, recent : BOOLEAN]
    /\ person \in [People -> PersonPlaces]
    /\ worker \in [Background -> Work]
    /\ job \in [Jobs -> JobRecords]
    /\ thesis \in [Jobs -> ThesisRecords]

\* Whoever is past the flock holds it.
FlockExcludes ==
    /\ \A w \in Background : worker[w].pc \in HoldsFlock => flock = w
    /\ \A p \in People : person[p] \in {"locked", "held", "leaving"} => flock = p

\* The one item that may begin while somebody waits had been cleared before.
OneItemWasCleared ==
    Active => \/ begun.items = 0
              \/ begun.items = 1 /\ \A w \in Background : worker[w].pc = "clear" => worker[w].tries # 0

\* A worker at its job holds the job's lease, unless that lapsed under it, and until it writes its
\* check there is none.
JobsAreHeld ==
    \A w \in Resynths :
        /\ worker[w].pc # "idle" => worker[w].item \in Jobs
        /\ worker[w].pc \in BeforeWrite \cup {"reading", "acking"} /\ ~job[worker[w].item].lapsed =>
              job[worker[w].item].state = "leased" /\ job[worker[w].item].holder = w
        /\ worker[w].pc \in BeforeWrite /\ ~job[worker[w].item].lapsed =>
              thesis[worker[w].item].checks = 0
        /\ worker[w].pc = "acking" => Settled(worker[w].item)
        /\ worker[w].pc \notin {"next", "between"}

ModelInv == ModelTypeOK /\ FlockExcludes /\ OneItemWasCleared /\ JobsAreHeld /\ CheckedExactlyOnce

\* A pass that has nothing.
LEMMA RestIsWork == Rest \in Work /\ Rest.pc = "idle" /\ Rest.item = NoItem /\ Rest.tries = 0
BY DEF Rest, Work, Places, BeforeWrite, HoldsFlock

\* What a pass is, field by field.
LEMMA WorkIsTyped ==
    ASSUME ModelTypeOK, NEW w \in Background
    PROVE  /\ worker[w] \in Work /\ worker[w].pc \in Places /\ worker[w].tries \in Nat
           /\ worker[w].item \in RawEvents \cup Jobs \cup {NoItem} /\ worker[w].left \subseteq RawEvents
BY DEF ModelTypeOK, JobRecords, ThesisRecords, PersonPlaces, Work

\* The fields of the other variables.
ModelFacts ==
    /\ begun.items \in Nat /\ begun.passes \in Nat
    /\ begun = [items |-> begun.items, passes |-> begun.passes]
    /\ \A w \in Background : worker[w].pc \in Places /\ worker[w].tries \in Nat
    /\ \A j \in Jobs : job[j].state \in {"queued", "leased", "done"} /\ thesis[j].checks \in Nat

LEMMA ModelIsTyped == ModelTypeOK => ModelFacts
BY DEF ModelTypeOK, JobRecords, ThesisRecords, PersonPlaces, ModelFacts, Work

\* Every field of a job is set.
LEMMA JobIsSet ==
    ASSUME NEW A, NEW B, NEW C, NEW r \in [state : A, holder : B, lapsed : C], NEW s \in A, NEW h \in B, NEW l \in C
    PROVE  LET new == [r EXCEPT !.state = s, !.holder = h, !.lapsed = l]
           IN  new \in [state : A, holder : B, lapsed : C] /\ new.state = s /\ new.lapsed = l
OBVIOUS

\* One pass gets new local variables, the others keep theirs.
Sets(w, new) ==
    /\ worker' \in [Background -> Work] /\ worker'[w] = new
    /\ \A v \in Background : v # w => worker'[v] = worker[v]

\* An assignment to a pass's local variables.
LEMMA WorkerIsSet ==
    ASSUME ModelTypeOK, NEW w \in Background, NEW new \in Work, worker' = [worker EXCEPT ![w] = new]
    PROVE  Sets(w, new)
BY DEF ModelTypeOK, Sets

\* A pass that goes on to another place keeps the rest.
LEMMA StepMoves ==
    ASSUME ModelTypeOK, NEW w \in Background, NEW pc \in Places, Step(w, pc)
    PROVE  /\ Sets(w, worker'[w]) /\ worker'[w].pc = pc
           /\ worker'[w].item = worker[w].item /\ worker'[w].tries = worker[w].tries
<1> DEFINE new == [worker[w] EXCEPT !.pc = pc]
<1>1. new \in Work /\ new.pc = pc /\ new.item = worker[w].item /\ new.tries = worker[w].tries
  BY WorkIsTyped DEF Work
<1>2. worker' = [worker EXCEPT ![w] = new]
  BY DEF Step, ModelTypeOK, JobRecords, ThesisRecords, PersonPlaces
<1> HIDE DEF new
<1> QED
  BY <1>1, <1>2, WorkerIsSet DEF Sets

\* A pass that may not have the model stops, or is about to give its job back.
LEMMA RefusedMoves ==
    ASSUME ModelTypeOK, NEW w \in Background, Refused(w)
    PROVE  /\ Sets(w, worker'[w])
           /\ \/ worker'[w] = Rest
              \/ w \in Resynths /\ worker'[w].pc = "returning" /\ worker'[w].item = worker[w].item
<1>1. CASE w \in Enrichers
  BY <1>1, WorkerIsSet, RestIsWork DEF Refused, Sets
<1>2. CASE w \notin Enrichers
  BY <1>2, StepMoves DEF Refused, Places, Background
<1> QED BY <1>1, <1>2

\* Every step keeps the invariant.
LEMMA ModelStep == ModelInv /\ [ModelNext]_modelVars => ModelInv'
<1> SUFFICES ASSUME ModelInv, [ModelNext]_modelVars PROVE ModelInv'
  OBVIOUS
<1> USE ModelAssumption DEF ModelInv
<1>0. Enrichers \subseteq Background /\ Resynths \subseteq Background
  BY DEF Background
<1>1. ASSUME NEW p \in People, Announce(p) PROVE ModelInv'
  <2>1. /\ UNCHANGED <<flock, worker, job, thesis>>
        /\ person' \in [People -> PersonPlaces]
        /\ \A q \in People : person'[q] = person[q] \/ person'[q] = "waiting"
        /\ marker' = [state |-> "waiting", recent |-> TRUE]
        /\ begun' \in [items : Nat, passes : Nat]
        /\ (begun'.items = 0 \/ (Active /\ begun'.items = begun.items))
    <3>1. /\ UNCHANGED <<flock, worker, job, thesis>>
          /\ person' \in [People -> PersonPlaces]
          /\ \A q \in People : person'[q] = person[q] \/ person'[q] = "waiting"
          /\ marker' = [state |-> "waiting", recent |-> TRUE]
      BY <1>1 DEF ModelTypeOK, JobRecords, ThesisRecords, PersonPlaces, Announce
    <3>2. CASE Active
      <4>1. begun' \in [items : Nat, passes : Nat] /\ begun'.items = begun.items
        BY <1>1, <3>2, ModelIsTyped
           DEF ModelTypeOK, JobRecords, ThesisRecords, PersonPlaces, ModelFacts, Announce
      <4> QED BY <3>1, <3>2, <4>1
    <3>3. CASE ~Active
      <4>1. begun' = [items |-> 0, passes |-> begun.passes + 1]
        BY <1>1, <3>3, ModelIsTyped DEF ModelFacts, Announce
      <4>2. begun' \in [items : Nat, passes : Nat] /\ begun'.items = 0
        BY <4>1, ModelIsTyped DEF ModelFacts
      <4> QED BY <3>1, <4>2
    <3> QED BY <3>2, <3>3
  <2>2. ModelTypeOK'
    BY <1>0, <2>1 DEF ModelTypeOK, Sets
  <2>3. FlockExcludes'
    BY <1>0, <2>1, ModelIsTyped DEF ModelFacts, FlockExcludes, HoldsFlock, Sets, Background
  <2>4. OneItemWasCleared'
    BY <1>0, <2>1, ModelIsTyped
       DEF ModelFacts, FlockExcludes, OneItemWasCleared, HoldsFlock, Active, Sets, Background
  <2>5. JobsAreHeld'
    BY <1>0, <2>1, ModelIsTyped
       DEF ModelFacts, JobsAreHeld, BeforeWrite, HoldsFlock, Settled, Sets, Background
  <2>6. CheckedExactlyOnce'
    BY <1>0, <2>1, ModelIsTyped DEF ModelFacts, JobsAreHeld, CheckedExactlyOnce, BeforeWrite, Settled
  <2> QED BY <2>2, <2>3, <2>4, <2>5, <2>6
<1>2. ASSUME NEW p \in People, TakeFlock(p) PROVE ModelInv'
  <2>1. /\ UNCHANGED <<marker, worker, job, thesis, begun>>
        /\ person' \in [People -> PersonPlaces]
        /\ flock = Nobody /\ flock' = p /\ \A q \in People : q # p => person'[q] = person[q]
    BY <1>0, <1>2 DEF ModelTypeOK, JobRecords, ThesisRecords, PersonPlaces, TakeFlock
  <2>2. ModelTypeOK'
    BY <1>0, <2>1 DEF ModelTypeOK, Sets
  <2>3. FlockExcludes'
    BY <1>0, <2>1, ModelIsTyped DEF ModelFacts, FlockExcludes, HoldsFlock, Sets, Background
  <2>4. OneItemWasCleared'
    BY <1>0, <2>1, ModelIsTyped
       DEF ModelFacts, FlockExcludes, OneItemWasCleared, HoldsFlock, Active, Sets, Background
  <2>5. JobsAreHeld'
    BY <1>0, <2>1, ModelIsTyped
       DEF ModelFacts, JobsAreHeld, BeforeWrite, HoldsFlock, Settled, Sets, Background
  <2>6. CheckedExactlyOnce'
    BY <1>0, <2>1, ModelIsTyped DEF ModelFacts, JobsAreHeld, CheckedExactlyOnce, BeforeWrite, Settled
  <2> QED BY <2>2, <2>3, <2>4, <2>5, <2>6
<1>3. ASSUME NEW p \in People, MarkHeld(p) PROVE ModelInv'
  <2>1. /\ UNCHANGED <<flock, worker, job, thesis>>
        /\ person' \in [People -> PersonPlaces]
        /\ person[p] \in {"locked", "held"} /\ \A q \in People : q # p => person'[q] = person[q]
        /\ marker' = [state |-> "held", recent |-> TRUE]
        /\ begun' \in [items : Nat, passes : Nat]
        /\ (begun'.items = 0 \/ (Active /\ begun'.items = begun.items))
    <3>1. /\ UNCHANGED <<flock, worker, job, thesis>>
          /\ person' \in [People -> PersonPlaces]
          /\ person[p] \in {"locked", "held"} /\ \A q \in People : q # p => person'[q] = person[q]
          /\ marker' = [state |-> "held", recent |-> TRUE]
      BY <1>3 DEF ModelTypeOK, JobRecords, ThesisRecords, PersonPlaces, MarkHeld, Marks
    <3>2. CASE Active
      <4>1. begun' \in [items : Nat, passes : Nat] /\ begun'.items = begun.items
        BY <1>3, <3>2, ModelIsTyped
           DEF ModelTypeOK, JobRecords, ThesisRecords, PersonPlaces, ModelFacts, MarkHeld, Marks
      <4> QED BY <3>1, <3>2, <4>1
    <3>3. CASE ~Active
      <4>1. begun' = [items |-> 0, passes |-> begun.passes]
        BY <1>3, <3>3, ModelIsTyped DEF ModelFacts, MarkHeld, Marks
      <4>2. begun' \in [items : Nat, passes : Nat] /\ begun'.items = 0
        BY <4>1, ModelIsTyped DEF ModelFacts
      <4> QED BY <3>1, <4>2
    <3> QED BY <3>2, <3>3
  <2>2. ModelTypeOK'
    BY <1>0, <2>1 DEF ModelTypeOK, Sets
  <2>3. FlockExcludes'
    BY <1>0, <2>1, ModelIsTyped DEF ModelFacts, FlockExcludes, HoldsFlock, Sets, Background
  <2>4. OneItemWasCleared'
    BY <1>0, <2>1, ModelIsTyped
       DEF ModelFacts, FlockExcludes, OneItemWasCleared, HoldsFlock, Active, Sets, Background
  <2>5. JobsAreHeld'
    BY <1>0, <2>1, ModelIsTyped
       DEF ModelFacts, JobsAreHeld, BeforeWrite, HoldsFlock, Settled, Sets, Background
  <2>6. CheckedExactlyOnce'
    BY <1>0, <2>1, ModelIsTyped DEF ModelFacts, JobsAreHeld, CheckedExactlyOnce, BeforeWrite, Settled
  <2> QED BY <2>2, <2>3, <2>4, <2>5, <2>6
<1>4. ASSUME NEW p \in People, MarkReleased(p) PROVE ModelInv'
  <2>1. /\ UNCHANGED <<flock, worker, job, thesis>>
        /\ person' \in [People -> PersonPlaces]
        /\ person[p] = "held" /\ \A q \in People : q # p => person'[q] = person[q]
        /\ marker' = [state |-> "released", recent |-> TRUE]
        /\ begun' \in [items : Nat, passes : Nat]
    BY <1>0, <1>4 DEF ModelTypeOK, JobRecords, ThesisRecords, PersonPlaces, MarkReleased, Marks
  <2>2. ModelTypeOK'
    BY <1>0, <2>1 DEF ModelTypeOK, Sets
  <2>3. FlockExcludes'
    BY <1>0, <2>1, ModelIsTyped DEF ModelFacts, FlockExcludes, HoldsFlock, Sets, Background
  <2>4. OneItemWasCleared'
    BY <1>0, <2>1, ModelIsTyped
       DEF ModelFacts, FlockExcludes, OneItemWasCleared, HoldsFlock, Active, Sets, Background
  <2>5. JobsAreHeld'
    BY <1>0, <2>1, ModelIsTyped
       DEF ModelFacts, JobsAreHeld, BeforeWrite, HoldsFlock, Settled, Sets, Background
  <2>6. CheckedExactlyOnce'
    BY <1>0, <2>1, ModelIsTyped DEF ModelFacts, JobsAreHeld, CheckedExactlyOnce, BeforeWrite, Settled
  <2> QED BY <2>2, <2>3, <2>4, <2>5, <2>6
<1>5. ASSUME NEW p \in People, ReleaseFlock(p) PROVE ModelInv'
  <2>1. /\ UNCHANGED <<marker, worker, job, thesis, begun>>
        /\ person' \in [People -> PersonPlaces]
        /\ person[p] = "leaving" /\ person'[p] = "idle" /\ flock' = Nobody
        /\ \A q \in People : q # p => person'[q] = person[q]
    BY <1>0, <1>5 DEF ModelTypeOK, JobRecords, ThesisRecords, PersonPlaces, ReleaseFlock
  <2>2. ModelTypeOK'
    BY <1>0, <2>1 DEF ModelTypeOK, Sets
  <2>3. FlockExcludes'
    BY <1>0, <2>1, ModelIsTyped DEF ModelFacts, FlockExcludes, HoldsFlock, Sets, Background
  <2>4. OneItemWasCleared'
    BY <1>0, <2>1, ModelIsTyped
       DEF ModelFacts, FlockExcludes, OneItemWasCleared, HoldsFlock, Active, Sets, Background
  <2>5. JobsAreHeld'
    BY <1>0, <2>1, ModelIsTyped
       DEF ModelFacts, JobsAreHeld, BeforeWrite, HoldsFlock, Settled, Sets, Background
  <2>6. CheckedExactlyOnce'
    BY <1>0, <2>1, ModelIsTyped DEF ModelFacts, JobsAreHeld, CheckedExactlyOnce, BeforeWrite, Settled
  <2> QED BY <2>2, <2>3, <2>4, <2>5, <2>6
<1>6. ASSUME NEW p \in People, KillPerson(p) PROVE ModelInv'
  <2>1. /\ UNCHANGED <<marker, worker, job, thesis, begun>>
        /\ person' \in [People -> PersonPlaces]
        /\ person'[p] = "idle" /\ \A q \in People : q # p => person'[q] = person[q]
        /\ flock' = IF flock = p THEN Nobody ELSE flock
    BY <1>0, <1>6 DEF ModelTypeOK, JobRecords, ThesisRecords, PersonPlaces, KillPerson
  <2>2. ModelTypeOK'
    BY <1>0, <2>1 DEF ModelTypeOK, Sets
  <2>3. FlockExcludes'
    BY <1>0, <2>1, ModelIsTyped DEF ModelFacts, FlockExcludes, HoldsFlock, Sets, Background
  <2>4. OneItemWasCleared'
    BY <1>0, <2>1, ModelIsTyped
       DEF ModelFacts, FlockExcludes, OneItemWasCleared, HoldsFlock, Active, Sets, Background
  <2>5. JobsAreHeld'
    BY <1>0, <2>1, ModelIsTyped
       DEF ModelFacts, JobsAreHeld, BeforeWrite, HoldsFlock, Settled, Sets, Background
  <2>6. CheckedExactlyOnce'
    BY <1>0, <2>1, ModelIsTyped DEF ModelFacts, JobsAreHeld, CheckedExactlyOnce, BeforeWrite, Settled
  <2> QED BY <2>2, <2>3, <2>4, <2>5, <2>6
<1>7. CASE MarkerAges
  <2>1. /\ UNCHANGED <<flock, person, worker, job, thesis>>
        /\ marker' \in [state : {"none", "waiting", "held", "released"}, recent : BOOLEAN]
        /\ begun' \in [items : Nat, passes : Nat] /\ begun'.items = 0
    BY <1>0, <1>7 DEF ModelTypeOK, JobRecords, ThesisRecords, PersonPlaces, MarkerAges
  <2>2. ModelTypeOK'
    BY <1>0, <2>1 DEF ModelTypeOK, Sets
  <2>3. FlockExcludes'
    BY <1>0, <2>1, ModelIsTyped DEF ModelFacts, FlockExcludes, HoldsFlock, Sets, Background
  <2>4. OneItemWasCleared'
    BY <1>0, <2>1, ModelIsTyped
       DEF ModelFacts, FlockExcludes, OneItemWasCleared, HoldsFlock, Active, Sets, Background
  <2>5. JobsAreHeld'
    BY <1>0, <2>1, ModelIsTyped
       DEF ModelFacts, JobsAreHeld, BeforeWrite, HoldsFlock, Settled, Sets, Background
  <2>6. CheckedExactlyOnce'
    BY <1>0, <2>1, ModelIsTyped DEF ModelFacts, JobsAreHeld, CheckedExactlyOnce, BeforeWrite, Settled
  <2> QED BY <2>2, <2>3, <2>4, <2>5, <2>6
<1>8. ASSUME NEW w \in Background, AskModel(w) PROVE ModelInv'
  <2>1. /\ UNCHANGED <<flock, marker, person, job, thesis, begun>>
        /\ Sets(w, worker'[w])
        /\ worker[w].pc = "asking"
        /\ \/ worker'[w] = Rest
           \/ worker'[w].pc = "locking" /\ worker'[w].item = worker[w].item
           \/ w \in Resynths /\ worker'[w].pc = "returning" /\ worker'[w].item = worker[w].item
    BY <1>0, <1>8, StepMoves, RefusedMoves DEF AskModel, Places, BeforeWrite
  <2>2. ModelTypeOK'
    BY <1>0, <2>1 DEF ModelTypeOK, Sets
  <2>3. FlockExcludes'
    BY <1>0, <2>1, ModelIsTyped, RestIsWork DEF ModelFacts, FlockExcludes, HoldsFlock, Sets, Background
  <2>4. OneItemWasCleared'
    BY <1>0, <2>1, ModelIsTyped, RestIsWork
       DEF ModelFacts, FlockExcludes, OneItemWasCleared, HoldsFlock, Active, Sets, Background
  <2>5. JobsAreHeld'
    BY <1>0, <2>1, ModelIsTyped, RestIsWork
       DEF ModelFacts, JobsAreHeld, BeforeWrite, HoldsFlock, Settled, Sets, Background
  <2>6. CheckedExactlyOnce'
    BY <1>0, <2>1, ModelIsTyped, RestIsWork
       DEF ModelFacts, JobsAreHeld, CheckedExactlyOnce, BeforeWrite, Settled
  <2> QED BY <2>2, <2>3, <2>4, <2>5, <2>6
<1>9. ASSUME NEW w \in Background, TryFlock(w) PROVE ModelInv'
  <2>1. /\ UNCHANGED <<marker, person, job, thesis, begun>>
        /\ Sets(w, worker'[w])
        /\ worker[w].pc = "locking"
        /\ \/ worker'[w] = Rest /\ flock' = flock
           \/ flock = Nobody /\ flock' = w /\ worker'[w].pc = "locked" /\ worker'[w].item = worker[w].item
           \/ flock' = flock /\ w \in Resynths /\ worker'[w].pc = "returning" /\ worker'[w].item = worker[w].item
    BY <1>0, <1>9, StepMoves, RefusedMoves DEF TryFlock, Places, BeforeWrite, HoldsFlock
  <2>2. ModelTypeOK'
    BY <1>0, <2>1 DEF ModelTypeOK, Sets
  <2>3. FlockExcludes'
    BY <1>0, <2>1, ModelIsTyped, RestIsWork DEF ModelFacts, FlockExcludes, HoldsFlock, Sets, Background
  <2>4. OneItemWasCleared'
    BY <1>0, <2>1, ModelIsTyped, RestIsWork
       DEF ModelFacts, FlockExcludes, OneItemWasCleared, HoldsFlock, Active, Sets, Background
  <2>5. JobsAreHeld'
    BY <1>0, <2>1, ModelIsTyped, RestIsWork
       DEF ModelFacts, JobsAreHeld, BeforeWrite, HoldsFlock, Settled, Sets, Background
  <2>6. CheckedExactlyOnce'
    BY <1>0, <2>1, ModelIsTyped, RestIsWork
       DEF ModelFacts, JobsAreHeld, CheckedExactlyOnce, BeforeWrite, Settled
  <2> QED BY <2>2, <2>3, <2>4, <2>5, <2>6
<1>10. ASSUME NEW w \in Background, Recheck(w) PROVE ModelInv'
  <2>1. /\ UNCHANGED <<marker, person, job, thesis, begun>>
        /\ Sets(w, worker'[w])
        /\ worker[w].pc \in {"locked", "checked"}
        /\ \/ flock' = Nobody /\ worker'[w] = Rest
           \/ flock' = Nobody /\ w \in Resynths /\ worker'[w].pc = "returning" /\ worker'[w].item = worker[w].item
           \/ ~Active /\ flock' = flock /\ worker'[w].pc \in {"checked", "clear"} /\ worker'[w].item = worker[w].item
    BY <1>0, <1>10, StepMoves, RefusedMoves DEF Recheck, GivesWay, Places, BeforeWrite, HoldsFlock
  <2>2. ModelTypeOK'
    BY <1>0, <2>1 DEF ModelTypeOK, Sets
  <2>3. FlockExcludes'
    BY <1>0, <2>1, ModelIsTyped, RestIsWork DEF ModelFacts, FlockExcludes, HoldsFlock, Sets, Background
  <2>4. OneItemWasCleared'
    BY <1>0, <2>1, ModelIsTyped, RestIsWork
       DEF ModelFacts, FlockExcludes, OneItemWasCleared, HoldsFlock, Active, Sets, Background
  <2>5. JobsAreHeld'
    BY <1>0, <2>1, ModelIsTyped, RestIsWork
       DEF ModelFacts, JobsAreHeld, BeforeWrite, HoldsFlock, Settled, Sets, Background
  <2>6. CheckedExactlyOnce'
    BY <1>0, <2>1, ModelIsTyped, RestIsWork
       DEF ModelFacts, JobsAreHeld, CheckedExactlyOnce, BeforeWrite, Settled
  <2> QED BY <2>2, <2>3, <2>4, <2>5, <2>6
<1>11. ASSUME NEW w \in Background, Generate(w) PROVE ModelInv'
  <2>1. /\ UNCHANGED <<flock, marker, person, job, thesis>>
        /\ Sets(w, worker'[w])
        /\ worker[w].pc = "clear" /\ worker'[w].pc = "generating" /\ worker'[w].item = worker[w].item
        /\ begun' \in [items : Nat, passes : Nat]
        /\ Active => begun'.items = IF worker[w].tries = 0 THEN begun.items + 1 ELSE begun.items
    <3> DEFINE n == worker[w].tries + 1
               new == [worker[w] EXCEPT !.pc = "generating", !.tries = n]
    <3>0. n \in Nat
      BY WorkIsTyped
    <3> HIDE DEF n
    <3>1. new \in Work /\ new.pc = "generating" /\ new.item = worker[w].item
      BY <3>0, WorkIsTyped DEF Work, Places, BeforeWrite, HoldsFlock
    <3>2. worker' = [worker EXCEPT ![w] = new]
      BY <1>0, <1>11 DEF Generate, ModelTypeOK, JobRecords, ThesisRecords, PersonPlaces, n
    <3> HIDE DEF new
    <3>3. Sets(w, new)
      BY <1>0, <3>1, <3>2, WorkerIsSet
    <3>4. /\ UNCHANGED <<flock, marker, person, job, thesis>> /\ worker[w].pc = "clear"
          /\ begun' = IF ~Active THEN begun
                ELSE [begun EXCEPT !.items = IF worker[w].tries = 0 THEN @ + 1 ELSE @]
      BY <1>11 DEF Generate
    <3>5. /\ begun' \in [items : Nat, passes : Nat]
          /\ Active => begun'.items = IF worker[w].tries = 0 THEN begun.items + 1 ELSE begun.items
      <4>1. CASE Active
        <5>1. begun' = [items |-> IF worker[w].tries = 0 THEN begun.items + 1 ELSE begun.items, passes |-> begun.passes]
          BY <3>4, <4>1, ModelIsTyped DEF ModelFacts
        <5> QED BY <5>1, ModelIsTyped DEF ModelFacts
      <4>2. CASE ~Active
        BY <3>4, <4>2 DEF ModelTypeOK, JobRecords, ThesisRecords, PersonPlaces
      <4> QED BY <4>1, <4>2
    <3> QED
      BY <3>1, <3>3, <3>4, <3>5 DEF Sets
  <2>2. ModelTypeOK'
    BY <1>0, <2>1 DEF ModelTypeOK, Sets
  <2>3. FlockExcludes'
    BY <1>0, <2>1, ModelIsTyped, RestIsWork DEF ModelFacts, FlockExcludes, HoldsFlock, Sets, Background
  <2>4. OneItemWasCleared'
    BY <1>0, <2>1, ModelIsTyped, RestIsWork
       DEF ModelFacts, FlockExcludes, OneItemWasCleared, HoldsFlock, Active, Sets, Background
  <2>5. JobsAreHeld'
    BY <1>0, <2>1, ModelIsTyped, RestIsWork
       DEF ModelFacts, JobsAreHeld, BeforeWrite, HoldsFlock, Settled, Sets, Background
  <2>6. CheckedExactlyOnce'
    BY <1>0, <2>1, ModelIsTyped, RestIsWork
       DEF ModelFacts, JobsAreHeld, CheckedExactlyOnce, BeforeWrite, Settled
  <2> QED BY <2>2, <2>3, <2>4, <2>5, <2>6
<1>12. ASSUME NEW w \in Background, RetryFirmer(w) PROVE ModelInv'
  <2>1. /\ UNCHANGED <<flock, marker, person, job, thesis, begun>>
        /\ Sets(w, worker'[w])
        /\ worker[w].pc = "generating" /\ worker'[w].pc = "clear" /\ worker'[w].item = worker[w].item
        /\ worker'[w].tries = 1
    BY <1>0, <1>12, StepMoves DEF RetryFirmer, Places, BeforeWrite, HoldsFlock
  <2>2. ModelTypeOK'
    BY <1>0, <2>1 DEF ModelTypeOK, Sets
  <2>3. FlockExcludes'
    BY <1>0, <2>1, ModelIsTyped, RestIsWork DEF ModelFacts, FlockExcludes, HoldsFlock, Sets, Background
  <2>4. OneItemWasCleared'
    BY <1>0, <2>1, ModelIsTyped, RestIsWork
       DEF ModelFacts, FlockExcludes, OneItemWasCleared, HoldsFlock, Active, Sets, Background
  <2>5. JobsAreHeld'
    BY <1>0, <2>1, ModelIsTyped, RestIsWork
       DEF ModelFacts, JobsAreHeld, BeforeWrite, HoldsFlock, Settled, Sets, Background
  <2>6. CheckedExactlyOnce'
    BY <1>0, <2>1, ModelIsTyped, RestIsWork
       DEF ModelFacts, JobsAreHeld, CheckedExactlyOnce, BeforeWrite, Settled
  <2> QED BY <2>2, <2>3, <2>4, <2>5, <2>6
<1>13. ASSUME NEW w \in Background, Generated(w) PROVE ModelInv'
  <2>1. /\ UNCHANGED <<marker, person, job, thesis, begun>>
        /\ Sets(w, worker'[w])
        /\ worker[w].pc = "generating" /\ flock' = Nobody /\ worker'[w].item = worker[w].item
        /\ worker'[w].pc \in {"delivering"} \cup (IF w \in Enrichers THEN {"between"} ELSE {"returning"})
    <3>1. PICK next \in {"delivering", IF w \in Enrichers THEN "between" ELSE "returning"} :
            worker' = [worker EXCEPT ![w].pc = next, ![w].tries = 0]
      BY <1>13 DEF Generated
    <3> DEFINE new == [worker[w] EXCEPT !.pc = next, !.tries = 0]
    <3>2. new \in Work /\ new.pc = next /\ new.item = worker[w].item
      BY <3>1, WorkIsTyped DEF Work, Places, BeforeWrite, HoldsFlock
    <3>3. worker' = [worker EXCEPT ![w] = new]
      BY <3>1 DEF ModelTypeOK, JobRecords, ThesisRecords, PersonPlaces
    <3> HIDE DEF new
    <3>4. Sets(w, new)
      BY <3>2, <3>3, WorkerIsSet
    <3> QED
      BY <1>13, <3>2, <3>4 DEF Sets, Generated
  <2>2. ModelTypeOK'
    BY <1>0, <2>1 DEF ModelTypeOK, Sets
  <2>3. FlockExcludes'
    BY <1>0, <2>1, ModelIsTyped, RestIsWork DEF ModelFacts, FlockExcludes, HoldsFlock, Sets, Background
  <2>4. OneItemWasCleared'
    BY <1>0, <2>1, ModelIsTyped, RestIsWork
       DEF ModelFacts, FlockExcludes, OneItemWasCleared, HoldsFlock, Active, Sets, Background
  <2>5. JobsAreHeld'
    BY <1>0, <2>1, ModelIsTyped, RestIsWork
       DEF ModelFacts, JobsAreHeld, BeforeWrite, HoldsFlock, Settled, Sets, Background
  <2>6. CheckedExactlyOnce'
    BY <1>0, <2>1, ModelIsTyped, RestIsWork
       DEF ModelFacts, JobsAreHeld, CheckedExactlyOnce, BeforeWrite, Settled
  <2> QED BY <2>2, <2>3, <2>4, <2>5, <2>6
<1>14. ASSUME NEW w \in Background, KillWorker(w) PROVE ModelInv'
  <2>1. /\ UNCHANGED <<marker, person, job, thesis, begun>>
        /\ Sets(w, worker'[w])
        /\ worker'[w] = Rest /\ flock' = IF flock = w THEN Nobody ELSE flock
    BY <1>0, <1>14, WorkerIsSet, RestIsWork DEF KillWorker, Sets
  <2>2. ModelTypeOK'
    BY <1>0, <2>1 DEF ModelTypeOK, Sets
  <2>3. FlockExcludes'
    BY <1>0, <2>1, ModelIsTyped, RestIsWork DEF ModelFacts, FlockExcludes, HoldsFlock, Sets, Background
  <2>4. OneItemWasCleared'
    BY <1>0, <2>1, ModelIsTyped, RestIsWork
       DEF ModelFacts, FlockExcludes, OneItemWasCleared, HoldsFlock, Active, Sets, Background
  <2>5. JobsAreHeld'
    BY <1>0, <2>1, ModelIsTyped, RestIsWork
       DEF ModelFacts, JobsAreHeld, BeforeWrite, HoldsFlock, Settled, Sets, Background
  <2>6. CheckedExactlyOnce'
    BY <1>0, <2>1, ModelIsTyped, RestIsWork
       DEF ModelFacts, JobsAreHeld, CheckedExactlyOnce, BeforeWrite, Settled
  <2> QED BY <2>2, <2>3, <2>4, <2>5, <2>6
<1>15. ASSUME NEW w \in Enrichers, BeginEnrich(w) PROVE ModelInv'
  <2>1. /\ UNCHANGED <<flock, marker, person, job, thesis>>
        /\ Sets(w, worker'[w])
        /\ worker'[w].pc = "next"
        /\ begun' \in [items : Nat, passes : Nat] /\ begun'.items = begun.items
    <3> DEFINE new == [Rest EXCEPT !.pc = "next", !.left = RawEvents \ enriched]
    <3>1. new \in Work /\ new.pc = "next"
      BY <1>0, <1>15, WorkIsTyped, RestIsWork DEF Work, Places, BeforeWrite, HoldsFlock, BeginEnrich
    <3>2. worker' = [worker EXCEPT ![w] = new]
      BY <1>0, <1>15 DEF BeginEnrich, ModelTypeOK, JobRecords, ThesisRecords, PersonPlaces
    <3> HIDE DEF new
    <3>3. Sets(w, new)
      BY <1>0, <3>1, <3>2, WorkerIsSet
    <3> QED
      BY <1>0, <1>15, <3>1, <3>3
         DEF Sets, ModelTypeOK, JobRecords, ThesisRecords, PersonPlaces, BeginEnrich
  <2>2. ModelTypeOK'
    BY <1>0, <2>1 DEF ModelTypeOK, Sets
  <2>3. FlockExcludes'
    BY <1>0, <2>1, ModelIsTyped, RestIsWork DEF ModelFacts, FlockExcludes, HoldsFlock, Sets, Background
  <2>4. OneItemWasCleared'
    BY <1>0, <2>1, ModelIsTyped, RestIsWork
       DEF ModelFacts, FlockExcludes, OneItemWasCleared, HoldsFlock, Active, Sets, Background
  <2>5. JobsAreHeld'
    BY <1>0, <2>1, ModelIsTyped, RestIsWork
       DEF ModelFacts, JobsAreHeld, BeforeWrite, HoldsFlock, Settled, Sets, Background
  <2>6. CheckedExactlyOnce'
    BY <1>0, <2>1, ModelIsTyped, RestIsWork
       DEF ModelFacts, JobsAreHeld, CheckedExactlyOnce, BeforeWrite, Settled
  <2> QED BY <2>2, <2>3, <2>4, <2>5, <2>6
<1>16. ASSUME NEW w \in Enrichers, NextEvent(w) PROVE ModelInv'
  <2>1. /\ UNCHANGED <<flock, marker, person, job, thesis, begun>>
        /\ Sets(w, worker'[w])
        /\ worker'[w].pc \in {"asking", "idle"}
    <3>1. ASSUME NEW v \in worker[w].left,
                 worker' = [worker EXCEPT ![w].pc = "asking", ![w].item = v, ![w].left = @ \ {v}]
          PROVE  Sets(w, worker'[w]) /\ worker'[w].pc = "asking"
      <4> DEFINE new == [worker[w] EXCEPT !.pc = "asking", !.item = v, !.left = @ \ {v}]
      <4>1. new \in Work /\ new.pc = "asking"
        BY <1>0, WorkIsTyped DEF Work, Places, BeforeWrite, HoldsFlock
      <4>2. worker' = [worker EXCEPT ![w] = new]
        BY <1>0, <3>1 DEF ModelTypeOK, JobRecords, ThesisRecords, PersonPlaces
      <4> HIDE DEF new
      <4> QED BY <1>0, <4>1, <4>2, WorkerIsSet DEF Sets
    <3>2. ASSUME worker' = [worker EXCEPT ![w] = Rest]
          PROVE  Sets(w, worker'[w]) /\ worker'[w] = Rest
      <4>1. w \in Background
        BY <1>0
      <4> QED BY <3>2, <4>1, WorkerIsSet, RestIsWork DEF Sets
    <3> QED
      BY <1>16, <3>1, <3>2, RestIsWork DEF NextEvent, Sets
  <2>2. ModelTypeOK'
    BY <1>0, <2>1 DEF ModelTypeOK, Sets
  <2>3. FlockExcludes'
    BY <1>0, <2>1, ModelIsTyped, RestIsWork DEF ModelFacts, FlockExcludes, HoldsFlock, Sets, Background
  <2>4. OneItemWasCleared'
    BY <1>0, <2>1, ModelIsTyped, RestIsWork
       DEF ModelFacts, FlockExcludes, OneItemWasCleared, HoldsFlock, Active, Sets, Background
  <2>5. JobsAreHeld'
    BY <1>0, <2>1, ModelIsTyped, RestIsWork
       DEF ModelFacts, JobsAreHeld, BeforeWrite, HoldsFlock, Settled, Sets, Background
  <2>6. CheckedExactlyOnce'
    BY <1>0, <2>1, ModelIsTyped, RestIsWork
       DEF ModelFacts, JobsAreHeld, CheckedExactlyOnce, BeforeWrite, Settled
  <2> QED BY <2>2, <2>3, <2>4, <2>5, <2>6
<1>17. ASSUME NEW w \in Enrichers, PostEnrichment(w) PROVE ModelInv'
  <2>1. /\ UNCHANGED <<flock, marker, person, job, thesis, begun>>
        /\ Sets(w, worker'[w])
        /\ worker'[w].pc \in {"between", "idle"}
    BY <1>0, <1>17, StepMoves, WorkerIsSet, RestIsWork DEF PostEnrichment, Sets, Places
  <2>2. ModelTypeOK'
    BY <1>0, <2>1 DEF ModelTypeOK, Sets
  <2>3. FlockExcludes'
    BY <1>0, <2>1, ModelIsTyped, RestIsWork DEF ModelFacts, FlockExcludes, HoldsFlock, Sets, Background
  <2>4. OneItemWasCleared'
    BY <1>0, <2>1, ModelIsTyped, RestIsWork
       DEF ModelFacts, FlockExcludes, OneItemWasCleared, HoldsFlock, Active, Sets, Background
  <2>5. JobsAreHeld'
    BY <1>0, <2>1, ModelIsTyped, RestIsWork
       DEF ModelFacts, JobsAreHeld, BeforeWrite, HoldsFlock, Settled, Sets, Background
  <2>6. CheckedExactlyOnce'
    BY <1>0, <2>1, ModelIsTyped, RestIsWork
       DEF ModelFacts, JobsAreHeld, CheckedExactlyOnce, BeforeWrite, Settled
  <2> QED BY <2>2, <2>3, <2>4, <2>5, <2>6
<1>18. ASSUME NEW w \in Enrichers, BetweenEvents(w) PROVE ModelInv'
  <2>1. /\ UNCHANGED <<flock, marker, person, job, thesis, begun>>
        /\ Sets(w, worker'[w])
        /\ worker'[w].pc \in {"next", "idle"}
    <3> DEFINE new == [worker[w] EXCEPT !.pc = "next", !.item = NoItem]
    <3>1. new \in Work /\ new.pc = "next"
      BY <1>0, WorkIsTyped DEF Work, Places
    <3>2. worker' = [worker EXCEPT ![w] = new] \/ worker' = [worker EXCEPT ![w] = Rest]
      BY <1>0, <1>18 DEF BetweenEvents, ModelTypeOK, JobRecords, ThesisRecords, PersonPlaces
    <3> HIDE DEF new
    <3> QED
      BY <1>0, <1>18, <3>1, <3>2, WorkerIsSet, RestIsWork DEF Sets, BetweenEvents
  <2>2. ModelTypeOK'
    BY <1>0, <2>1 DEF ModelTypeOK, Sets
  <2>3. FlockExcludes'
    BY <1>0, <2>1, ModelIsTyped, RestIsWork DEF ModelFacts, FlockExcludes, HoldsFlock, Sets, Background
  <2>4. OneItemWasCleared'
    BY <1>0, <2>1, ModelIsTyped, RestIsWork
       DEF ModelFacts, FlockExcludes, OneItemWasCleared, HoldsFlock, Active, Sets, Background
  <2>5. JobsAreHeld'
    BY <1>0, <2>1, ModelIsTyped, RestIsWork
       DEF ModelFacts, JobsAreHeld, BeforeWrite, HoldsFlock, Settled, Sets, Background
  <2>6. CheckedExactlyOnce'
    BY <1>0, <2>1, ModelIsTyped, RestIsWork
       DEF ModelFacts, JobsAreHeld, CheckedExactlyOnce, BeforeWrite, Settled
  <2> QED BY <2>2, <2>3, <2>4, <2>5, <2>6
<1>19. ASSUME NEW w \in Resynths, ReadThesis(w) PROVE ModelInv'
  <2>1. /\ UNCHANGED <<flock, marker, person, job, thesis, begun>>
        /\ Sets(w, worker'[w])
        /\ worker[w].pc = "reading" /\ worker'[w].item = worker[w].item
        /\ \/ worker'[w].pc = "acking" /\ Settled(worker[w].item)
           \/ worker'[w].pc = "asking" /\ ~Settled(worker[w].item)
           \/ worker'[w].pc = "returning"
    BY <1>0, <1>19, StepMoves DEF ReadThesis, Places, BeforeWrite
  <2>2. ModelTypeOK'
    BY <1>0, <2>1 DEF ModelTypeOK, Sets
  <2>3. FlockExcludes'
    BY <1>0, <2>1, ModelIsTyped, RestIsWork DEF ModelFacts, FlockExcludes, HoldsFlock, Sets, Background
  <2>4. OneItemWasCleared'
    BY <1>0, <2>1, ModelIsTyped, RestIsWork
       DEF ModelFacts, FlockExcludes, OneItemWasCleared, HoldsFlock, Active, Sets, Background
  <2>5. JobsAreHeld'
    BY <1>0, <2>1, ModelIsTyped, RestIsWork
       DEF ModelFacts, JobsAreHeld, BeforeWrite, HoldsFlock, Settled, Sets, Background
  <2>6. CheckedExactlyOnce'
    BY <1>0, <2>1, ModelIsTyped, RestIsWork
       DEF ModelFacts, JobsAreHeld, CheckedExactlyOnce, BeforeWrite, Settled
  <2> QED BY <2>2, <2>3, <2>4, <2>5, <2>6
<1>20. ASSUME NEW w \in Resynths, PutCheck(w) PROVE ModelInv'
  <2>1. /\ UNCHANGED <<flock, marker, person, job, begun>>
        /\ Sets(w, worker'[w])
        /\ worker[w].pc = "delivering" /\ worker'[w].item = worker[w].item
        /\ worker'[w].pc \in {"acking", "returning"}
        /\ thesis' \in [Jobs -> ThesisRecords]
        /\ \A j \in Jobs : j # worker[w].item => thesis'[j] = thesis[j]
        /\ \A j \in Jobs : thesis'[j].active = thesis[j].active
        /\ \A j \in Jobs : thesis'[j].checks \in {thesis[j].checks, thesis[j].checks + 1}
        /\ worker'[w].pc = "acking" => thesis'[worker[w].item].checks = thesis[worker[w].item].checks + 1
    <3> DEFINE j == worker[w].item
                kept == [thesis EXCEPT ![j].checks = @ + 1]
    <3>1. PICK answered \in BOOLEAN :
            thesis' \in (IF answered THEN {kept} ELSE {thesis, kept}) /\ Step(w, AfterPut(answered))
      BY <1>20 DEF PutCheck
    <3>2. j \in Jobs /\ worker[w].pc = "delivering"
      BY <1>20 DEF JobsAreHeld, PutCheck
    <3>3. thesis[j] \in ThesisRecords
      BY <3>2 DEF ModelTypeOK, JobRecords, ThesisRecords, PersonPlaces
    <3>4. /\ kept \in [Jobs -> ThesisRecords]
          /\ \A i \in Jobs : i # j => kept[i] = thesis[i]
          /\ \A i \in Jobs : kept[i].active = thesis[i].active
          /\ kept[j].checks = thesis[j].checks + 1
      BY <3>2, <3>3 DEF ModelTypeOK, JobRecords, ThesisRecords, PersonPlaces
    <3>5. AfterPut(answered) \in {"acking", "returning"} /\ (AfterPut(answered) = "acking" => answered)
      BY DEF AfterPut
    <3>6. AfterPut(answered) \in Places
      BY <3>5 DEF Places
    <3>7. /\ Sets(w, worker'[w]) /\ worker'[w].item = worker[w].item
          /\ worker'[w].pc = AfterPut(answered)
      BY <1>0, <3>1, <3>6, StepMoves
    <3> HIDE DEF j, kept
    <3>8. /\ UNCHANGED <<flock, marker, person, job, begun>> /\ worker[w].item = j
          /\ thesis' = kept \/ (~answered /\ thesis' = thesis)
      BY <1>20, <3>1 DEF PutCheck, j
    <3>9. \A i \in Jobs : thesis[i].checks \in Nat
      BY DEF ModelTypeOK, JobRecords, ThesisRecords, PersonPlaces
    <3> QED
      BY ZenonT(30), <3>2, <3>4, <3>5, <3>7, <3>8, <3>9 DEF ModelTypeOK, JobRecords, ThesisRecords, PersonPlaces
  <2>2. ModelTypeOK'
    BY <1>0, <2>1 DEF ModelTypeOK, Sets
  <2>3. FlockExcludes'
    BY <1>0, <2>1, ModelIsTyped, RestIsWork DEF ModelFacts, FlockExcludes, HoldsFlock, Sets, Background
  <2>4. OneItemWasCleared'
    BY <1>0, <2>1, ModelIsTyped, RestIsWork
       DEF ModelFacts, FlockExcludes, OneItemWasCleared, HoldsFlock, Active, Sets, Background
  <2>5. JobsAreHeld'
    BY <1>0, <2>1, ModelIsTyped, RestIsWork
       DEF ModelFacts, JobsAreHeld, BeforeWrite, HoldsFlock, Settled, Sets, Background
  <2>6. CheckedExactlyOnce'
    BY <1>0, <2>1, ModelIsTyped, RestIsWork
       DEF ModelFacts, JobsAreHeld, CheckedExactlyOnce, BeforeWrite, Settled
  <2> QED BY <2>2, <2>3, <2>4, <2>5, <2>6
<1>21. ASSUME NEW w \in Resynths, AckJob(w) PROVE ModelInv'
  <2>1. /\ UNCHANGED <<flock, marker, person, thesis, begun>>
        /\ Sets(w, worker'[w])
        /\ worker[w].pc = "acking"
        /\ (worker'[w] = Rest \/ (worker'[w].pc = "returning" /\ worker'[w].item = worker[w].item))
        /\ job' \in [Jobs -> JobRecords]
        /\ \A j \in Jobs : j # worker[w].item => job'[j] = job[j]
        /\ \A j \in Jobs : (job'[j].lapsed <=> job[j].lapsed)
        /\ job' = job \/ (job[worker[w].item].holder = w /\ job[worker[w].item].state = "leased" /\ job'[worker[w].item].state = "done")
    <3> DEFINE j == worker[w].item
                done == [job EXCEPT ![j].state = "done", ![j].holder = Nobody]
    <3>1. j \in Jobs /\ worker[w].pc = "acking"
      BY <1>21 DEF JobsAreHeld, AckJob
    <3>2. job[j] \in JobRecords
      BY <3>1 DEF ModelTypeOK, JobRecords, ThesisRecords, PersonPlaces
    <3>3. /\ done \in [Jobs -> JobRecords]
          /\ \A i \in Jobs : i # j => done[i] = job[i]
          /\ \A i \in Jobs : (done[i].lapsed <=> job[i].lapsed)
          /\ done[j].state = "done"
      BY <3>1, <3>2 DEF ModelTypeOK, JobRecords, ThesisRecords, PersonPlaces
    <3>4. job' = job \/ (job' = done /\ job[j].state = "leased" /\ job[j].holder = w)
      BY <1>21 DEF AckJob
    <3>5. \/ worker' = [worker EXCEPT ![w] = Rest]
          \/ Step(w, "returning")
      BY <1>21 DEF AckJob
    <3>6. /\ Sets(w, worker'[w])
          /\ worker'[w] = Rest \/ (worker'[w].pc = "returning" /\ worker'[w].item = worker[w].item)
      BY <1>0, <3>5, StepMoves, WorkerIsSet, RestIsWork DEF Sets, Places
    <3>7. UNCHANGED <<flock, marker, person, thesis, begun>>
      BY <1>21 DEF AckJob
    <3> HIDE DEF done
    <3>8. /\ job' \in [Jobs -> JobRecords]
          /\ \A i \in Jobs : i # j => job'[i] = job[i]
          /\ \A i \in Jobs : (job'[i].lapsed <=> job[i].lapsed)
      BY <3>3, <3>4 DEF ModelTypeOK, JobRecords, ThesisRecords, PersonPlaces
    <3>9. job' = job \/ (job[j].holder = w /\ job[j].state = "leased" /\ job'[j].state = "done")
      BY <3>3, <3>4
    <3> QED
      BY <3>1, <3>6, <3>7, <3>8, <3>9
  <2>2. ModelTypeOK'
    BY <1>0, <2>1 DEF ModelTypeOK, Sets
  <2>3. FlockExcludes'
    BY <1>0, <2>1, ModelIsTyped, RestIsWork DEF ModelFacts, FlockExcludes, HoldsFlock, Sets, Background
  <2>4. OneItemWasCleared'
    BY <1>0, <2>1, ModelIsTyped, RestIsWork
       DEF ModelFacts, FlockExcludes, OneItemWasCleared, HoldsFlock, Active, Sets, Background
  <2>5. JobsAreHeld'
    BY <1>0, <2>1, ModelIsTyped, RestIsWork
       DEF ModelFacts, JobsAreHeld, BeforeWrite, HoldsFlock, Settled, Sets, Background
  <2>6. CheckedExactlyOnce'
    BY <1>0, <2>1, ModelIsTyped, RestIsWork
       DEF ModelFacts, JobsAreHeld, CheckedExactlyOnce, BeforeWrite, Settled
  <2> QED BY <2>2, <2>3, <2>4, <2>5, <2>6
<1>22. ASSUME NEW w \in Resynths, ReturnJob(w) PROVE ModelInv'
  <2>1. /\ UNCHANGED <<flock, marker, person, thesis, begun>>
        /\ Sets(w, worker'[w])
        /\ worker[w].pc = "returning" /\ worker'[w] = Rest
        /\ job' \in [Jobs -> JobRecords]
        /\ \A j \in Jobs : j # worker[w].item => job'[j] = job[j]
        /\ \A j \in Jobs : (job'[j].lapsed <=> job[j].lapsed)
        /\ job' = job \/ (job[worker[w].item].holder = w /\ job[worker[w].item].state = "leased" /\ job'[worker[w].item].state = "queued")
    <3> DEFINE j == worker[w].item
                done == [job EXCEPT ![j].state = "queued", ![j].holder = Nobody]
    <3>1. j \in Jobs /\ worker[w].pc = "returning"
      BY <1>22 DEF JobsAreHeld, ReturnJob
    <3>2. job[j] \in JobRecords
      BY <3>1 DEF ModelTypeOK, JobRecords, ThesisRecords, PersonPlaces
    <3>3. /\ done \in [Jobs -> JobRecords]
          /\ \A i \in Jobs : i # j => done[i] = job[i]
          /\ \A i \in Jobs : (done[i].lapsed <=> job[i].lapsed)
          /\ done[j].state = "queued"
      BY <3>1, <3>2 DEF ModelTypeOK, JobRecords, ThesisRecords, PersonPlaces
    <3>4. job' = job \/ (job' = done /\ job[j].state = "leased" /\ job[j].holder = w)
      BY <1>22 DEF ReturnJob
    <3>6. Sets(w, worker'[w]) /\ worker'[w] = Rest
      BY <1>0, <1>22, WorkerIsSet, RestIsWork DEF Sets, ReturnJob
    <3>7. UNCHANGED <<flock, marker, person, thesis, begun>>
      BY <1>22 DEF ReturnJob
    <3> HIDE DEF done
    <3>8. /\ job' \in [Jobs -> JobRecords]
          /\ \A i \in Jobs : i # j => job'[i] = job[i]
          /\ \A i \in Jobs : (job'[i].lapsed <=> job[i].lapsed)
      BY <3>3, <3>4 DEF ModelTypeOK, JobRecords, ThesisRecords, PersonPlaces
    <3>9. job' = job \/ (job[j].holder = w /\ job[j].state = "leased" /\ job'[j].state = "queued")
      BY <3>3, <3>4
    <3> QED
      BY <3>1, <3>6, <3>7, <3>8, <3>9
  <2>2. ModelTypeOK'
    BY <1>0, <2>1 DEF ModelTypeOK, Sets
  <2>3. FlockExcludes'
    BY <1>0, <2>1, ModelIsTyped, RestIsWork DEF ModelFacts, FlockExcludes, HoldsFlock, Sets, Background
  <2>4. OneItemWasCleared'
    BY <1>0, <2>1, ModelIsTyped, RestIsWork
       DEF ModelFacts, FlockExcludes, OneItemWasCleared, HoldsFlock, Active, Sets, Background
  <2>5. JobsAreHeld'
    BY <1>0, <2>1, ModelIsTyped, RestIsWork
       DEF ModelFacts, JobsAreHeld, BeforeWrite, HoldsFlock, Settled, Sets, Background
  <2>6. CheckedExactlyOnce'
    BY <1>0, <2>1, ModelIsTyped, RestIsWork
       DEF ModelFacts, JobsAreHeld, CheckedExactlyOnce, BeforeWrite, Settled
  <2> QED BY <2>2, <2>3, <2>4, <2>5, <2>6
<1>23. ASSUME NEW w \in Resynths, NEW j \in Jobs, LeaseJob(w, j) PROVE ModelInv'
  <2>1. /\ UNCHANGED <<flock, marker, person, thesis>>
        /\ Sets(w, worker'[w])
        /\ worker[w].pc = "idle" /\ worker'[w].pc = "reading" /\ worker'[w].item = j
        /\ begun' \in [items : Nat, passes : Nat] /\ begun'.items = begun.items
        /\ job' \in [Jobs -> JobRecords]
        /\ \A i \in Jobs : i # j => job'[i] = job[i]
        /\ job[j].state = "queued" /\ job'[j].state = "leased" /\ job'[j].holder = w
        /\ (job'[j].lapsed <=> job[j].lapsed)
    <3> DEFINE new == [Rest EXCEPT !.pc = "reading", !.item = j]
    <3>1. new \in Work /\ new.pc = "reading" /\ new.item = j
      BY RestIsWork DEF Work, Places
    <3>2. worker' = [worker EXCEPT ![w] = new]
      BY <1>23 DEF LeaseJob
    <3> HIDE DEF new
    <3>3. Sets(w, new)
      BY <1>0, <3>1, <3>2, WorkerIsSet
    <3>4. job[j] \in JobRecords
      BY DEF ModelTypeOK, JobRecords, ThesisRecords, PersonPlaces
    <3>5. /\ job' \in [Jobs -> JobRecords]
          /\ \A i \in Jobs : i # j => job'[i] = job[i]
          /\ job'[j].state = "leased" /\ job'[j].holder = w /\ (job'[j].lapsed <=> job[j].lapsed)
      BY <1>0, <1>23, <3>4 DEF ModelTypeOK, JobRecords, ThesisRecords, PersonPlaces, LeaseJob
    <3>6. begun' \in [items : Nat, passes : Nat] /\ begun'.items = begun.items
      BY <1>23 DEF ModelTypeOK, JobRecords, ThesisRecords, PersonPlaces, LeaseJob
    <3> QED
      BY <1>23, <3>1, <3>3, <3>5, <3>6 DEF Sets, LeaseJob
  <2>2. ModelTypeOK'
    BY <1>0, <2>1 DEF ModelTypeOK, Sets
  <2>3. FlockExcludes'
    BY <1>0, <2>1, ModelIsTyped, RestIsWork DEF ModelFacts, FlockExcludes, HoldsFlock, Sets, Background
  <2>4. OneItemWasCleared'
    BY <1>0, <2>1, ModelIsTyped, RestIsWork
       DEF ModelFacts, FlockExcludes, OneItemWasCleared, HoldsFlock, Active, Sets, Background
  <2>5. JobsAreHeld'
    BY <1>0, <2>1, ModelIsTyped, RestIsWork
       DEF ModelFacts, JobsAreHeld, BeforeWrite, HoldsFlock, Settled, Sets, Background
  <2>6. CheckedExactlyOnce'
    BY <1>0, <2>1, ModelIsTyped, RestIsWork
       DEF ModelFacts, JobsAreHeld, CheckedExactlyOnce, BeforeWrite, Settled
  <2> QED BY <2>2, <2>3, <2>4, <2>5, <2>6
<1>24. ASSUME NEW j \in Jobs, JobLapses(j) PROVE ModelInv'
  <2>1. /\ UNCHANGED <<flock, marker, person, worker, thesis, begun>>
        /\ job' \in [Jobs -> JobRecords]
        /\ \A i \in Jobs : i # j => job'[i] = job[i]
        /\ job[j].state = "leased" /\ job'[j].state = "queued"
        /\ job[j].lapsed => job'[j].lapsed
        /\ worker[job[j].holder].item = j => job'[j].lapsed
    <3> DEFINE late == job[j].lapsed \/ worker[job[j].holder].item = j
               new == [job[j] EXCEPT !.state = "queued", !.holder = Nobody, !.lapsed = late]
    <3>1. late \in BOOLEAN
      BY DEF ModelTypeOK, JobRecords, ThesisRecords, PersonPlaces
    <3>2. (job[j].lapsed => late) /\ (worker[job[j].holder].item = j => late)
      OBVIOUS
    <3>3. job' = [job EXCEPT ![j] = new]
      BY <1>24 DEF JobLapses, ModelTypeOK, JobRecords, ThesisRecords, PersonPlaces
    <3> HIDE DEF late
    <3>4. job[j] \in JobRecords
      BY DEF ModelTypeOK, JobRecords, ThesisRecords, PersonPlaces
    <3>5. /\ new \in JobRecords
          /\ new.state = "queued" /\ new.lapsed = late
      BY <3>1, <3>4, JobIsSet DEF JobRecords
    <3> HIDE DEF new
    <3>6. /\ job' \in [Jobs -> JobRecords]
          /\ job'[j] = new /\ \A i \in Jobs : i # j => job'[i] = job[i]
      BY <3>3, <3>5 DEF ModelTypeOK, JobRecords, ThesisRecords, PersonPlaces
    <3>7. UNCHANGED <<flock, marker, person, worker, thesis, begun>> /\ job[j].state = "leased"
      BY <1>24 DEF JobLapses
    <3> QED
      BY <3>2, <3>5, <3>6, <3>7
  <2>2. ModelTypeOK'
    BY <1>0, <2>1 DEF ModelTypeOK, Sets
  <2>3. FlockExcludes'
    BY <1>0, <2>1, ModelIsTyped DEF ModelFacts, FlockExcludes, HoldsFlock, Sets, Background
  <2>4. OneItemWasCleared'
    BY <1>0, <2>1, ModelIsTyped
       DEF ModelFacts, FlockExcludes, OneItemWasCleared, HoldsFlock, Active, Sets, Background
  <2>5. JobsAreHeld'
    BY <1>0, <2>1, ModelIsTyped
       DEF ModelFacts, JobsAreHeld, BeforeWrite, HoldsFlock, Settled, Sets, Background
  <2>6. CheckedExactlyOnce'
    BY <1>0, <2>1, ModelIsTyped DEF ModelFacts, JobsAreHeld, CheckedExactlyOnce, BeforeWrite, Settled
  <2> QED BY <2>2, <2>3, <2>4, <2>5, <2>6
<1>25. ASSUME NEW j \in Jobs, CloseThesis(j) PROVE ModelInv'
  <2>1. /\ UNCHANGED <<flock, marker, person, worker, job, begun>>
        /\ thesis' \in [Jobs -> ThesisRecords]
        /\ \A i \in Jobs : thesis'[i].checks = thesis[i].checks
        /\ \A i \in Jobs : thesis[i].active = FALSE => thesis'[i].active = FALSE
    BY ZenonT(30), <1>0, <1>25 DEF ModelTypeOK, JobRecords, ThesisRecords, PersonPlaces, CloseThesis
  <2>2. ModelTypeOK'
    BY <1>0, <2>1 DEF ModelTypeOK, Sets
  <2>3. FlockExcludes'
    BY <1>0, <2>1, ModelIsTyped DEF ModelFacts, FlockExcludes, HoldsFlock, Sets, Background
  <2>4. OneItemWasCleared'
    BY <1>0, <2>1, ModelIsTyped
       DEF ModelFacts, FlockExcludes, OneItemWasCleared, HoldsFlock, Active, Sets, Background
  <2>5. JobsAreHeld'
    BY <1>0, <2>1, ModelIsTyped
       DEF ModelFacts, JobsAreHeld, BeforeWrite, HoldsFlock, Settled, Sets, Background
  <2>6. CheckedExactlyOnce'
    BY <1>0, <2>1, ModelIsTyped DEF ModelFacts, JobsAreHeld, CheckedExactlyOnce, BeforeWrite, Settled
  <2> QED BY <2>2, <2>3, <2>4, <2>5, <2>6
<1>26. CASE UNCHANGED modelVars
  BY <1>26
     DEF modelVars, ModelTypeOK, JobRecords, ThesisRecords, PersonPlaces, FlockExcludes,
         OneItemWasCleared, JobsAreHeld, CheckedExactlyOnce, Active, Settled
<1> QED
  BY <1>1, <1>2, <1>3, <1>4, <1>5, <1>6, <1>7, <1>8, <1>9, <1>10, <1>11, <1>12, <1>13, <1>14, <1>15,
     <1>16, <1>17, <1>18, <1>19, <1>20, <1>21, <1>22, <1>23, <1>24, <1>25, <1>26
     DEF ModelNext

\* The model lease's invariant holds in every behaviour.
LEMMA ModelIsInvariant == ModelSpec => []ModelInv
<1>1. ModelInit => ModelInv
  <2> SUFFICES ASSUME ModelInit PROVE ModelInv
    OBVIOUS
  <2>1. ModelTypeOK
    BY RestIsWork DEF ModelInit, ModelTypeOK, JobRecords, ThesisRecords, PersonPlaces
  <2>2. FlockExcludes /\ OneItemWasCleared /\ CheckedExactlyOnce
    BY RestIsWork
       DEF ModelInit, FlockExcludes, HoldsFlock, OneItemWasCleared, Active, CheckedExactlyOnce
  <2>3. JobsAreHeld
    BY RestIsWork DEF ModelInit, JobsAreHeld, BeforeWrite, HoldsFlock, Background
  <2> QED BY <2>1, <2>2, <2>3 DEF ModelInv
<1> QED
  BY <1>1, ModelStep, PTL DEF ModelSpec

\* While a person's request is waiting or at work, the background starts at most the one item that
\* was past its checks when the request announced itself (lease.py:acquire_background, check).
THEOREM BackgroundYields == ModelSpec => []YieldsToPeople
<1>1. ModelInv => YieldsToPeople
  BY DEF ModelInv, OneItemWasCleared, YieldsToPeople
<1> QED
  BY <1>1, ModelIsInvariant, PTL

\* A stale thesis is checked exactly once: a job that is done is on its thesis, and a second check is
\* written only by a worker whose lease had lapsed under it (thesis_resynth.py:_already_applied).
THEOREM ThesisIsCheckedOnce == ModelSpec => []CheckedExactlyOnce
<1>1. ModelInv => CheckedExactlyOnce
  BY DEF ModelInv
<1> QED
  BY <1>1, ModelIsInvariant, PTL

-----------------------------------------------------------------------------
(***************************************************************************)
(* The event corpus: what a pass has stored is on its way into an event,   *)
(* and the release's document is never swept.                              *)
(***************************************************************************)
Flags == BOOLEAN
Stages == {"idle", "asking", "calling", "storing", "reading", "writing", "selecting", "clustering", "blocked",
           "sweeping", "done"}
Captures == {"none", "early", "late"}
Releases == [expected : Flags, actual : Flags]
Rows == [exists : Flags, captured : Captures, actual : Flags, linked : Flags]
CorpusPasses == [pc : Stages, late : Flags, calls : Nat, got : SUBSET Docs, release : Releases, copy : Rows,
                 todo : SUBSET Docs, made : SUBSET (Docs \X Docs), mine : SUBSET Docs, degraded : Flags]

CorpusTypeOK ==
    /\ doc \in [Docs -> {"absent", "stored", "swept"}]
    /\ link \subseteq Docs \X Docs
    /\ macro \in Rows /\ released \in Flags /\ torn \in BOOLEAN
    /\ ingest \in [Ingests -> CorpusPasses]

\* What a pass has stored is stored, or in an event; once it has chosen what to cluster, it is chosen or in one.
StoredIsClustered ==
    \A i \in Ingests :
        /\ \A d \in ingest[i].mine : doc[d] = "stored" \/ d \in DocsIn(link)
        /\ ingest[i].pc \in {"clustering", "blocked"} =>
               ingest[i].mine \subseteq ingest[i].todo \cup DocsIn(ingest[i].made) \cup DocsIn(link)
        /\ ingest[i].pc \in {"sweeping", "done"} => ingest[i].degraded \/ ingest[i].mine \subseteq DocsIn(link)
        /\ ingest[i].pc \notin {"clustering", "blocked"} => ingest[i].made = {}

\* The release's document stays once it is being clustered.
ReleaseStays ==
    /\ MacroDoc \in DocsIn(link) => doc[MacroDoc] = "stored"
    /\ \A i \in Ingests : MacroDoc \in ingest[i].todo \cup DocsIn(ingest[i].made) => doc[MacroDoc] = "stored"

CorpusInv == CorpusTypeOK /\ StoredIsClustered /\ ReleaseStays /\ ClusteringIsComplete

\* What a pass is, field by field.
LEMMA PassIsTyped ==
    ASSUME CorpusTypeOK, NEW i \in Ingests
    PROVE  /\ ingest[i] \in CorpusPasses /\ ingest[i].pc \in Stages
           /\ ingest[i].todo \subseteq Docs /\ ingest[i].mine \subseteq Docs
           /\ ingest[i].got \subseteq Docs
           /\ ingest[i].made \subseteq Docs \X Docs
BY DEF CorpusTypeOK, CorpusPasses

\* One pass gets new local variables, the others keep theirs.
PassIs(i, new) ==
    /\ ingest' \in [Ingests -> CorpusPasses] /\ ingest'[i] = new
    /\ \A j \in Ingests : j # i => ingest'[j] = ingest[j]

\* An assignment to a pass's local variables.
LEMMA PassIsSet ==
    ASSUME CorpusTypeOK, NEW i \in Ingests, NEW new \in CorpusPasses, ingest' = [ingest EXCEPT ![i] = new]
    PROVE  PassIs(i, new)
BY DEF CorpusTypeOK, PassIs

\* A pass that is asleep.
LEMMA AsleepIsPass ==
    /\ Asleep \in CorpusPasses /\ NoRow \in Rows /\ NoRelease \in Releases
    /\ Asleep.pc = "idle" /\ Asleep.mine = {} /\ Asleep.todo = {} /\ Asleep.made = {}
<1>1. FALSE \in Flags /\ "none" \in Captures /\ "idle" \in Stages /\ 0 \in Nat /\ Nothing = {}
  BY DEF Flags, Captures, Stages, Nothing
<1>2. NoRow \in Rows /\ NoRelease \in Releases
  BY <1>1 DEF NoRow, NoRelease, Rows, Releases
<1> QED
  BY <1>1, <1>2 DEF Asleep, CorpusPasses

\* A document that is put into an event is in one, beside the others.
LEMMA DocIsIn == ASSUME NEW links, NEW e, NEW d PROVE DocsIn(links \cup {<<e, d>>}) = DocsIn(links) \cup {d}
<1> DEFINE more == links \cup {<<e, d>>}
<1>1. ASSUME NEW x \in DocsIn(more) PROVE x \in DocsIn(links) \cup {d}
  <2>1. PICK pair \in more : x = pair[2]
    BY DEF DocsIn
  <2>2. pair = <<e, d>> => pair[2] = d
    OBVIOUS
  <2> QED BY <2>1, <2>2 DEF DocsIn
<1>2. ASSUME NEW x \in DocsIn(links) \cup {d} PROVE x \in DocsIn(more)
  <2>1. <<e, d>> \in more /\ <<e, d>>[2] = d
    OBVIOUS
  <2> QED BY <2>1 DEF DocsIn
<1> QED BY <1>1, <1>2

\* The earliest document of a set is one of them.
LEMMA MinIsMember == ASSUME NEW S \in SUBSET Nat, S # {} PROVE Min(S) \in S
<1>1. \E x \in S : \A y \in S : ~ (<<y, x>> \in OpToRel(<, Nat))
  BY NatLessThanWellFounded, WFMin
<1>2. PICK x \in S : \A y \in S : ~ (<<y, x>> \in OpToRel(<, Nat))
  BY <1>1
<1>3. ASSUME NEW y \in S PROVE x <= y
  <2>1. x \in Nat /\ y \in Nat /\ <<y, x>> \in Nat \X Nat
    OBVIOUS
  <2>2. ~ (y < x)
    BY <1>2, <2>1 DEF OpToRel
  <2> QED BY <2>1, <2>2
<1> QED
  BY <1>3 DEF Min

\* Every step keeps the invariant.
LEMMA CorpusStep == CorpusInv /\ [CorpusNext]_corpusVars => CorpusInv'
<1> SUFFICES ASSUME CorpusInv, [CorpusNext]_corpusVars PROVE CorpusInv'
  OBVIOUS
<1> USE CorpusAssumption DEF CorpusInv
<1>0. MacroDoc \in Docs
  BY DEF Docs
<1>1. CASE ReleaseComes
  <2>1. /\ UNCHANGED <<doc, link, macro, ingest, torn>>
        /\ released' \in Flags
    BY <1>1 DEF ReleaseComes, Flags
  <2>2. CorpusTypeOK'
    BY <2>1 DEF CorpusTypeOK, PassIs
  <2>3. StoredIsClustered'
    BY <2>1 DEF StoredIsClustered, PassIs
  <2>4. ReleaseStays'
    BY <1>0, <2>1 DEF ReleaseStays, PassIs, DocsIn
  <2>5. ClusteringIsComplete'
    BY <2>1 DEF ClusteringIsComplete, StoredIsClustered, ReleaseStays, PassIs, In, Coming
  <2> QED BY <2>2, <2>3, <2>4, <2>5
<1>2. CASE BlockEnds
  <2>1. UNCHANGED <<doc, link, macro, ingest, torn, released>>
    BY <1>2 DEF BlockEnds
  <2>2. CorpusTypeOK'
    BY <2>1 DEF CorpusTypeOK, PassIs
  <2>3. StoredIsClustered'
    BY <2>1 DEF StoredIsClustered, PassIs
  <2>4. ReleaseStays'
    BY <1>0, <2>1 DEF ReleaseStays, PassIs, DocsIn
  <2>5. ClusteringIsComplete'
    BY <2>1 DEF ClusteringIsComplete, StoredIsClustered, ReleaseStays, PassIs, In, Coming
  <2> QED BY <2>2, <2>3, <2>4, <2>5
<1>3. ASSUME NEW i \in Ingests, BeginIngest(i) PROVE CorpusInv'
  <2>1. /\ UNCHANGED <<doc, link, macro, torn, released>> /\ PassIs(i, ingest'[i])
        /\ ingest[i].pc = "idle" /\ ingest'[i].pc = "asking"
        /\ ingest'[i].mine = {} /\ ingest'[i].todo = {} /\ ingest'[i].made = {}
    <3> DEFINE new == [Asleep EXCEPT !.pc = "asking", !.late = released]
    <3>1. /\ new \in CorpusPasses
          /\ new.pc = "asking" /\ new.mine = {} /\ new.todo = {} /\ new.made = {}
      BY <1>3, PassIsTyped, AsleepIsPass DEF BeginIngest, CorpusPasses, Stages, CorpusTypeOK
    <3>2. ingest' = [ingest EXCEPT ![i] = new]
      BY <1>3 DEF BeginIngest, CorpusTypeOK
    <3> HIDE DEF new
    <3>3. PassIs(i, new)
      BY <3>1, <3>2, PassIsSet
    <3> QED
      BY <1>3, <3>1, <3>3 DEF PassIs, BeginIngest, In
  <2>2. CorpusTypeOK'
    BY <2>1 DEF CorpusTypeOK, PassIs
  <2>3. StoredIsClustered'
    BY <2>1, AsleepIsPass, PassIsTyped DEF StoredIsClustered, PassIs
  <2>4. ReleaseStays'
    BY <1>0, <2>1, AsleepIsPass, PassIsTyped DEF ReleaseStays, PassIs, DocsIn
  <2>5. ClusteringIsComplete'
    BY <2>1, AsleepIsPass DEF ClusteringIsComplete, StoredIsClustered, ReleaseStays, PassIs, In, Coming
  <2> QED BY <2>2, <2>3, <2>4, <2>5
<1>4. ASSUME NEW i \in Ingests, Reserve(i) PROVE CorpusInv'
  <2>1. /\ UNCHANGED <<doc, link, macro, torn, released>> /\ PassIs(i, ingest'[i])
        /\ ingest[i].pc = "asking" /\ ingest'[i].pc \in {"selecting", "calling"}
        /\ ingest'[i].mine = ingest[i].mine /\ ingest'[i].todo = ingest[i].todo
        /\ ingest'[i].made = ingest[i].made /\ ingest'[i].degraded = ingest[i].degraded
    <3>1. CASE ingest' = [ingest EXCEPT ![i].pc = "selecting"]
      <4> DEFINE new == [ingest[i] EXCEPT !.pc = "selecting"]
      <4>1. /\ new \in CorpusPasses
            /\ new.pc = "selecting"
                  /\ new.mine = ingest[i].mine /\ new.todo = ingest[i].todo
                  /\ new.made = ingest[i].made /\ new.degraded = ingest[i].degraded
        BY <1>4, <3>1, PassIsTyped DEF Reserve, CorpusPasses, Stages
      <4>2. ingest' = [ingest EXCEPT ![i] = new]
        BY <1>4, <3>1 DEF Reserve, CorpusTypeOK
      <4> HIDE DEF new
      <4>3. PassIs(i, new)
        BY <4>1, <4>2, PassIsSet
      <4> QED
        BY <1>4, <3>1, <4>1, <4>3 DEF PassIs, Reserve, In
    <3>2. CASE ingest' = [ingest EXCEPT ![i].pc = "calling", ![i].calls = @ + 1]
      <4>0. ingest[i].calls + 1 \in Nat
        BY DEF CorpusTypeOK, CorpusPasses
      <4> DEFINE new == [ingest[i] EXCEPT !.pc = "calling", !.calls = @ + 1]
      <4>1. /\ new \in CorpusPasses
            /\ new.pc = "calling"
                  /\ new.mine = ingest[i].mine /\ new.todo = ingest[i].todo
                  /\ new.made = ingest[i].made /\ new.degraded = ingest[i].degraded
        BY ZenonT(30), <1>4, <3>2, <4>0, PassIsTyped DEF Reserve, CorpusPasses, Stages
      <4>2. ingest' = [ingest EXCEPT ![i] = new]
        BY <1>4, <3>2, <4>0 DEF Reserve, CorpusTypeOK
      <4> HIDE DEF new
      <4>3. PassIs(i, new)
        BY <4>1, <4>2, PassIsSet
      <4> QED
        BY <1>4, <3>2, <4>0, <4>1, <4>3 DEF PassIs, Reserve, In
    <3> QED
      BY <1>4, <3>1, <3>2 DEF Reserve
  <2>2. CorpusTypeOK'
    BY <2>1 DEF CorpusTypeOK, PassIs
  <2>3. StoredIsClustered'
    BY <2>1, AsleepIsPass, PassIsTyped DEF StoredIsClustered, PassIs
  <2>4. ReleaseStays'
    BY <1>0, <2>1, AsleepIsPass, PassIsTyped DEF ReleaseStays, PassIs, DocsIn
  <2>5. ClusteringIsComplete'
    BY <2>1, AsleepIsPass DEF ClusteringIsComplete, StoredIsClustered, ReleaseStays, PassIs, In, Coming
  <2> QED BY <2>2, <2>3, <2>4, <2>5
<1>5. ASSUME NEW i \in Ingests, Call(i) PROVE CorpusInv'
  <2>1. /\ UNCHANGED <<doc, link, macro, torn, released>> /\ PassIs(i, ingest'[i])
        /\ ingest[i].pc = "calling" /\ ingest'[i].pc \in {"storing", "asking"}
        /\ ingest'[i].mine = ingest[i].mine /\ ingest'[i].todo = ingest[i].todo
        /\ ingest'[i].made = ingest[i].made /\ ingest'[i].degraded = ingest[i].degraded
    <3>1. ASSUME NEW got \in SUBSET Docs, NEW release \in [expected : BOOLEAN, actual : BOOLEAN],
                 ingest' = [ingest EXCEPT ![i].pc = "storing", ![i].got = got, ![i].release = release]
          PROVE  /\ PassIs(i, ingest'[i]) /\ ingest'[i].pc = "storing"
                 /\ ingest'[i].mine = ingest[i].mine /\ ingest'[i].todo = ingest[i].todo
                 /\ ingest'[i].made = ingest[i].made /\ ingest'[i].degraded = ingest[i].degraded
      <4> DEFINE new == [ingest[i] EXCEPT !.pc = "storing", !.got = got, !.release = release]
      <4>1. /\ new \in CorpusPasses
            /\ new.pc = "storing"
                  /\ new.mine = ingest[i].mine /\ new.todo = ingest[i].todo
                  /\ new.made = ingest[i].made /\ new.degraded = ingest[i].degraded
        BY ZenonT(30), <3>1, PassIsTyped DEF Call, CorpusPasses, Stages, Releases, Flags
      <4>2. ingest' = [ingest EXCEPT ![i] = new]
        BY <3>1 DEF Call, CorpusTypeOK
      <4> HIDE DEF new
      <4>3. PassIs(i, new)
        BY <4>1, <4>2, PassIsSet
      <4> QED
        BY <3>1, <4>1, <4>3 DEF PassIs, Call, In
    <3>2. ASSUME ingest' = [ingest EXCEPT ![i].pc = "asking"]
          PROVE  /\ PassIs(i, ingest'[i]) /\ ingest'[i].pc = "asking"
                 /\ ingest'[i].mine = ingest[i].mine /\ ingest'[i].todo = ingest[i].todo
                 /\ ingest'[i].made = ingest[i].made /\ ingest'[i].degraded = ingest[i].degraded
      <4> DEFINE new == [ingest[i] EXCEPT !.pc = "asking"]
      <4>1. /\ new \in CorpusPasses
            /\ new.pc = "asking"
                  /\ new.mine = ingest[i].mine /\ new.todo = ingest[i].todo
                  /\ new.made = ingest[i].made /\ new.degraded = ingest[i].degraded
        BY <3>2, PassIsTyped DEF Call, CorpusPasses, Stages
      <4>2. ingest' = [ingest EXCEPT ![i] = new]
        BY <3>2 DEF Call, CorpusTypeOK
      <4> HIDE DEF new
      <4>3. PassIs(i, new)
        BY <4>1, <4>2, PassIsSet
      <4> QED
        BY <3>2, <4>1, <4>3 DEF PassIs, Call, In
    <3> QED
      BY <1>5, <3>1, <3>2 DEF Call, In
  <2>2. CorpusTypeOK'
    BY <2>1 DEF CorpusTypeOK, PassIs
  <2>3. StoredIsClustered'
    BY <2>1, AsleepIsPass, PassIsTyped DEF StoredIsClustered, PassIs
  <2>4. ReleaseStays'
    BY <1>0, <2>1, AsleepIsPass, PassIsTyped DEF ReleaseStays, PassIs, DocsIn
  <2>5. ClusteringIsComplete'
    BY <2>1, AsleepIsPass DEF ClusteringIsComplete, StoredIsClustered, ReleaseStays, PassIs, In, Coming
  <2> QED BY <2>2, <2>3, <2>4, <2>5
<1>6. ASSUME NEW i \in Ingests, StoreDocuments(i) PROVE CorpusInv'
  <2>1. /\ UNCHANGED <<link, macro, torn, released>> /\ PassIs(i, ingest'[i])
        /\ ingest[i].pc = "storing" /\ ingest'[i].pc \in {"asking", "reading"}
        /\ doc' \in [Docs -> {"absent", "stored", "swept"}]
        /\ \A d \in Docs : doc[d] # "absent" => doc'[d] = doc[d]
        /\ \A d \in ingest'[i].mine : d \in ingest[i].mine \/ doc'[d] = "stored"
        /\ ingest'[i].todo = ingest[i].todo /\ ingest'[i].made = ingest[i].made
    <3> DEFINE fresh == {d \in ingest[i].got : doc[d] = "absent"}
               next == IF ingest[i].release = NoRelease THEN "asking" ELSE "reading"
    <3>0. fresh \subseteq Docs /\ next \in {"asking", "reading"}
      BY PassIsTyped
    <3>a. ingest' = [ingest EXCEPT ![i].mine = @ \cup fresh, ![i].got = Nothing, ![i].pc = next]
      BY <1>6 DEF StoreDocuments
    <3>b. /\ UNCHANGED <<link, macro, torn, released>> /\ ingest[i].pc = "storing"
          /\ doc' \in [Docs -> {"absent", "stored", "swept"}]
          /\ \A d \in Docs : doc[d] # "absent" => doc'[d] = doc[d]
          /\ \A d \in fresh : doc'[d] = "stored"
      BY <1>6, PassIsTyped DEF StoreDocuments, In, CorpusTypeOK
    <3> HIDE DEF fresh, next
    <3> DEFINE new == [ingest[i] EXCEPT !.mine = @ \cup fresh, !.got = Nothing, !.pc = next]
    <3>1. /\ new \in CorpusPasses
          /\ new.pc = next /\ new.mine = ingest[i].mine \cup fresh
              /\ new.todo = ingest[i].todo /\ new.made = ingest[i].made
      BY ZenonT(30), <3>0, <3>a, <3>b, PassIsTyped DEF Nothing, CorpusPasses, Stages
    <3>2. ingest' = [ingest EXCEPT ![i] = new]
      BY <3>0, <3>a, <3>b DEF Nothing, CorpusTypeOK
    <3> HIDE DEF new
    <3>3. PassIs(i, new)
      BY <3>1, <3>2, PassIsSet
    <3> QED
      BY <3>0, <3>a, <3>b, <3>1, <3>3 DEF PassIs, Nothing, In
  <2>2. CorpusTypeOK'
    BY <2>1 DEF CorpusTypeOK, PassIs
  <2>3. StoredIsClustered'
    BY <2>1, AsleepIsPass, PassIsTyped DEF StoredIsClustered, PassIs
  <2>4. ReleaseStays'
    BY <1>0, <2>1, AsleepIsPass, PassIsTyped DEF ReleaseStays, PassIs, DocsIn
  <2>5. ClusteringIsComplete'
    BY <2>1, AsleepIsPass DEF ClusteringIsComplete, StoredIsClustered, ReleaseStays, PassIs, In, Coming
  <2> QED BY <2>2, <2>3, <2>4, <2>5
<1>7. ASSUME NEW i \in Ingests, ReadRelease(i) PROVE CorpusInv'
  <2>1. /\ UNCHANGED <<doc, link, macro, torn, released>> /\ PassIs(i, ingest'[i])
        /\ ingest[i].pc = "reading" /\ ingest'[i].pc = "writing"
        /\ ingest'[i].mine = ingest[i].mine /\ ingest'[i].todo = ingest[i].todo
        /\ ingest'[i].made = ingest[i].made /\ ingest'[i].degraded = ingest[i].degraded
    <3> DEFINE new == [ingest[i] EXCEPT !.pc = "writing", !.copy = macro]
    <3>1. /\ new \in CorpusPasses
          /\ new.pc = "writing"
              /\ new.mine = ingest[i].mine /\ new.todo = ingest[i].todo
              /\ new.made = ingest[i].made /\ new.degraded = ingest[i].degraded
      BY ZenonT(30), <1>7, PassIsTyped DEF ReadRelease, CorpusPasses, Stages, CorpusTypeOK
    <3>2. ingest' = [ingest EXCEPT ![i] = new]
      BY <1>7 DEF ReadRelease, CorpusTypeOK
    <3> HIDE DEF new
    <3>3. PassIs(i, new)
      BY <3>1, <3>2, PassIsSet
    <3> QED
      BY <1>7, <3>1, <3>3 DEF PassIs, ReadRelease, In
  <2>2. CorpusTypeOK'
    BY <2>1 DEF CorpusTypeOK, PassIs
  <2>3. StoredIsClustered'
    BY <2>1, AsleepIsPass, PassIsTyped DEF StoredIsClustered, PassIs
  <2>4. ReleaseStays'
    BY <1>0, <2>1, AsleepIsPass, PassIsTyped DEF ReleaseStays, PassIs, DocsIn
  <2>5. ClusteringIsComplete'
    BY <2>1, AsleepIsPass DEF ClusteringIsComplete, StoredIsClustered, ReleaseStays, PassIs, In, Coming
  <2> QED BY <2>2, <2>3, <2>4, <2>5
<1>8. ASSUME NEW i \in Ingests, WriteRelease(i) PROVE CorpusInv'
  <2>1. /\ UNCHANGED <<doc, link, torn, released>> /\ PassIs(i, ingest'[i]) /\ macro' \in Rows
        /\ ingest[i].pc = "writing" /\ ingest'[i].pc = "asking"
        /\ ingest'[i].mine = ingest[i].mine /\ ingest'[i].todo = ingest[i].todo
        /\ ingest'[i].made = ingest[i].made /\ ingest'[i].degraded = ingest[i].degraded
    <3>0. macro' \in Rows
      <4>1. /\ ingest[i].copy \in Rows /\ ingest[i].release \in Releases /\ ingest[i].late \in Flags
        BY DEF CorpusTypeOK, CorpusPasses
      <4>2. Captured(ingest[i].copy, ingest[i].release, ingest[i].late) \in Captures
        BY <4>1 DEF Captured, Rows, Captures
      <4> DEFINE known == ingest[i].copy.actual \/ ingest[i].release.actual
      <4>3. known \in Flags /\ TRUE \in Flags /\ FALSE \in Flags
        BY DEF Flags
      <4>4. macro' = [exists |-> TRUE, linked |-> FALSE, actual |-> known,
                      captured |-> Captured(ingest[i].copy, ingest[i].release, ingest[i].late)]
        BY <1>8 DEF WriteRelease
      <4> HIDE DEF known
      <4> QED BY <4>2, <4>3, <4>4 DEF Rows
    <3> DEFINE new == [ingest[i] EXCEPT !.pc = "asking", !.copy = NoRow, !.release = NoRelease]
    <3>1. /\ new \in CorpusPasses
          /\ new.pc = "asking"
              /\ new.mine = ingest[i].mine /\ new.todo = ingest[i].todo
              /\ new.made = ingest[i].made /\ new.degraded = ingest[i].degraded
      BY <1>8, PassIsTyped, AsleepIsPass DEF WriteRelease, CorpusPasses, Stages
    <3>2. ingest' = [ingest EXCEPT ![i] = new]
      BY <1>8 DEF WriteRelease, CorpusTypeOK
    <3> HIDE DEF new
    <3>3. PassIs(i, new)
      BY <3>1, <3>2, PassIsSet
    <3> QED
      BY <1>8, <3>0, <3>1, <3>3 DEF PassIs, WriteRelease, In
  <2>2. CorpusTypeOK'
    BY <2>1 DEF CorpusTypeOK, PassIs
  <2>3. StoredIsClustered'
    BY <2>1, AsleepIsPass, PassIsTyped DEF StoredIsClustered, PassIs
  <2>4. ReleaseStays'
    BY <1>0, <2>1, AsleepIsPass, PassIsTyped DEF ReleaseStays, PassIs, DocsIn
  <2>5. ClusteringIsComplete'
    BY <2>1, AsleepIsPass DEF ClusteringIsComplete, StoredIsClustered, ReleaseStays, PassIs, In, Coming
  <2> QED BY <2>2, <2>3, <2>4, <2>5
<1>9. ASSUME NEW i \in Ingests, SelectDocuments(i) PROVE CorpusInv'
  <2>1. /\ UNCHANGED <<doc, link, macro, torn, released>> /\ PassIs(i, ingest'[i])
        /\ ingest[i].pc = "selecting" /\ ingest'[i].pc = "clustering"
        /\ ingest'[i].todo = {d \in Docs : doc[d] = "stored" /\ d \notin DocsIn(link)}
        /\ ingest'[i].mine = ingest[i].mine /\ ingest'[i].made = ingest[i].made
    <3> DEFINE new == [ingest[i] EXCEPT !.pc = "clustering", !.todo = Unlinked(i)]
    <3>1. /\ new \in CorpusPasses
          /\ new.pc = "clustering" /\ new.todo = Unlinked(i)
              /\ new.mine = ingest[i].mine /\ new.made = ingest[i].made
      BY <1>9, PassIsTyped DEF SelectDocuments, CorpusPasses, Stages, Unlinked
    <3>2. ingest' = [ingest EXCEPT ![i] = new]
      BY <1>9 DEF SelectDocuments, CorpusTypeOK, Unlinked
    <3> HIDE DEF new
    <3>3. PassIs(i, new)
      BY <3>1, <3>2, PassIsSet
    <3> QED
      BY <1>9, <3>1, <3>3 DEF PassIs, SelectDocuments, In, Unlinked
  <2>2. CorpusTypeOK'
    BY <2>1 DEF CorpusTypeOK, PassIs
  <2>3. StoredIsClustered'
    BY <2>1, AsleepIsPass, PassIsTyped DEF StoredIsClustered, PassIs
  <2>4. ReleaseStays'
    BY <1>0, <2>1, AsleepIsPass, PassIsTyped DEF ReleaseStays, PassIs, DocsIn
  <2>5. ClusteringIsComplete'
    BY <2>1, AsleepIsPass DEF ClusteringIsComplete, StoredIsClustered, ReleaseStays, PassIs, In, Coming
  <2> QED BY <2>2, <2>3, <2>4, <2>5
<1>10. ASSUME NEW i \in Ingests, ClusterDocument(i) PROVE CorpusInv'
  <2>1. /\ UNCHANGED <<doc, link, macro, torn, released>> /\ PassIs(i, ingest'[i])
        /\ ingest[i].pc = "clustering" /\ ingest'[i].pc \in {"clustering", "blocked"}
        /\ ingest'[i].todo \cup DocsIn(ingest'[i].made) = ingest[i].todo \cup DocsIn(ingest[i].made)
        /\ ingest'[i].mine = ingest[i].mine
    <3> DEFINE d == Min(ingest[i].todo)
               seen == EventsIn(link \cup ingest[i].made)
               event == IF seen = {} THEN d ELSE Min(seen)
    <3>0. d \in ingest[i].todo
      BY <1>10, PassIsTyped, MinIsMember DEF ClusterDocument, Docs, Nothing
    <3>a. \/ ingest' = [ingest EXCEPT ![i].pc = "blocked"]
          \/ ingest' = [ingest EXCEPT ![i].todo = @ \ {d}, ![i].made = @ \cup {<<event, d>>}]
      BY <1>10 DEF ClusterDocument
    <3>b. UNCHANGED <<doc, link, macro, torn, released>> /\ ingest[i].pc = "clustering"
      BY <1>10 DEF ClusterDocument, In
    <3>e. event \in Docs
      <4>1. seen \subseteq Docs
        BY PassIsTyped DEF CorpusTypeOK, EventsIn
      <4>2. seen # {} => Min(seen) \in seen
        BY <4>1, MinIsMember DEF Docs
      <4> QED BY <3>0, <4>1, <4>2, PassIsTyped
    <3> HIDE DEF d, event
    <3>c. CASE ingest' = [ingest EXCEPT ![i].pc = "blocked"]
      <4> DEFINE new == [ingest[i] EXCEPT !.pc = "blocked"]
      <4>1. /\ new \in CorpusPasses
            /\ new.pc = "blocked"
                  /\ new.mine = ingest[i].mine /\ new.todo = ingest[i].todo
                  /\ new.made = ingest[i].made /\ new.degraded = ingest[i].degraded
        BY <3>b, <3>c, PassIsTyped DEF Nothing, CorpusPasses, Stages
      <4>2. ingest' = [ingest EXCEPT ![i] = new]
        BY <3>b, <3>c DEF Nothing, CorpusTypeOK
      <4> HIDE DEF new
      <4>3. PassIs(i, new)
        BY <4>1, <4>2, PassIsSet
      <4> QED
        BY <3>b, <3>c, <4>1, <4>3 DEF PassIs, Nothing, In
    <3>d. CASE ingest' = [ingest EXCEPT ![i].todo = @ \ {d}, ![i].made = @ \cup {<<event, d>>}]
      <4> DEFINE made == ingest[i].made \cup {<<event, d>>}
      <4>0. ingest[i].todo \cup DocsIn(ingest[i].made) = (ingest[i].todo \ {d}) \cup DocsIn(made)
        <5>1. DocsIn(made) = DocsIn(ingest[i].made) \cup {d}
          BY DocIsIn
        <5> HIDE DEF made
        <5> QED BY <3>0, <5>1
      <4>9. made \subseteq Docs \X Docs
        BY <3>0, <3>e, PassIsTyped
      <4> HIDE DEF made
      <4> DEFINE new == [ingest[i] EXCEPT !.todo = @ \ {d}, !.made = made]
      <4>1. /\ new \in CorpusPasses
            /\ new.pc = ingest[i].pc /\ new.todo = ingest[i].todo \ {d}
                  /\ new.made = made /\ new.mine = ingest[i].mine
        BY <3>b, <3>d, <4>0, <4>9, PassIsTyped DEF Nothing, CorpusPasses, Stages
      <4>2. ingest' = [ingest EXCEPT ![i] = new]
        BY <3>b, <3>d, <4>0, <4>9 DEF Nothing, CorpusTypeOK, made
      <4> HIDE DEF new
      <4>3. PassIs(i, new)
        BY <4>1, <4>2, PassIsSet
      <4> QED
        BY <3>b, <3>d, <4>0, <4>9, <4>1, <4>3 DEF PassIs, Nothing, In, made
    <3> QED
      BY <3>a, <3>c, <3>d
  <2>2. CorpusTypeOK'
    BY <2>1 DEF CorpusTypeOK, PassIs
  <2>3. StoredIsClustered'
    BY <2>1, AsleepIsPass, PassIsTyped DEF StoredIsClustered, PassIs
  <2>4. ReleaseStays'
    BY <1>0, <2>1, AsleepIsPass, PassIsTyped DEF ReleaseStays, PassIs
  <2>5. ClusteringIsComplete'
    BY <2>1, AsleepIsPass DEF ClusteringIsComplete, StoredIsClustered, ReleaseStays, PassIs, In, Coming
  <2> QED BY <2>2, <2>3, <2>4, <2>5
<1>11. ASSUME NEW i \in Ingests, InsertResumes(i) PROVE CorpusInv'
  <2>1. /\ UNCHANGED <<doc, link, macro, torn, released>> /\ PassIs(i, ingest'[i])
        /\ ingest[i].pc = "blocked" /\ ingest'[i].pc = "clustering"
        /\ ingest'[i].mine = ingest[i].mine /\ ingest'[i].todo = ingest[i].todo
        /\ ingest'[i].made = ingest[i].made /\ ingest'[i].degraded = ingest[i].degraded
    <3> DEFINE new == [ingest[i] EXCEPT !.pc = "clustering"]
    <3>1. /\ new \in CorpusPasses
          /\ new.pc = "clustering"
              /\ new.mine = ingest[i].mine /\ new.todo = ingest[i].todo
              /\ new.made = ingest[i].made /\ new.degraded = ingest[i].degraded
      BY <1>11, PassIsTyped DEF InsertResumes, CorpusPasses, Stages
    <3>2. ingest' = [ingest EXCEPT ![i] = new]
      BY <1>11 DEF InsertResumes, CorpusTypeOK
    <3> HIDE DEF new
    <3>3. PassIs(i, new)
      BY <3>1, <3>2, PassIsSet
    <3> QED
      BY <1>11, <3>1, <3>3 DEF PassIs, InsertResumes, In
  <2>2. CorpusTypeOK'
    BY <2>1 DEF CorpusTypeOK, PassIs
  <2>3. StoredIsClustered'
    BY <2>1, AsleepIsPass, PassIsTyped DEF StoredIsClustered, PassIs
  <2>4. ReleaseStays'
    BY <1>0, <2>1, AsleepIsPass, PassIsTyped DEF ReleaseStays, PassIs, DocsIn
  <2>5. ClusteringIsComplete'
    BY <2>1, AsleepIsPass DEF ClusteringIsComplete, StoredIsClustered, ReleaseStays, PassIs, In, Coming
  <2> QED BY <2>2, <2>3, <2>4, <2>5
<1>12. ASSUME NEW i \in Ingests, ClusteringFails(i) PROVE CorpusInv'
  <2>1. /\ UNCHANGED <<doc, link, macro, released>> /\ PassIs(i, ingest'[i]) /\ torn' = TRUE
        /\ ingest'[i].pc = "sweeping" /\ ingest'[i].degraded
        /\ ingest'[i].mine = ingest[i].mine /\ ingest'[i].todo = {} /\ ingest'[i].made = {}
    <3> DEFINE new == RolledBack(ingest[i])
    <3>1. /\ new \in CorpusPasses
          /\ new.pc = "sweeping" /\ new.degraded = TRUE
              /\ new.mine = ingest[i].mine /\ new.todo = {} /\ new.made = {}
      BY <1>12, PassIsTyped DEF ClusteringFails, CorpusPasses, Stages, RolledBack, Nothing, Flags
    <3>2. ingest' = [ingest EXCEPT ![i] = new]
      BY <1>12 DEF ClusteringFails, CorpusTypeOK
    <3> HIDE DEF new
    <3>3. PassIs(i, new)
      BY <3>1, <3>2, PassIsSet
    <3> QED
      BY <1>12, <3>1, <3>3 DEF PassIs, ClusteringFails, In
  <2>2. CorpusTypeOK'
    BY <2>1 DEF CorpusTypeOK, PassIs
  <2>3. StoredIsClustered'
    BY <2>1, AsleepIsPass, PassIsTyped DEF StoredIsClustered, PassIs
  <2>4. ReleaseStays'
    BY <1>0, <2>1, AsleepIsPass, PassIsTyped DEF ReleaseStays, PassIs, DocsIn
  <2>5. ClusteringIsComplete'
    BY <2>1, AsleepIsPass DEF ClusteringIsComplete, StoredIsClustered, ReleaseStays, PassIs, In, Coming
  <2> QED BY <2>2, <2>3, <2>4, <2>5
<1>13. ASSUME NEW i \in Ingests, CommitClusters(i) PROVE CorpusInv'
  <2>1. /\ UNCHANGED <<doc, released>> /\ PassIs(i, ingest'[i]) /\ macro' \in Rows /\ torn' = FALSE
        /\ ingest[i].pc = "clustering" /\ ingest[i].todo = {} /\ ingest'[i].pc = "sweeping"
        /\ ingest'[i].mine = ingest[i].mine /\ ingest'[i].todo = {} /\ ingest'[i].made = {}
        /\ ingest'[i].degraded = ingest[i].degraded
        /\ link' \subseteq Docs \X Docs /\ DocsIn(link') = DocsIn(link) \cup DocsIn(ingest[i].made)
        /\ macro'.exists /\ MacroDoc \in Linkers(i) => macro'.linked
    <3>0. /\ macro' \in Rows /\ (macro'.exists /\ MacroDoc \in Linkers(i) => macro'.linked)
      <4> DEFINE linked == macro.linked \/ (macro.exists /\ MacroDoc \in Linkers(i))
      <4>1. macro' = [macro EXCEPT !.linked = linked]
        BY <1>13 DEF CommitClusters
      <4>2. linked \in Flags /\ (macro.exists /\ MacroDoc \in Linkers(i) => linked)
        BY DEF Flags
      <4> HIDE DEF linked
      <4>3. macro' \in Rows /\ macro'.exists = macro.exists /\ macro'.linked = linked
        BY <4>1, <4>2 DEF CorpusTypeOK, Rows
      <4> QED BY <4>2, <4>3
    <3>a. link' \subseteq Docs \X Docs /\ DocsIn(link') = DocsIn(link) \cup DocsIn(ingest[i].made)
      BY <1>13, PassIsTyped DEF CommitClusters, DocsIn, CorpusTypeOK
    <3> DEFINE new == [ingest[i] EXCEPT !.pc = "sweeping", !.made = Nothing]
    <3>1. /\ new \in CorpusPasses
          /\ new.pc = "sweeping" /\ new.made = {}
              /\ new.mine = ingest[i].mine /\ new.todo = ingest[i].todo
              /\ new.degraded = ingest[i].degraded
      BY <1>13, PassIsTyped DEF CommitClusters, CorpusPasses, Stages, Nothing
    <3>2. ingest' = [ingest EXCEPT ![i] = new]
      BY <1>13 DEF CommitClusters, CorpusTypeOK, Nothing
    <3> HIDE DEF new
    <3>3. PassIs(i, new)
      BY <3>1, <3>2, PassIsSet
    <3> QED
      BY <1>13, <3>0, <3>a, <3>1, <3>3 DEF PassIs, CommitClusters, In, Nothing
  <2>2. CorpusTypeOK'
    BY <2>1 DEF CorpusTypeOK, PassIs
  <2>3. StoredIsClustered'
    BY <2>1, AsleepIsPass, PassIsTyped DEF StoredIsClustered, PassIs
  <2>4. ReleaseStays'
    BY <1>0, <2>1 DEF ReleaseStays, PassIs, DocsIn
  <2>5. ClusteringIsComplete'
    <3>1. MacroDoc \in DocsIn(link') => MacroDoc \in Linkers(i)
      BY <2>1 DEF ReleaseStays, Linkers, DocsIn
    <3> QED
      BY <2>1, <3>1 DEF ClusteringIsComplete, StoredIsClustered, PassIs, In
  <2> QED BY <2>2, <2>3, <2>4, <2>5
<1>14. ASSUME NEW i \in Ingests, Sweep(i) PROVE CorpusInv'
  <2>1. /\ UNCHANGED <<link, macro, torn, released>> /\ PassIs(i, ingest'[i])
        /\ ingest[i].pc = "sweeping" /\ ingest'[i].pc = "done"
        /\ doc' \in [Docs -> {"absent", "stored", "swept"}] /\ doc'[MacroDoc] = doc[MacroDoc]
        /\ \A d \in Docs : doc'[d] = doc[d] \/ d \in DocsIn(link)
        /\ ingest'[i].mine = ingest[i].mine /\ ingest'[i].todo = ingest[i].todo
        /\ ingest'[i].made = ingest[i].made /\ ingest'[i].degraded = ingest[i].degraded
    <3>0. /\ UNCHANGED <<link, macro, torn, released>> /\ ingest[i].pc = "sweeping"
          /\ doc' \in [Docs -> {"absent", "stored", "swept"}] /\ doc'[MacroDoc] = doc[MacroDoc]
          /\ \A d \in Docs : doc'[d] = doc[d] \/ d \in DocsIn(link)
      BY <1>0, <1>14 DEF Sweep, In, CorpusTypeOK
    <3> DEFINE new == [ingest[i] EXCEPT !.pc = "done"]
    <3>1. /\ new \in CorpusPasses
          /\ new.pc = "done"
              /\ new.mine = ingest[i].mine /\ new.todo = ingest[i].todo
              /\ new.made = ingest[i].made /\ new.degraded = ingest[i].degraded
      BY <1>14, PassIsTyped DEF Sweep, CorpusPasses, Stages
    <3>2. ingest' = [ingest EXCEPT ![i] = new]
      BY <1>14 DEF Sweep, CorpusTypeOK
    <3> HIDE DEF new
    <3>3. PassIs(i, new)
      BY <3>1, <3>2, PassIsSet
    <3> QED
      BY <3>0, <3>1, <3>3 DEF PassIs
  <2>2. CorpusTypeOK'
    BY <2>1 DEF CorpusTypeOK, PassIs
  <2>3. StoredIsClustered'
    BY <2>1, AsleepIsPass, PassIsTyped DEF StoredIsClustered, PassIs
  <2>4. ReleaseStays'
    BY <1>0, <2>1, AsleepIsPass, PassIsTyped DEF ReleaseStays, PassIs, DocsIn
  <2>5. ClusteringIsComplete'
    BY <2>1, AsleepIsPass DEF ClusteringIsComplete, StoredIsClustered, ReleaseStays, PassIs, In, Coming
  <2> QED BY <2>2, <2>3, <2>4, <2>5
<1>15. ASSUME NEW i \in Ingests, Rests(i) PROVE CorpusInv'
  <2>1. /\ UNCHANGED <<doc, link, macro, torn, released>> /\ PassIs(i, ingest'[i])
        /\ ingest[i].pc = "done" /\ ingest'[i] = Asleep
    BY <1>15, PassIsSet, AsleepIsPass DEF Rests, In, PassIs
  <2>2. CorpusTypeOK'
    BY <2>1 DEF CorpusTypeOK, PassIs
  <2>3. StoredIsClustered'
    BY <2>1, AsleepIsPass, PassIsTyped DEF StoredIsClustered, PassIs
  <2>4. ReleaseStays'
    BY <1>0, <2>1, AsleepIsPass, PassIsTyped DEF ReleaseStays, PassIs, DocsIn
  <2>5. ClusteringIsComplete'
    BY <2>1, AsleepIsPass DEF ClusteringIsComplete, StoredIsClustered, ReleaseStays, PassIs, In, Coming
  <2> QED BY <2>2, <2>3, <2>4, <2>5
<1>16. ASSUME NEW i \in Ingests, StopIngest(i) PROVE CorpusInv'
  <2>1. /\ UNCHANGED <<doc, link, macro, released>> /\ PassIs(i, ingest'[i]) /\ torn' = TRUE
        /\ ingest'[i] = Asleep
    BY <1>16, PassIsSet, AsleepIsPass DEF StopIngest, PassIs
  <2>2. CorpusTypeOK'
    BY <2>1 DEF CorpusTypeOK, PassIs
  <2>3. StoredIsClustered'
    BY <2>1, AsleepIsPass, PassIsTyped DEF StoredIsClustered, PassIs
  <2>4. ReleaseStays'
    BY <1>0, <2>1, AsleepIsPass, PassIsTyped DEF ReleaseStays, PassIs, DocsIn
  <2>5. ClusteringIsComplete'
    BY <2>1, AsleepIsPass DEF ClusteringIsComplete, StoredIsClustered, ReleaseStays, PassIs, In, Coming
  <2> QED BY <2>2, <2>3, <2>4, <2>5
<1>17. CASE UNCHANGED corpusVars
  BY <1>17
     DEF corpusVars, CorpusTypeOK, StoredIsClustered, ReleaseStays, ClusteringIsComplete, In, Coming,
         DocsIn
<1> QED
  BY <1>1, <1>2, <1>3, <1>4, <1>5, <1>6, <1>7, <1>8, <1>9, <1>10, <1>11, <1>12, <1>13, <1>14, <1>15,
     <1>16, <1>17
     DEF CorpusNext

\* A pass that says nothing of a failed clustering leaves no document it stored outside an event, and a
\* release's missing link is about to be repaired, whatever the other passes do (ingest.py, events.py).
THEOREM ClusteringCompletes == CorpusSpec => []ClusteringIsComplete
<1>1. CorpusInit => CorpusInv
  <2> SUFFICES ASSUME CorpusInit PROVE CorpusInv
    OBVIOUS
  <2>1. /\ ingest = [i \in Ingests |-> Asleep] /\ macro = NoRow /\ released \in Flags
        /\ torn \in BOOLEAN
        /\ link = {} /\ DocsIn(link) = {} /\ doc = [d \in Docs |-> "absent"]
    BY DEF CorpusInit, Flags, DocsIn, Nothing
  <2>2. CorpusTypeOK
    BY <2>1, AsleepIsPass DEF CorpusTypeOK
  <2>3. StoredIsClustered /\ ReleaseStays
    BY <2>1, AsleepIsPass DEF StoredIsClustered, ReleaseStays, DocsIn
  <2>4. ClusteringIsComplete
    BY <2>1, AsleepIsPass DEF ClusteringIsComplete, In
  <2> QED BY <2>2, <2>3, <2>4 DEF CorpusInv
<1>2. CorpusInv => ClusteringIsComplete
  BY DEF CorpusInv
<1> QED
  BY <1>1, <1>2, CorpusStep, PTL DEF CorpusSpec
=============================================================================
