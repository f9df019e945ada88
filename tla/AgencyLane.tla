------------------------------ MODULE AgencyLane ------------------------------
(***************************************************************************)
(* The research-agency lane of the journal and the bridge that works it:   *)
(* the owner's runs (journal/agency_store.go), the evidence snapshots the  *)
(* review runs are about (journal/experiment_snapshot_store.go), the HTTP  *)
(* handlers between them (journal/agency_routes.go, experiment_routes.go)  *)
(* and the one-shot worker processes on the owner's machine                *)
(* (bridge/run.go, review_run.go, client.go).                              *)
(*                                                                         *)
(* Both stores keep one document per owner in memory and write it through  *)
(* whole, under one mutex each, so a store operation is one action.  The   *)
(* memory is changed first and written second: a write that fails leaves   *)
(* the new value in memory and the old one on disk.  A handler that calls  *)
(* the stores twice is two actions.  A worker's call is a message that may *)
(* be lost, or applied after the worker has given up on it.                *)
(*                                                                         *)
(* Time is relative: the age of a run and the time its lease has left.     *)
(* One owner; buckets of different owners share nothing.                   *)
(***************************************************************************)
EXTENDS Integers, FiniteSets

CONSTANTS
    Questions,          \* the research requests the owner can make
    Workers,            \* bridge processes
    RunsPerUser,        \* agencyRunsPerUser
    SnapsPerUser,       \* experimentSnapshotsPerUser
    SnapsHardCap,       \* experimentSnapshotsHardCap
    MaxAttempts,        \* agencyMaxAttempts
    LeaseTicks,         \* agencyLeaseDuration, in ticks
    MaxRunAge,          \* agencyMaxRunAge, in ticks
    Stages,             \* profiles in a chain
    MaxRuns,            \* bound: runs created
    MaxSnaps,           \* bound: snapshots taken
    MaxLate,            \* bound: calls in flight after their caller gave up
    MaxCrashes,         \* bound: restarts of the journal
    MaxSaveFailures     \* bound: writes of a document that fail

ASSUME LaneAssumption ==
    /\ {RunsPerUser, SnapsPerUser, SnapsHardCap, MaxAttempts, LeaseTicks,
        MaxRunAge, Stages} \subseteq Nat \ {0}
    /\ {MaxRuns, MaxSnaps, MaxLate, MaxCrashes, MaxSaveFailures} \subseteq Nat
    /\ SnapsPerUser =< SnapsHardCap
    /\ Questions \cap Nat = {}

RunIds  == 1 .. MaxRuns         \* in the order of creation
SnapIds == 1 .. MaxSnaps        \* in the order of capture

Live     == {"queued", "claimed", "running"}
Terminal == {"completed", "failed", "cancelled", "expired"}

\* A run is about a question (research) or about a snapshot (review).
Run == [status : Live \cup Terminal \cup {"none"}, about : Questions \cup SnapIds \cup {0},
        attempts : 0 .. MaxAttempts, token : 0 .. MaxAttempts,
        ttl : 0 .. LeaseTicks, by : 0 .. MaxAttempts]

NoRun == [status |-> "none", about |-> 0, attempts |-> 0, token |-> 0, ttl |-> 0, by |-> 0]

Ops == {"claim", "fetch", "beat", "complete", "store", "reject", "fail"}

\* late: the caller no longer waits.  good: the artifact passes validation
\* ("complete"), the snapshot was found ("store"), the failure is retryable ("fail").
Call == [w : Workers, op : Ops, run : RunIds \cup {0}, token : 0 .. MaxAttempts,
         good : BOOLEAN, late : BOOLEAN]

\* What a bridge process is doing; any op but "store" and "reject" is a call it waits for.
Job == [pc : {"idle", "stage"} \cup Ops, run : RunIds \cup {0}, token : 0 .. MaxAttempts,
        stage : 0 .. Stages]

Idle == [pc |-> "idle", run |-> 0, token |-> 0, stage |-> 0]

VARIABLES
    runs,       \* the run document in memory
    saved,      \* the run document on disk
    snaps,      \* the snapshots in memory
    savedSnaps, \* the snapshots on disk
    age,        \* age of each run, saturating just past MaxRunAge
    created,    \* runs created so far
    taken,      \* snapshots captured so far
    inbox,      \* worker calls the journal has not finished
    bridge,     \* the bridge processes
    crashes, saveFailures,
    handed      \* history: leases handed out per run

vars == <<runs, saved, snaps, savedSnaps, age, created, taken, inbox, bridge, crashes, saveFailures, handed>>

-----------------------------------------------------------------------------
(* The run record *)

IsReview(r)  == r.about \in SnapIds
Stored(rs)   == {i \in RunIds : rs[i].status # "none"}
LeaseHeld(r) == r.status \in {"claimed", "running"} /\ r.token # 0 /\ r.ttl > 0

\* claimable: queued, or held by a lease that lapsed; never past the attempt cap.
Claimable(r) ==
    /\ r.status \in Live
    /\ r.attempts < MaxAttempts
    /\ r.status = "queued" \/ ~LeaseHeld(r)

\* claimableAt: the same answer for a document nobody has reconciled yet.
ClaimableAt(i) ==
    /\ Claimable(runs[i])
    /\ ~(runs[i].status = "queued" /\ age[i] > MaxRunAge)

Lapsed(r) == r.status \in {"claimed", "running"} /\ ~LeaseHeld(r)

\* Mutant: a queued run is never too old.
ReconciledForever(rs) ==
    [i \in RunIds |-> IF Lapsed(rs[i]) THEN [rs[i] EXCEPT !.status = "queued", !.token = 0, !.ttl = 0]
                                       ELSE rs[i]]

\* reconcileLocked: lapsed leases go back to the queue or expire; a stale queued run expires.
Reconciled(rs) ==
    [i \in RunIds |->
        CASE Lapsed(rs[i]) ->
                [rs[i] EXCEPT !.status = IF @ \in Live /\ rs[i].attempts >= MaxAttempts
                                         THEN "expired" ELSE "queued",
                              !.token = 0, !.ttl = 0]
          [] rs[i].status = "queued" /\ age[i] > MaxRunAge ->
                [rs[i] EXCEPT !.status = "expired"]
          [] OTHER -> rs[i]]

\* SnapshotIDsInUse: what live runs still need.
SnapshotIDsInUse == {runs[i].about : i \in {j \in RunIds : runs[j].status \in Live}} \cap SnapIds

\* persistLocked keeps the newest RunsPerUser runs.
Newest(rs) ==
    [i \in RunIds |-> IF Cardinality({j \in Stored(rs) : j > i}) < RunsPerUser
                      THEN rs[i] ELSE NoRun]

Persisted(rs) ==
    /\ runs' = Newest(rs)
    /\ saved' = Newest(rs)
    /\ UNCHANGED saveFailures

SaveFailed(rs) ==
    /\ saveFailures < MaxSaveFailures
    /\ saveFailures' = saveFailures + 1
    /\ runs' = Newest(rs)
    /\ UNCHANGED saved

Untouched == UNCHANGED <<runs, saved, saveFailures>>

\* Get and List write the document only when reconciliation changed it.
Refreshed ==
    IF Reconciled(runs) = runs THEN Untouched ELSE Persisted(Reconciled(runs))

RefreshFailed == Reconciled(runs) # runs /\ SaveFailed(Reconciled(runs))

\* Mutant: retention without the pin.
RetainedUnpinned(ss) == {s \in ss : Cardinality({t \in ss : t > s}) < SnapsPerUser}

\* Ids are ranked by age; the retention of both stores counts from the newest.
Retained(ss) ==
    LET newer(s, of) == {t \in of : t > s}
        kept == {s \in ss : \/ Cardinality(newer(s, ss)) < SnapsPerUser
                            \/ s \in SnapshotIDsInUse}
    IN  IF Cardinality(ss) =< SnapsPerUser THEN ss
        ELSE {s \in kept : Cardinality(newer(s, kept)) < SnapsHardCap}

-----------------------------------------------------------------------------
(* The owner *)

\* Create and CreateReview: attach to a live run about the same thing, or enqueue one.
Enqueue(subject) ==
    LET rs == Reconciled(runs)
    IN  /\ IF \E i \in RunIds : rs[i].status \in Live /\ rs[i].about = subject
           THEN runs' = rs /\ UNCHANGED <<saved, saveFailures, created>>
           ELSE /\ created < MaxRuns
                /\ created' = created + 1
                /\ LET new == [rs EXCEPT ![created + 1] =
                                  [NoRun EXCEPT !.status = "queued", !.about = subject]]
                   IN  Persisted(new) \/ SaveFailed(new)
        /\ UNCHANGED <<snaps, savedSnaps, age, taken, inbox, bridge, crashes, handed>>

Create == \E q \in Questions : Enqueue(q)

\* handleReviewCreate holds the snapshot store's lock over the check and the create.
CreateReview == \E s \in snaps : Enqueue(s)

\* handleSnapshotCreate, Put and the retention that runs before every write.
TakeSnapshot ==
    /\ taken < MaxSnaps
    /\ taken' = taken + 1
    /\ snaps' = Retained(snaps \cup {taken + 1})
    /\ \/ savedSnaps' = snaps' /\ UNCHANGED saveFailures
       \/ /\ saveFailures < MaxSaveFailures
          /\ saveFailures' = saveFailures + 1
          /\ UNCHANGED savedSnaps
    /\ UNCHANGED <<runs, saved, age, created, inbox, bridge, crashes, handed>>

\* Mutant: a cancellation that does not look at the run's state.
CancelAnyway(i) ==
    /\ runs[i].status # "none"
    /\ Persisted([Reconciled(runs) EXCEPT ![i].status = "cancelled", ![i].token = 0, ![i].ttl = 0])
    /\ UNCHANGED <<snaps, savedSnaps, age, created, taken, inbox, bridge, crashes, handed>>

Cancel(i) ==
    LET rs == Reconciled(runs)
    IN  /\ runs[i].status # "none"
        /\ IF rs[i].status \in Terminal
           THEN runs' = rs /\ UNCHANGED <<saved, saveFailures>>
           ELSE LET cancelled == [rs EXCEPT ![i].status = "cancelled",
                                            ![i].token = 0, ![i].ttl = 0]
                IN  Persisted(cancelled) \/ SaveFailed(cancelled)
        /\ UNCHANGED <<snaps, savedSnaps, age, created, taken, inbox, bridge, crashes, handed>>

\* handleAgencyGet, handleAgencyList.
Poll ==
    /\ Reconciled(runs) # runs
    /\ Refreshed \/ RefreshFailed
    /\ UNCHANGED <<snaps, savedSnaps, age, created, taken, inbox, bridge, crashes, handed>>

-----------------------------------------------------------------------------
(* The bridge: one job, start to finish, then exit *)

Waiting(w) == bridge[w].pc \in Ops

Ask(w, op, good) ==
    /\ bridge' = [bridge EXCEPT ![w].pc = op]
    /\ inbox' = inbox \cup {[w |-> w, op |-> op, run |-> bridge[w].run,
                             token |-> bridge[w].token, good |-> good, late |-> FALSE]}

JournalUntouched == UNCHANGED <<runs, saved, snaps, savedSnaps, age, created, taken, crashes, saveFailures, handed>>

\* runOnce begins with a claim.
StartWorker(w) ==
    /\ bridge[w].pc = "idle"
    /\ Ask(w, "claim", TRUE)
    /\ JournalUntouched

\* runner.Run and the decoding of one stage: the next stage begins with a heartbeat,
\* the last is followed by the upload.  good: the artifact passes the server's validation.
FinishStage(w) ==
    /\ bridge[w].pc = "stage"
    /\ IF bridge[w].stage < Stages THEN Ask(w, "beat", TRUE)
       ELSE \E good \in BOOLEAN : Ask(w, "complete", good)
    /\ JournalUntouched

\* A stage, the assembly or the final check fails; retryableFailure decides.
FailStage(w) ==
    /\ bridge[w].pc = "stage"
    /\ \E retryable \in BOOLEAN : Ask(w, "fail", retryable)
    /\ JournalUntouched

\* The machine or the process stops: nothing survives it.
StopWorker(w) ==
    /\ bridge[w].pc # "idle"
    /\ bridge' = [bridge EXCEPT ![w] = Idle]
    /\ inbox' = {IF c.w = w THEN [c EXCEPT !.late = TRUE] ELSE c : c \in inbox}
    /\ Cardinality({c \in inbox' : c.late}) =< MaxLate
    /\ JournalUntouched

\* What the process does with an answer: "ok", "stale" (409) or "error".  It sends its
\* failure report as part of the same step; the report's own answer ends the process.
AfterAnswer(w, op, answer, rest) ==
    LET job == bridge[w]
        next == [job EXCEPT !.pc = IF op = "fetch" THEN "beat" ELSE "stage",
                            !.stage = IF op = "beat" THEN job.stage + 1 ELSE @]
        send(o, j) == [w |-> w, op |-> o, run |-> j.run, token |-> j.token,
                       good |-> TRUE, late |-> FALSE]
    IN  CASE answer = "stale" \/ op \in {"claim", "fail"} \/ (answer = "ok" /\ op = "complete") ->
                bridge' = [bridge EXCEPT ![w] = Idle] /\ inbox' = rest
          [] answer = "ok" /\ op = "fetch" ->
                bridge' = [bridge EXCEPT ![w] = next] /\ inbox' = rest \cup {send("beat", next)}
          [] answer = "ok" /\ op = "beat" ->
                bridge' = [bridge EXCEPT ![w] = next] /\ inbox' = rest
          [] OTHER ->
                /\ bridge' = [bridge EXCEPT ![w].pc = "fail"]
                /\ inbox' = rest \cup {send("fail", job)}

\* The call times out.  It was never delivered, or it still is on its way.
GiveUp(w) ==
    /\ Waiting(w)
    /\ LET mine == {c \in inbox : c.w = w /\ ~c.late}
       IN  \/ AfterAnswer(w, bridge[w].pc, "error", inbox \ mine)
           \/ /\ Cardinality({c \in inbox : c.late}) < MaxLate
              /\ mine # {}
              /\ AfterAnswer(w, bridge[w].pc, "error",
                             (inbox \ mine) \cup {[c EXCEPT !.late = TRUE] : c \in mine})
    /\ JournalUntouched

-----------------------------------------------------------------------------
(* The worker's routes *)

\* The answer reaches the caller if it still waits.
Answer(c, answer) ==
    IF c.late THEN UNCHANGED bridge /\ inbox' = inbox \ {c}
              ELSE AfterAnswer(c.w, bridge[c.w].pc, answer, inbox \ {c})

HandlerUntouched == UNCHANGED <<snaps, savedSnaps, age, created, taken, crashes>>

\* Mutant: a lease that is not counted as an attempt.
LeaseToUncounted(rs, i) ==
    [rs EXCEPT ![i].status = "claimed", ![i].token = 1, ![i].ttl = LeaseTicks]

\* Claim: the oldest claimable run, with a fresh lease.
LeaseTo(rs, i) ==
    [rs EXCEPT ![i].status = "claimed", ![i].attempts = @ + 1,
               ![i].token = rs[i].attempts + 1, ![i].ttl = LeaseTicks]

HandleClaim(c) ==
    LET rs == Reconciled(runs)
        open == {i \in RunIds : Claimable(rs[i])}
    IN  /\ c.op = "claim"
        /\ IF open = {}
           THEN /\ Refreshed \/ RefreshFailed
                /\ Answer(c, "error")
                /\ UNCHANGED handed
           ELSE \E i \in open :
                /\ \A j \in open : age[i] >= age[j]
                /\ \/ /\ Persisted(LeaseTo(rs, i))
                      /\ handed' = [handed EXCEPT ![i] = @ + 1]
                      /\ IF c.late THEN UNCHANGED bridge /\ inbox' = inbox \ {c}
                         ELSE LET op == IF IsReview(rs[i]) THEN "fetch" ELSE "beat"
                                  token == LeaseTo(rs, i)[i].token
                              IN  /\ bridge' = [bridge EXCEPT ![c.w] =
                                        [pc |-> op, run |-> i, token |-> token, stage |-> 0]]
                                  /\ inbox' = (inbox \ {c}) \cup
                                        {[w |-> c.w, op |-> op, run |-> i, token |-> token,
                                          good |-> TRUE, late |-> FALSE]}
                   \/ /\ SaveFailed(LeaseTo(rs, i))
                      /\ Answer(c, "error")
                      /\ UNCHANGED handed
        /\ HandlerUntouched

Holds(r, c) == LeaseHeld(r) /\ r.token = c.token

\* handleAgencyWorkerSnapshot reads through Get, and the evidence only under the lease.
HandleFetch(c) ==
    LET rs == Reconciled(runs)
    IN  /\ c.op = "fetch"
        /\ \/ /\ Refreshed
              /\ Answer(c, CASE rs[c.run].status = "none" -> "error"
                             [] rs[c.run].status # "none" /\ ~Holds(rs[c.run], c) -> "stale"
                             [] OTHER -> IF rs[c.run].about \in snaps THEN "ok" ELSE "error")
           \/ RefreshFailed /\ Answer(c, "error")
        /\ HandlerUntouched /\ UNCHANGED handed

\* Store an update of the held run, or refuse a lease that is not current.
UnderLease(c, update, done) ==
    IF Holds(runs[c.run], c)
    THEN LET new == [runs EXCEPT ![c.run] = update]
         IN  \/ Persisted(new) /\ Answer(c, done)
             \/ SaveFailed(new) /\ Answer(c, "error")
    ELSE Untouched /\ Answer(c, IF runs[c.run].status = "none" THEN "error" ELSE "stale")

HandleBeat(c) ==
    /\ c.op = "beat"
    /\ UnderLease(c, [runs[c.run] EXCEPT !.status = "running", !.ttl = LeaseTicks], "ok")
    /\ HandlerUntouched /\ UNCHANGED handed

\* A call that continues in the same handler, after the store's lock was released.
Continue(c, op, good) ==
    /\ inbox' = (inbox \ {c}) \cup {[c EXCEPT !.op = op, !.good = good]}
    /\ UNCHANGED bridge

Completed(c) == [runs[c.run] EXCEPT !.status = "completed", !.by = c.token,
                                    !.token = 0, !.ttl = 0]

\* Complete and CompleteReview: a replay of the completion that was stored is answered
\* with it, an artifact that does not pass is followed by a failure report.
Deliver(c, valid) ==
    LET r == runs[c.run]
    IN  CASE r.status = "completed" ->
                Untouched /\ Answer(c, IF r.by = c.token THEN "ok" ELSE "stale")
          [] Holds(r, c) /\ ~valid -> Untouched /\ Continue(c, "reject", FALSE)
          [] OTHER -> UnderLease(c, Completed(c), "ok")

HandleComplete(c) ==
    /\ c.op = "complete"
    /\ IF IsReview(runs[c.run])
       THEN \* handleAgencyCompleteReview first reads the run and its snapshot.
            \/ /\ Refreshed
               /\ Continue(c, "store", c.good /\ runs[c.run].about \in snaps)
            \/ RefreshFailed /\ Answer(c, "error")
       ELSE Deliver(c, c.good)
    /\ HandlerUntouched /\ UNCHANGED handed

HandleStore(c) ==
    /\ c.op = "store"
    /\ Deliver(c, c.good)
    /\ HandlerUntouched /\ UNCHANGED handed

\* Fail: back to the queue while attempts remain, else failed.
Failed(c, retryable) ==
    IF retryable /\ runs[c.run].attempts < MaxAttempts
    THEN [runs[c.run] EXCEPT !.status = "queued", !.token = 0, !.ttl = 0]
    ELSE [runs[c.run] EXCEPT !.status = "failed", !.by = c.token, !.token = 0, !.ttl = 0]

HandleFail(c) ==
    /\ c.op \in {"fail", "reject"}
    /\ LET done == IF c.op = "reject" THEN "error" ELSE "ok"
       IN  IF runs[c.run].status = "failed" /\ runs[c.run].by = c.token
           THEN Untouched /\ Answer(c, done)
           ELSE IF c.op = "reject" /\ ~Holds(runs[c.run], c)
                THEN Untouched /\ Answer(c, "error")
                ELSE UnderLease(c, Failed(c, c.op = "fail" /\ c.good), done)
    /\ HandlerUntouched /\ UNCHANGED handed

-----------------------------------------------------------------------------
(* Time and restarts *)

Older(rs) == [i \in RunIds |-> [rs[i] EXCEPT !.ttl = IF @ > 0 THEN @ - 1 ELSE 0]]

Tick ==
    /\ runs' = Older(runs)
    /\ saved' = Older(saved)
    /\ age' = [i \in RunIds |-> IF i =< created /\ age[i] =< MaxRunAge THEN age[i] + 1 ELSE age[i]]
    /\ UNCHANGED <<snaps, savedSnaps, created, taken, inbox, bridge, crashes, saveFailures, handed>>

Restart ==
    /\ crashes < MaxCrashes
    /\ crashes' = crashes + 1
    /\ runs' = saved
    /\ snaps' = savedSnaps
    /\ inbox' = {}
    /\ UNCHANGED <<saved, savedSnaps, age, created, taken, bridge, saveFailures, handed>>

-----------------------------------------------------------------------------
Init ==
    /\ runs = [i \in RunIds |-> NoRun]
    /\ saved = [i \in RunIds |-> NoRun]
    /\ snaps = {}
    /\ savedSnaps = {}
    /\ age = [i \in RunIds |-> 0]
    /\ created = 0
    /\ taken = 0
    /\ inbox = {}
    /\ bridge = [w \in Workers |-> Idle]
    /\ crashes = 0
    /\ saveFailures = 0
    /\ handed = [i \in RunIds |-> 0]

Next ==
    \/ Create
    \/ CreateReview
    \/ TakeSnapshot
    \/ \E i \in RunIds : Cancel(i)
    \/ Poll
    \/ \E w \in Workers :
        \/ StartWorker(w)
        \/ FinishStage(w)
        \/ FailStage(w)
        \/ StopWorker(w)
        \/ GiveUp(w)
    \/ \E c \in inbox :
        \/ HandleClaim(c)
        \/ HandleFetch(c)
        \/ HandleBeat(c)
        \/ HandleComplete(c)
        \/ HandleStore(c)
        \/ HandleFail(c)
    \/ Tick
    \/ Restart

Spec == Init /\ [][Next]_vars

-----------------------------------------------------------------------------
(* Properties *)

(***************************************************************************)
(* A verdict is final (agency.go:180 `terminal`, agency_store.go:453       *)
(* `Complete`): whatever late calls, takeovers, cancellations and restarts *)
(* follow, a completed, failed or cancelled run keeps its status and the   *)
(* lease that produced its result until retention drops it.  The exception *)
(* is a restart after a failed write: the memory held the verdict, a       *)
(* second Cancel or a replayed Complete was answered from it, and nothing  *)
(* was on disk.                                                            *)
(***************************************************************************)
KeptFrom(statuses) ==
    \A i \in RunIds :
        runs[i].status \in statuses =>
            \/ runs'[i].status = "none"
            \/ runs'[i].status = runs[i].status /\ runs'[i].by = runs[i].by

ResultStands ==
    [][saveFailures = 0 \/ crashes' = crashes
           => KeptFrom({"completed", "failed", "cancelled"})]_vars

(***************************************************************************)
(* The retention pin (experiment_snapshot_store.go:44-58,                  *)
(* agency_store.go:139 SnapshotIDsInUse): a review that a worker holds or  *)
(* could still claim finds its evidence, across snapshot captures,         *)
(* cancellations, lapsed leases and failed writes, while the journal stays *)
(* up.                                                                     *)
(***************************************************************************)
ReviewHasItsEvidence ==
    crashes = 0 =>
        \A i \in RunIds :
            IsReview(runs[i]) /\ (LeaseHeld(runs[i]) \/ ClaimableAt(i)) =>
                runs[i].about \in snaps

(***************************************************************************)
(* A lease is one worker's and one attempt (agency_store.go:262 Claim,     *)
(* agency.go:117): of all processes that believe they work a run, at most  *)
(* one holds its current lease; and however leases lapse, workers report   *)
(* retryable failures, and the journal restarts or fails to write, no run  *)
(* is worked more than agencyMaxAttempts times.                            *)
(***************************************************************************)
HoldsLeaseOf(w, i) ==
    bridge[w].run = i /\ LeaseHeld(runs[i]) /\ bridge[w].token = runs[i].token

LeasesAreSound ==
    \A i \in RunIds :
        /\ \A v, w \in Workers : HoldsLeaseOf(v, i) /\ HoldsLeaseOf(w, i) => v = w
        /\ handed[i] =< MaxAttempts

(***************************************************************************)
(* Nothing sits running forever (agency.go:118, agency_store.go:614        *)
(* reconcileLocked): as long as time passes and somebody reads the list,   *)
(* every run ends, whatever the workers do or fail to do.                  *)
(***************************************************************************)
EveryRunEnds ==
    \A i \in RunIds : runs[i].status \in Live ~> runs[i].status \notin Live

Fairness == WF_vars(Tick) /\ WF_vars(Poll)

FairSpec == Spec /\ Fairness
=============================================================================
