------------------------------ MODULE LaneLedger ------------------------------
(***************************************************************************)
(* The durable lane ledger of services/events/app/automation.py: one       *)
(* automation lane, the row that is its lease, the runs recorded for it,    *)
(* and the callers that lease it. A caller is either a pass of the events   *)
(* service itself (`dispatch`, `run_lane`, the production scheduler) or a   *)
(* runner of services/llm, which does the same over HTTP. A pass reads the  *)
(* clock once, when it begins, and uses that moment to lease the lane and   *)
(* to complete the run; the HTTP handlers read it at each request.          *)
(*                                                                          *)
(* PostgreSQL runs at READ COMMITTED, so a transaction is the locks it has  *)
(* taken so far; its writes appear when it commits. `acquire` locks the     *)
(* lane's row and then those of the running runs; `complete` reads the      *)
(* lease without a lock, locks the run's row and then the lane's.           *)
(***************************************************************************)
EXTENDS Naturals, FiniteSets

CONSTANTS Passes,    \* processes of services/events that dispatch a lane
          Workers,   \* runners of services/llm
          LeaseFor,  \* AUTOMATION_LEASE_SECONDS
          Interval,  \* the lane's minimum interval
          MaxClock,  \* bound on the clock
          MaxRuns    \* bound on the runs recorded

ASSUME LaneAssumption == /\ LeaseFor \in Nat \ {0} /\ Interval \in Nat
                         /\ MaxClock \in Nat /\ MaxRuns \in Nat

Callers == Passes \cup Workers
RunIds == 1 .. MaxRuns
Free == 0
Outcomes == {"success", "failure"}   \* degraded and skipped are written like success

VARIABLES laneClock,  \* the time, in lease units
          lane,       \* the committed lane row: its lease's run, expiry, next eligible time
          runs,       \* the status of every run's row
          laneLock,   \* the caller whose open transaction holds the lane's row
          runLock,    \* the caller whose open transaction holds a run's row
          caller,     \* where each caller is
          told        \* what the caller of a run was answered when it completed it

laneVars == <<laneClock, lane, runs, laneLock, runLock, caller, told>>

NoCaller == "nobody"
Idle == [pc |-> "idle", moment |-> 0, force |-> FALSE, run |-> Free, says |-> "none"]

LaneInit ==
    /\ laneClock = 0
    /\ lane = [run |-> Free, expires |-> 0, next |-> 0]
    /\ runs = [r \in RunIds |-> "unused"]
    /\ laneLock = NoCaller
    /\ runLock = [r \in RunIds |-> NoCaller]
    /\ caller = [c \in Callers |-> Idle]
    /\ told = [r \in RunIds |-> "nothing"]

At(c, pc) == caller[c].pc = pc
Goes(c, pc) == caller' = [caller EXCEPT ![c].pc = pc]
Unused == {r \in RunIds : runs[r] = "unused"}

(* The WHERE of the conditional update: the lease is free or expired at    *)
(* the caller's moment, and the lane is due unless the run is forced.      *)
Takeable(moment, force) ==
    /\ lane.run = Free \/ lane.expires <= moment
    /\ force \/ lane.next <= moment

(* The clock, and a caller that asks for the lane.                         *)
LaneTick ==
    /\ laneClock < MaxClock
    /\ laneClock' = laneClock + 1
    /\ UNCHANGED <<lane, runs, laneLock, runLock, caller, told>>

Ask(c, force) ==
    /\ At(c, "idle")
    /\ caller' = [caller EXCEPT ![c] = [Idle EXCEPT !.pc = "asked", !.moment = laneClock,
                                                    !.force = force]]
    /\ UNCHANGED <<laneClock, lane, runs, laneLock, runLock, told>>

Decline(c) ==
    /\ At(c, "asked")
    /\ ~Takeable(caller[c].moment, caller[c].force)
    /\ caller' = [caller EXCEPT ![c] = Idle]
    /\ UNCHANGED <<laneClock, lane, runs, laneLock, runLock, told>>

LockLane(c) ==
    /\ At(c, "asked")
    /\ laneLock = NoCaller
    /\ Unused # {}
    /\ Takeable(caller[c].moment, caller[c].force)
    /\ laneLock' = c
    /\ caller' = [caller EXCEPT ![c].pc = "leasing", ![c].force = FALSE]
    /\ UNCHANGED <<laneClock, lane, runs, runLock, told>>

\* Mutant: the lane's earlier runs are closed whatever they read.
ReconcileEvery(status) == IF status = "unused" THEN status ELSE "failure"

(* The runs a new lease leaves behind: whatever still reads `running` is   *)
(* closed as a failure, never as a success.                                *)
Reconcile(status) == IF status = "running" THEN "failure" ELSE status

TakeLane(c) == \E r \in Unused :
    /\ \A other \in Unused : r <= other
    /\ At(c, "leasing")
    /\ \A id \in RunIds : runs[id] = "running" => runLock[id] = NoCaller
    /\ runs' = [id \in RunIds |-> IF id = r THEN "running" ELSE Reconcile(runs[id])]
    /\ lane' = [lane EXCEPT !.run = r, !.expires = caller[c].moment + LeaseFor]
    /\ laneLock' = NoCaller
    /\ caller' = [caller EXCEPT ![c].pc = "working", ![c].run = r]
    /\ UNCHANGED <<laneClock, runLock, told>>

(* The lane's entrypoint returns, or raises.                               *)
EndWork(c, outcome) ==
    /\ At(c, "working")
    /\ caller' = [caller EXCEPT ![c].pc = "reporting", ![c].says = outcome]
    /\ UNCHANGED <<laneClock, lane, runs, laneLock, runLock, told>>

(* The completion's read of the lease, which takes no lock.                *)
HoldsToken(c) == lane.run = caller[c].run

CheckToken(c) ==
    /\ At(c, "reporting")
    /\ IF HoldsToken(c)
       THEN Goes(c, "closing") /\ UNCHANGED told
       ELSE /\ caller' = [caller EXCEPT ![c] = Idle]
            /\ told' = [told EXCEPT ![caller[c].run] = "refused"]
    /\ UNCHANGED <<laneClock, lane, runs, laneLock, runLock>>

LockRun(c) ==
    /\ At(c, "closing")
    /\ runLock[caller[c].run] = NoCaller
    /\ runLock' = [runLock EXCEPT ![caller[c].run] = c]
    /\ Goes(c, "settling")
    /\ UNCHANGED <<laneClock, lane, runs, laneLock, told>>

(* The moment a completion stamps: a pass's own, or the request's.         *)
Stamp(c) == IF c \in Passes THEN caller[c].moment ELSE laneClock

(* The two updates and the commit. The lane is updated by its name, so the *)
(* lease that is cleared is whichever lease the row then holds. A worker's *)
(* answer may be lost on its way back.                                     *)
Settle(c) ==
    LET r == caller[c].run IN
    /\ At(c, "settling")
    /\ laneLock = NoCaller
    /\ runs' = [runs EXCEPT ![r] = caller[c].says]
    /\ lane' = [run |-> Free, expires |-> 0, next |-> Stamp(c) + Interval]
    /\ runLock' = [runLock EXCEPT ![r] = NoCaller]
    /\ caller' = [caller EXCEPT ![c] = Idle]
    /\ \/ told' = [told EXCEPT ![r] = caller[c].says]
       \/ c \in Workers /\ UNCHANGED told
    /\ UNCHANGED <<laneClock, laneLock>>

(* A transaction that ends without a commit: PostgreSQL drops its locks.   *)
Dropped(c) ==
    /\ laneLock' = IF laneLock = c THEN NoCaller ELSE laneLock
    /\ runLock' = [r \in RunIds |-> IF runLock[r] = c THEN NoCaller ELSE runLock[r]]
    /\ caller' = [caller EXCEPT ![c] = Idle]
    /\ UNCHANGED <<laneClock, lane, runs, told>>

(* The two transactions lock the rows in opposite orders, so a completion  *)
(* and the takeover of the same run can wait for each other; PostgreSQL    *)
(* aborts either, and the error leaves run_lane and ends the pass.         *)
Deadlocked(closer, taker) ==
    /\ At(closer, "settling") /\ laneLock = taker
    /\ At(taker, "leasing")
    /\ runs[caller[closer].run] = "running"

AbortOne(closer, taker) ==
    /\ Deadlocked(closer, taker)
    /\ Dropped(closer) \/ Dropped(taker)

(* The process stops, or cannot reach the store.                           *)
StopCaller(c) == ~At(c, "idle") /\ Dropped(c)

LaneNext ==
    \/ LaneTick
    \/ \E c \in Callers, force \in BOOLEAN : Ask(c, force)
    \/ \E c \in Callers : Decline(c) \/ LockLane(c) \/ TakeLane(c)
    \/ \E c \in Callers, outcome \in Outcomes : EndWork(c, outcome)
    \/ \E c \in Callers : CheckToken(c) \/ LockRun(c) \/ Settle(c)
    \/ \E closer, taker \in Callers : AbortOne(closer, taker)
    \/ \E c \in Callers : StopCaller(c)

LaneSpec == LaneInit /\ [][LaneNext]_laneVars

--------------------------------------------------------------------------------

(* What a caller was told is what the ledger says: a completion that was   *)
(* accepted is on its run's row for good, and one that was refused left no *)
(* outcome but the reconciliation's, whatever the two transactions of a    *)
(* takeover and a late completion do to each other.                        *)
AnswerMatchesRecord ==
    \A r \in RunIds :
        /\ told[r] \in Outcomes => runs[r] = told[r]
        /\ told[r] = "refused" => runs[r] \in {"running", "failure"}

(* automation.py's header: a worker whose lease expired cannot overwrite   *)
(* the result of the dispatcher that took over. The run a takeover closed  *)
(* as a failure stays one.                                                 *)
TakeoverStands ==
    [][\A r \in RunIds : runs[r] = "failure" => runs'[r] = "failure"]_runs

================================================================================
