----------------------------- MODULE ThesisMonitor -----------------------------
(***************************************************************************)
(* The thesis monitor (alerts/thesis_monitor.go, routes_extra.go): a sweep *)
(* compares every live thesis with the last stored bar, marks the stale    *)
(* ones and queues a re-synthesis job for each; workers lease the jobs and *)
(* acknowledge them. Markers, queue and the count of dropped jobs live in  *)
(* memory and are written together; a failed write is only logged.         *)
(*                                                                         *)
(* All theses are on one ticker. A price is an integer, a time a day.      *)
(***************************************************************************)
EXTENDS Integers, Sequences, FiniteSets, SequencesExt

CONSTANTS
    Theses, Workers,
    Sweepers,       \* the loop, and the operator's tick, which may overlap it
    Prices,         \* closes of the stored bars
    CatalystsDue,   \* the times the theses' catalysts come due
    QueueMax,       \* monitorQueueMax
    MaxAttempts,    \* monitorResynthMaxAttempts
    LeaseTime,      \* monitorResynthLease
    RetryDelay,     \* monitorResynthRetryDelay
    MonitorFaults,  \* "persist": a write that fails; "load": a start that cannot read
    MaxNow, MaxTicks, MaxLeases, MaxReviews, MaxKills   \* bounds

ASSUME MonitorAssumption ==
    /\ MonitorFaults \subseteq {"persist", "load"}
    /\ {QueueMax, MaxAttempts, LeaseTime, RetryDelay} \subseteq Nat \ {0}
    /\ Prices \cup CatalystsDue \subseteq Nat \ {0}
    /\ {MaxNow, MaxTicks, MaxLeases, MaxReviews, MaxKills} \subseteq Nat

\* What fired: the two prices of a move, or how many catalysts came due.
Fresh == [what |-> "nothing"]
Move(from, to) == [what |-> "move", from |-> from, to |-> to]
Catalysts(n) == [what |-> "catalysts", n |-> n]

NoMarker == [what |-> "none"]
Resting == [phase |-> "rest"]
NoLease == [token |-> 0]
Silent == <<<<0, Fresh>>, <<0, Fresh>>>>

VARIABLES
    now,
    bar,        \* the last stored bar: [ts, px]
    reviewed,   \* journal: when the user last reviewed each thesis
    markers,    \* memory: thesis -> ThesisMarker
    queue,      \* memory: the jobs, oldest first
    dropped,    \* memory: jobs pushed out of the queue (the code keeps their number)
    disk,       \* durable: the three of them, as last written
    sweep,      \* what each sweep has read, and where it is
    holds,      \* what each worker was leased
    ticks, leases, kills,   \* bounds
    acked,      \* history: <<job, worker>> whose completion was acknowledged
    requeued,   \* history: jobs that were queued again after a worker had been given them
    pinged,     \* history: the last two notifications of each thesis since the start
    overlapped, \* history: two sweeps ran at once
    cut         \* history: a write failed, or a start found a marker whose job was not queued yet

queueVars == <<queue, dropped, holds, leases, acked, requeued>>
worldVars == <<now, bar, reviewed>>
monitorVars == <<now, bar, reviewed, markers, queue, dropped, disk, sweep, holds,
                 ticks, leases, kills, acked, requeued, pinged, overlapped, cut>>

-----------------------------------------------------------------------------
(* The comparison *)

Moved(from, to) == 20 * (IF to > from THEN to - from ELSE from - to) >= from

DueSince(after, upTo) == Cardinality({at \in CatalystsDue : after < at /\ at =< upTo})

\* baselineFor: none before the first sighting, nor after a review since.
HasBaseline(marker, reviewedAt) == marker # NoMarker /\ reviewedAt =< marker.baseAt

Condition(marker, point) ==
    IF Moved(marker.basePx, point.px) THEN Move(marker.basePx, point.px)
    ELSE IF DueSince(marker.baseAt, point.ts) > 0 THEN Catalysts(DueSince(marker.baseAt, point.ts))
    ELSE Fresh

Baseline(point) ==
    [what |-> "marker", stale |-> FALSE, fired |-> Fresh, asOf |-> point.ts, px |-> point.px,
     baseAt |-> point.ts, basePx |-> point.px]

Stale(marker, point) ==
    [marker EXCEPT !.stale = TRUE, !.fired = Condition(marker, point),
                   !.asOf = point.ts, !.px = point.px]

\* Mutant: a condition that still holds fires at every sweep.
NewsEverySweep(marker, point) == Condition(marker, point) # Fresh

\* Edge-triggered: LastFired is what was said last.
News(marker, point) == Condition(marker, point) \notin {Fresh, marker.fired}

\* Mutant: the id of a job says which condition fired, and not on which bar.
JobIdWithoutBar(t, fired, asOf) == <<t, fired, 0>>

JobId(t, fired, asOf) == <<t, fired, asOf>>

-----------------------------------------------------------------------------
(* Memory and disk *)

\* `torn` is history: some marker of it was put and its job not queued yet.
Memory == [markers |-> markers, queue |-> queue, dropped |-> dropped,
           torn |-> \E s \in Sweepers : sweep[s].phase = "queue"]

\* persistLocked writes all of it; an error is logged and nothing else.
PersistAll ==
    \/ disk' = Memory' /\ UNCHANGED cut
    \/ "persist" \in MonitorFaults /\ cut' = TRUE /\ UNCHANGED disk

-----------------------------------------------------------------------------
(* A sweep: Tick *)

\* fetchTheses; a journal that does not answer is a sweep that did not start.
FetchTheses(s) ==
    /\ sweep[s] = Resting /\ ticks < MaxTicks
    /\ ticks' = ticks + 1
    /\ sweep' = [sweep EXCEPT ![s] = [phase |-> "bars", reviewed |-> reviewed]]
    /\ overlapped' = (overlapped \/ \E o \in Sweepers \ {s} : sweep[o] # Resting)
    /\ UNCHANGED <<worldVars, queueVars, markers, disk, kills, pinged, cut>>

\* lastStoredBar.
ReadBar(s) ==
    /\ sweep[s].phase = "bars"
    /\ sweep' = [sweep EXCEPT ![s] = [phase |-> "judge", reviewed |-> @.reviewed, bar |-> bar,
                                      todo |-> Theses, thesis |-> NoMarker, marker |-> NoMarker]]
    /\ UNCHANGED <<worldVars, queueVars, markers, disk, ticks, kills, pinged, overlapped, cut>>

At(s, phase) == sweep[s].phase = phase
Turn(s, phase) == [sweep EXCEPT ![s].phase = phase]

\* evaluateThesis: a first sighting, or one after a review, only sets the baseline.
Judge(s) ==
    /\ At(s, "judge")
    /\ \E t \in sweep[s].todo :
        LET marker == markers[t]
            point == sweep[s].bar
            rest == [sweep[s] EXCEPT !.todo = @ \ {t}]
        IN  \/ /\ ~HasBaseline(marker, sweep[s].reviewed[t])
               /\ markers' = [markers EXCEPT ![t] = Baseline(point)]
               /\ sweep' = [sweep EXCEPT ![s] = rest]
            \/ /\ HasBaseline(marker, sweep[s].reviewed[t])
               /\ sweep' = [sweep EXCEPT ![s] =
                    IF News(marker, point)
                    THEN [rest EXCEPT !.phase = "put", !.thesis = t, !.marker = Stale(marker, point)]
                    ELSE rest]
               /\ UNCHANGED markers
    /\ UNCHANGED <<worldVars, queueVars, disk, ticks, kills, pinged, overlapped, cut>>

\* putMarker.
PutMarker(s) ==
    /\ At(s, "put")
    /\ markers' = [markers EXCEPT ![sweep[s].thesis] = sweep[s].marker]
    /\ sweep' = Turn(s, "queue")
    /\ UNCHANGED <<worldVars, queueVars, disk, ticks, kills, pinged, overlapped, cut>>

NewJob(id, asOf) ==
    [id |-> id, asOf |-> asOf, state |-> "queued", attempts |-> 0, until |-> 0, token |-> 0, failedAt |-> 0]

\* The jobs that a worker has, or had acknowledged.
GivenOut == {holds[w].id : w \in {v \in Workers : holds[v] # NoLease}} \cup {a[1] : a \in acked}

\* How many of the oldest jobs the full queue drops.
Overflow(jobs) == IF Len(jobs) > QueueMax THEN Len(jobs) - QueueMax ELSE 0

\* enqueue, emit: a job that is in the queue already, in whatever state, is not queued again; the
\* thesis is notified of in any case.
Enqueue(s) ==
    /\ At(s, "queue")
    /\ LET t == sweep[s].thesis
           marker == sweep[s].marker
           id == JobId(t, marker.fired, marker.asOf)
           grown == Append(queue, NewJob(id, marker.asOf))
           drop == Overflow(grown)
       IN  /\ IF \E i \in DOMAIN queue : queue[i].id = id
              THEN UNCHANGED <<queue, dropped, requeued>>
              ELSE /\ queue' = SubSeq(grown, drop + 1, Len(grown))
                   /\ dropped' = dropped \cup {grown[i].id : i \in 1 .. drop}
                   /\ requeued' = requeued \cup {j \in GivenOut : j = id}
           /\ pinged' = [pinged EXCEPT ![t] = <<@[2], <<marker.baseAt, marker.fired>> >>]
    /\ sweep' = Turn(s, "judge")
    /\ UNCHANGED <<worldVars, markers, disk, holds, leases, acked, ticks, kills, overlapped, cut>>

FinishTick(s) ==
    /\ At(s, "judge") /\ sweep[s].todo = {}
    /\ sweep' = [sweep EXCEPT ![s] = Resting]
    /\ UNCHANGED <<worldVars, queueVars, markers, ticks, kills, pinged, overlapped>>
    /\ PersistAll

-----------------------------------------------------------------------------
(* The workers *)

\* A failed job is queued afresh after a day.
Rested(job) ==
    IF job.state = "failed" /\ job.failedAt > 0 /\ job.failedAt + RetryDelay =< now
    THEN [job EXCEPT !.state = "queued", !.attempts = 0, !.failedAt = 0] ELSE job

Eligible(job) == job.state = "queued" \/ (job.state = "processing" /\ 0 < job.until /\ job.until =< now)

Exhausted(job) == [job EXCEPT !.state = "failed", !.failedAt = now, !.until = 0, !.token = 0]

Claimed(job) ==
    [job EXCEPT !.state = "processing", !.attempts = @ + 1, !.until = now + LeaseTime,
                !.token = leases + 1]

\* LeaseResynth: the oldest eligible job that has attempts left; those before it are tidied up.
\* It writes the state in any case, a sweep's half-way one too.
LeaseResynth(w) ==
    /\ holds[w] = NoLease /\ leases < MaxLeases
    /\ LET rested == [i \in DOMAIN queue |-> Rested(queue[i])]
           free == {i \in DOMAIN queue : Eligible(rested[i]) /\ rested[i].attempts < MaxAttempts}
           first == CHOOSE i \in free \cup {Len(queue) + 1} : \A j \in free : i =< j
       IN  /\ queue' = [i \in DOMAIN queue |->
                          IF i > first THEN queue[i]
                          ELSE IF i = first THEN Claimed(rested[i])
                          ELSE IF Eligible(rested[i]) THEN Exhausted(rested[i]) ELSE rested[i]]
           /\ IF free = {} THEN UNCHANGED <<holds, leases>>
              ELSE /\ holds' = [holds EXCEPT ![w] = [token |-> leases + 1, id |-> queue[first].id,
                                                     until |-> now + LeaseTime]]
                   /\ leases' = leases + 1
    /\ UNCHANGED <<worldVars, markers, dropped, sweep, ticks, kills, acked, requeued, pinged, overlapped>>
    /\ PersistAll

\* Mutant: the job is known by its id alone.
IsLeaseOfId(job, lease) == job.id = lease.id

IsLeaseOf(job, lease) == job.id = lease.id /\ job.token = lease.token

\* A completed re-synthesis moves the baseline to what it looked at.
Rebased(marker) ==
    [marker EXCEPT !.stale = FALSE, !.baseAt = marker.asOf, !.basePx = marker.px, !.fired = Fresh]

Held(w) == {i \in DOMAIN queue : IsLeaseOf(queue[i], holds[w])}

\* CompleteResynth: a replay of a completion is acknowledged again.
CompleteResynth(w) ==
    /\ holds[w] # NoLease
    /\ \E i \in Held(w) :
        \/ /\ queue[i].state = "completed"
           /\ acked' = acked \cup {<<queue[i].id, w>>}
           /\ UNCHANGED <<queue, markers, disk, cut>>
        \/ /\ queue[i].state = "processing"
           /\ queue' = [queue EXCEPT ![i].state = "completed", ![i].until = 0]
           /\ acked' = acked \cup {<<queue[i].id, w>>}
           /\ LET t == queue[i].id[1]
                  rebase == markers[t] # NoMarker /\ markers[t].stale /\ markers[t].asOf = queue[i].asOf
              IN  markers' = IF rebase THEN [markers EXCEPT ![t] = Rebased(@)] ELSE markers
           /\ UNCHANGED <<dropped, sweep>>
           /\ PersistAll
    /\ \/ holds' = [holds EXCEPT ![w] = NoLease]
       \/ UNCHANGED holds       \* the answer is lost, and the worker sends it again
    /\ UNCHANGED <<worldVars, dropped, leases, requeued, sweep, ticks, kills, pinged, overlapped>>

\* A failure goes back to the queue until the attempts are used up.
FailResynth(w) ==
    /\ holds[w] # NoLease
    /\ \E i \in Held(w) :
        /\ queue[i].state = "processing"
        /\ queue' = [queue EXCEPT ![i] =
             IF @.attempts >= MaxAttempts THEN Exhausted(@)
             ELSE [@ EXCEPT !.state = "queued", !.until = 0, !.token = 0]]
    /\ holds' = [holds EXCEPT ![w] = NoLease]
    /\ UNCHANGED <<worldVars, markers, dropped, leases, acked, requeued, sweep, ticks, kills, pinged, overlapped>>
    /\ PersistAll

\* The worker gives up, dies, or is told that its lease is not the job's any more.
Abandon(w) ==
    /\ holds[w] # NoLease
    /\ holds' = [holds EXCEPT ![w] = NoLease]
    /\ UNCHANGED <<worldVars, markers, queue, dropped, leases, acked, requeued, disk, sweep, ticks,
                   kills, pinged, overlapped, cut>>

-----------------------------------------------------------------------------
(* The world *)

\* A new bar is stored, dated by its day.
NextDay ==
    /\ now < MaxNow
    /\ now' = now + 1
    /\ \/ \E px \in Prices : bar' = [ts |-> now', px |-> px]
       \/ UNCHANGED bar
    /\ UNCHANGED <<reviewed, queueVars, markers, disk, sweep, ticks, kills, pinged,
                   overlapped, cut>>

\* The user reviews a thesis in the journal, at the last bar.
ReviewThesis(t) ==
    /\ Cardinality({u \in Theses : reviewed[u] > 0}) < MaxReviews
    /\ reviewed' = [reviewed EXCEPT ![t] = now]
    /\ UNCHANGED <<now, bar, queueVars, markers, disk, sweep, ticks, kills, pinged, overlapped, cut>>

\* The process stops and starts again from the disk, which it may fail to read.
RestartMonitor ==
    /\ kills < MaxKills
    /\ kills' = kills + 1
    /\ \/ markers' = disk.markers /\ queue' = disk.queue /\ dropped' = disk.dropped
       \/ "load" \in MonitorFaults
          /\ markers' = [t \in Theses |-> NoMarker] /\ queue' = <<>> /\ dropped' = {}
    /\ sweep' = [s \in Sweepers |-> Resting]
    /\ cut' = (cut \/ disk.torn)
    /\ pinged' = [t \in Theses |-> Silent]
    /\ UNCHANGED <<worldVars, disk, holds, leases, acked, requeued, ticks, overlapped>>

MonitorInit ==
    /\ now = 1 /\ bar \in {[ts |-> 1, px |-> px] : px \in Prices}
    /\ reviewed = [t \in Theses |-> 0]
    /\ markers = [t \in Theses |-> NoMarker] /\ queue = <<>> /\ dropped = {}
    /\ sweep = [s \in Sweepers |-> Resting] /\ disk = Memory
    /\ holds = [w \in Workers |-> NoLease]
    /\ ticks = 0 /\ leases = 0 /\ kills = 0
    /\ acked = {} /\ requeued = {} /\ pinged = [t \in Theses |-> Silent] /\ overlapped = FALSE /\ cut = FALSE

MonitorNext ==
    \/ \E s \in Sweepers : \/ FetchTheses(s) \/ ReadBar(s) \/ Judge(s) \/ PutMarker(s)
                           \/ Enqueue(s) \/ FinishTick(s)
    \/ \E w \in Workers : LeaseResynth(w) \/ CompleteResynth(w) \/ FailResynth(w) \/ Abandon(w)
    \/ NextDay \/ RestartMonitor
    \/ \E t \in Theses : ReviewThesis(t)

MonitorSpec == MonitorInit /\ [][MonitorNext]_monitorVars

-----------------------------------------------------------------------------
(* Properties *)

(***************************************************************************)
(* A job is one worker's: while a lease runs no other worker is given the  *)
(* job (thesis_monitor.go:546), and when it has run out and the job was    *)
(* claimed again the first worker's answer is refused (thesis_monitor.go:  *)
(* 549), so that only one is told its work counts, unless a write of the   *)
(* queue failed or the job was queued again. Only sweeps that overlap      *)
(* queue a job again.                                                      *)
(***************************************************************************)
Runs(w) == holds[w] # NoLease /\ holds[w].until > now

JobIsOneWorkers ==
    ~cut =>
        /\ \A v, w \in Workers : v # w /\ Runs(v) /\ Runs(w) /\ holds[v].id = holds[w].id =>
              holds[v].id \in requeued
        /\ \A a, b \in acked : a[1] = b[1] => a = b \/ a[1] \in requeued
        /\ requeued = {} \/ overlapped

(***************************************************************************)
(* "When a thesis goes stale this service writes a marker and a            *)
(* re-synthesis job" (thesis_monitor.go:26): a thesis that is marked stale *)
(* has a job that is not done, or had one that the full queue dropped.     *)
(* Two sweeps that overlap and a stop between the two writes are excepted. *)
(***************************************************************************)
StaleIsQueued ==
    \A t \in Theses :
        markers[t] # NoMarker /\ markers[t].stale =>
            LET id == JobId(t, markers[t].fired, markers[t].asOf)
            IN  \/ \E i \in DOMAIN queue : queue[i].id = id /\ queue[i].state # "completed"
                \/ id \in dropped
                \/ \E s \in Sweepers : sweep[s].phase = "queue" /\ sweep[s].thesis = t
                \/ overlapped \/ cut

(***************************************************************************)
(* "A condition that is still true from last tick does not fire again"     *)
(* (thesis_monitor.go:42): no thesis is notified twice in a row of the     *)
(* same condition since the same baseline, except by sweeps that overlap.  *)
(***************************************************************************)
NotifiedOnce ==
    \A t \in Theses : pinged[t][1] = pinged[t][2] => pinged[t] = Silent \/ overlapped

(***************************************************************************)
(* What a sweep finds is acted on, and once: both of the above.            *)
(***************************************************************************)
StaleIsSeenOnce == StaleIsQueued /\ NotifiedOnce

=============================================================================
