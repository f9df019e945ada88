------------------------------ MODULE ModelLease ------------------------------
(***************************************************************************)
(* The model lease of services/llm/app/lease.py and the three kinds of     *)
(* process that take it: an interactive request (analyst.py, smoke.py), the *)
(* enrichment pass of enrich_worker.py and the re-synthesis pass of         *)
(* thesis_resynth.py. The flock is what excludes; the marker file is how a  *)
(* person's request asks the background passes to stop.                     *)
(*                                                                          *)
(* There is no clock: a marker that is not refreshed may pass its thirty    *)
(* seconds at any moment, a cooldown and a queue lease may end at any       *)
(* moment. A pass stops for good when its process does.                     *)
(***************************************************************************)
EXTENDS Naturals, FiniteSets

CONSTANTS People,      \* interactive requests
          Enrichers,   \* enrichment passes
          Resynths,    \* re-synthesis passes
          RawEvents,   \* the events of the raw queue
          Jobs,        \* the re-synthesis jobs, one per thesis
          MaxPasses    \* bound on the passes begun and the requests made

Background == Enrichers \cup Resynths
Nobody == "nobody"
NoItem == "none"

ASSUME ModelAssumption ==
    /\ Enrichers \cap Resynths = {} /\ People \cap Background = {}
    /\ Nobody \notin People \cup Background /\ NoItem \notin Jobs

VARIABLES flock,     \* who holds the lock on .model.lock
          marker,    \* .model.lock.interactive: its state, and whether it is recent
          person,    \* where each request is
          worker,    \* where each pass is, its item, what it has left, its attempt
          enriched,  \* the events that have their enrichment
          job,       \* the queue of services/alerts
          thesis,    \* the theses of services/journal
          begun      \* history: what has begun in the background since a request announced itself

modelVars == <<flock, marker, person, worker, enriched, job, thesis, begun>>

Rest == [pc |-> "idle", item |-> NoItem, left |-> {}, tries |-> 0]

ModelInit ==
    /\ flock = Nobody
    /\ marker = [state |-> "none", recent |-> FALSE]
    /\ person = [p \in People |-> "idle"]
    /\ worker = [w \in Background |-> Rest]
    /\ enriched = {}
    /\ job = [j \in Jobs |-> [state |-> "queued", holder |-> Nobody, lapsed |-> FALSE]]
    /\ thesis = [j \in Jobs |-> [active |-> TRUE, checks |-> 0]]
    /\ begun = [items |-> 0, passes |-> 0]

(* interactive_active() and interactive_cooldown_remaining().              *)
Active == marker.state \in {"waiting", "held"} /\ marker.recent
Cooling == marker.state = "released" /\ marker.recent

(* A write of the marker. The history forgets what began before the first  *)
(* request that is asking.                                                 *)
Marks(state) ==
    /\ marker' = [state |-> state, recent |-> TRUE]
    /\ begun' = IF Active /\ state # "released" THEN begun
                ELSE [begun EXCEPT !.items = 0]

--------------------------------------------------------------------------------
(* The interactive requests.                                               *)

Announce(p) ==
    /\ person[p] = "idle" /\ begun.passes < MaxPasses
    /\ person' = [person EXCEPT ![p] = "waiting"]
    /\ marker' = [state |-> "waiting", recent |-> TRUE]
    /\ begun' = IF Active THEN [begun EXCEPT !.passes = @ + 1]
                ELSE [items |-> 0, passes |-> begun.passes + 1]
    /\ UNCHANGED <<flock, worker, enriched, job, thesis>>

TakeFlock(p) ==
    /\ person[p] = "waiting" /\ flock = Nobody
    /\ flock' = p
    /\ person' = [person EXCEPT ![p] = "locked"]
    /\ UNCHANGED <<marker, worker, enriched, job, thesis, begun>>

(* The holder says so, and goes on saying so from its heartbeat thread.    *)
MarkHeld(p) ==
    /\ person[p] \in {"locked", "held"}
    /\ person' = [person EXCEPT ![p] = "held"]
    /\ Marks("held")
    /\ UNCHANGED <<flock, worker, enriched, job, thesis>>

MarkReleased(p) ==
    /\ person[p] = "held"
    /\ person' = [person EXCEPT ![p] = "leaving"]
    /\ Marks("released")
    /\ UNCHANGED <<flock, worker, enriched, job, thesis>>

ReleaseFlock(p) ==
    /\ person[p] = "leaving"
    /\ person' = [person EXCEPT ![p] = "idle"]
    /\ flock' = Nobody
    /\ UNCHANGED <<marker, worker, enriched, job, thesis, begun>>

(* The process of a request dies: the kernel drops its lock, the marker    *)
(* stays.                                                                  *)
KillPerson(p) ==
    /\ person[p] # "idle"
    /\ person' = [person EXCEPT ![p] = "idle"]
    /\ flock' = IF flock = p THEN Nobody ELSE flock
    /\ UNCHANGED <<marker, worker, enriched, job, thesis, begun>>

(* The marker grows old: a `held` one only when its holder is no longer    *)
(* there to refresh it, a `waiting` one whenever the wait is long.         *)
MarkerAges ==
    /\ marker.recent
    /\ marker.state = "held" => \A p \in People : person[p] # "held"
    /\ marker' = [marker EXCEPT !.recent = FALSE]
    /\ begun' = [begun EXCEPT !.items = 0]
    /\ UNCHANGED <<flock, person, worker, enriched, job, thesis>>

--------------------------------------------------------------------------------
(* acquire_background() and what runs under it, for both kinds of pass.    *)

Step(w, pc) == worker' = [worker EXCEPT ![w].pc = pc]

(* Where a pass goes when it may not have the model: the enrichment pass   *)
(* stops, the re-synthesis pass gives its job back first.                  *)
Refused(w) == IF w \in Enrichers THEN worker' = [worker EXCEPT ![w] = Rest]
              ELSE Step(w, "returning")

AskModel(w) ==
    /\ worker[w].pc = "asking"
    /\ IF Active \/ Cooling THEN Refused(w) ELSE Step(w, "locking")
    /\ UNCHANGED <<flock, marker, person, enriched, job, thesis, begun>>

TryFlock(w) ==
    /\ worker[w].pc = "locking"
    /\ IF flock = Nobody THEN flock' = w /\ Step(w, "locked")
       ELSE Refused(w) /\ UNCHANGED flock
    /\ UNCHANGED <<marker, person, enriched, job, thesis, begun>>

\* Mutant: nothing is asked again once the lock is held.
GivesWayNever == FALSE

(* The marker is read again under the lock, and once more by check().      *)
GivesWay == Active

Recheck(w) ==
    /\ worker[w].pc \in {"locked", "checked"}
    /\ IF GivesWay THEN flock' = Nobody /\ Refused(w)
       ELSE Step(w, IF worker[w].pc = "locked" THEN "checked" ELSE "clear") /\ UNCHANGED flock
    /\ UNCHANGED <<marker, person, enriched, job, thesis, begun>>

(* A generation starts. The first of an item follows check() at once; the  *)
(* firmer retry of an item follows its first answer with no other look.    *)
Generate(w) ==
    /\ worker[w].pc = "clear"
    /\ worker' = [worker EXCEPT ![w].pc = "generating", ![w].tries = @ + 1]
    /\ begun' = IF ~Active THEN begun
                ELSE [begun EXCEPT !.items = IF worker[w].tries = 0 THEN @ + 1 ELSE @]
    /\ UNCHANGED <<flock, marker, person, enriched, job, thesis>>

RetryFirmer(w) ==
    /\ worker[w].pc = "generating" /\ worker[w].tries = 1
    /\ Step(w, "clear")
    /\ UNCHANGED <<flock, marker, person, enriched, job, thesis, begun>>

(* The lease is released with the item's generations: with an answer to    *)
(* deliver, or with none (a stub, a refusal, nothing new).                 *)
Generated(w) ==
    /\ worker[w].pc = "generating"
    /\ flock' = Nobody
    /\ \E next \in {"delivering", IF w \in Enrichers THEN "between" ELSE "returning"} :
          worker' = [worker EXCEPT ![w].pc = next, ![w].tries = 0]
    /\ UNCHANGED <<marker, person, enriched, job, thesis, begun>>

--------------------------------------------------------------------------------
(* The enrichment pass.                                                    *)

BeginEnrich(w) ==
    /\ worker[w].pc = "idle" /\ begun.passes < MaxPasses
    /\ worker' = [worker EXCEPT ![w] = [Rest EXCEPT !.pc = "next", !.left = RawEvents \ enriched]]
    /\ begun' = [begun EXCEPT !.passes = @ + 1]
    /\ UNCHANGED <<flock, marker, person, enriched, job, thesis>>

(* The next candidate, read at its cutoff; an events service that does not *)
(* answer ends the pass, and so does the end of the queue.                 *)
NextEvent(w) ==
    /\ worker[w].pc = "next"
    /\ \/ \E v \in worker[w].left :
             worker' = [worker EXCEPT ![w].pc = "asking", ![w].item = v, ![w].left = @ \ {v}]
       \/ worker' = [worker EXCEPT ![w] = Rest]
    /\ UNCHANGED <<flock, marker, person, enriched, job, thesis, begun>>

(* The post: applied and answered, refused, or lost on either way; only a  *)
(* lost one ends the pass.                                                 *)
PostEnrichment(w) ==
    /\ worker[w].pc = "delivering"
    /\ \/ enriched' = enriched \cup {worker[w].item} /\ Step(w, "between")
       \/ UNCHANGED enriched /\ Step(w, "between")
       \/ /\ enriched' \in {enriched, enriched \cup {worker[w].item}}
          /\ worker' = [worker EXCEPT ![w] = Rest]
    /\ UNCHANGED <<flock, marker, person, job, thesis, begun>>

BetweenEvents(w) ==
    /\ worker[w].pc = "between"
    /\ worker' = IF Active THEN [worker EXCEPT ![w] = Rest]
                 ELSE [worker EXCEPT ![w].pc = "next", ![w].item = NoItem]
    /\ UNCHANGED <<flock, marker, person, enriched, job, thesis, begun>>

--------------------------------------------------------------------------------
(* The re-synthesis pass.                                                  *)

LeaseJob(w, j) ==
    /\ worker[w].pc = "idle" /\ begun.passes < MaxPasses
    /\ job[j].state = "queued"
    /\ job' = [job EXCEPT ![j].state = "leased", ![j].holder = w]
    /\ worker' = [worker EXCEPT ![w] = [Rest EXCEPT !.pc = "reading", !.item = j]]
    /\ begun' = [begun EXCEPT !.passes = @ + 1]
    /\ UNCHANGED <<flock, marker, person, enriched, thesis>>

(* The queue's lease runs out and the job may be leased again. The history *)
(* remembers when its holder was still at work.                            *)
JobLapses(j) ==
    /\ job[j].state = "leased"
    /\ job' = [job EXCEPT ![j].state = "queued", ![j].holder = Nobody,
                          ![j].lapsed = @ \/ worker[job[j].holder].item = j]
    /\ UNCHANGED <<flock, marker, person, worker, enriched, thesis, begun>>

\* Mutant: a job is worked on whatever the thesis already has.
SettledUnread(j) == ~thesis[j].active

(* _already_applied, and a thesis that is no longer active: the job is     *)
(* acknowledged without a generation.                                      *)
Settled(j) == ~thesis[j].active \/ thesis[j].checks > 0

ReadThesis(w) ==
    /\ worker[w].pc = "reading"
    /\ \/ Step(w, IF Settled(worker[w].item) THEN "acking" ELSE "asking")
       \/ Step(w, "returning")     \* no claim, no facts, or no answer
    /\ UNCHANGED <<flock, marker, person, enriched, job, thesis, begun>>

(* A write that failed, or whose answer was lost, sends the job back.      *)
AfterPut(answered) == IF answered THEN "acking" ELSE "returning"

PutCheck(w) ==
    LET j == worker[w].item
        kept == [thesis EXCEPT ![j].checks = @ + 1] IN
    /\ worker[w].pc = "delivering"
    /\ \E answered \in BOOLEAN :
          /\ thesis' \in IF answered THEN {kept} ELSE {thesis, kept}
          /\ Step(w, AfterPut(answered))
    /\ UNCHANGED <<flock, marker, person, enriched, job, begun>>

(* The acknowledgement needs the lease. One that cannot be delivered is    *)
(* followed by an attempt to give the job back; one that is refused ends   *)
(* the pass.                                                               *)
AckJob(w) ==
    LET j == worker[w].item
        mine == job[j].state = "leased" /\ job[j].holder = w
        done == [job EXCEPT ![j].state = "done", ![j].holder = Nobody] IN
    /\ worker[w].pc = "acking"
    /\ \/ job' = (IF mine THEN done ELSE job) /\ worker' = [worker EXCEPT ![w] = Rest]
       \/ job' \in {job, IF mine THEN done ELSE job} /\ Step(w, "returning")
    /\ UNCHANGED <<flock, marker, person, enriched, thesis, begun>>

ReturnJob(w) ==
    LET j == worker[w].item IN
    /\ worker[w].pc = "returning"
    /\ job' \in {job, IF job[j].state = "leased" /\ job[j].holder = w
                      THEN [job EXCEPT ![j].state = "queued", ![j].holder = Nobody] ELSE job}
    /\ worker' = [worker EXCEPT ![w] = Rest]
    /\ UNCHANGED <<flock, marker, person, enriched, thesis, begun>>

(* The thesis is closed meanwhile.                                         *)
CloseThesis(j) ==
    /\ thesis[j].active
    /\ thesis' = [thesis EXCEPT ![j].active = FALSE]
    /\ UNCHANGED <<flock, marker, person, worker, enriched, job, begun>>

KillWorker(w) ==
    /\ worker[w].pc # "idle"
    /\ worker' = [worker EXCEPT ![w] = Rest]
    /\ flock' = IF flock = w THEN Nobody ELSE flock
    /\ UNCHANGED <<marker, person, enriched, job, thesis, begun>>

ModelNext ==
    \/ \E p \in People : \/ Announce(p) \/ TakeFlock(p) \/ MarkHeld(p)
                         \/ MarkReleased(p) \/ ReleaseFlock(p) \/ KillPerson(p)
    \/ MarkerAges
    \/ \E w \in Background : \/ AskModel(w) \/ TryFlock(w) \/ Recheck(w) \/ Generate(w)
                             \/ RetryFirmer(w) \/ Generated(w) \/ KillWorker(w)
    \/ \E w \in Enrichers : BeginEnrich(w) \/ NextEvent(w) \/ PostEnrichment(w) \/ BetweenEvents(w)
    \/ \E w \in Resynths : ReadThesis(w) \/ PutCheck(w) \/ AckJob(w) \/ ReturnJob(w)
    \/ \E w \in Resynths, j \in Jobs : LeaseJob(w, j)
    \/ \E j \in Jobs : JobLapses(j) \/ CloseThesis(j)

ModelSpec == ModelInit /\ [][ModelNext]_modelVars

--------------------------------------------------------------------------------

(* While a request's marker is recent, the background begins no more than  *)
(* the one item that had already been cleared when the request announced   *)
(* itself, however many passes there are.                                  *)
YieldsToPeople == Active => begun.items <= 1

(* A stale thesis is checked exactly once. A job that was acknowledged is  *)
(* on its thesis, unless the thesis was closed; and one that comes back    *)
(* after a stop, a lost answer or a refusal is not generated again when    *)
(* its check is there: only a worker that outlives its own lease can write *)
(* a second.                                                               *)
CheckedExactlyOnce ==
    \A j \in Jobs :
        /\ job[j].state = "done" => ~thesis[j].active \/ thesis[j].checks > 0
        /\ thesis[j].checks > 1 => job[j].lapsed

================================================================================
