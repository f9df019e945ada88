----------------------------- MODULE TradeJournal -----------------------------
(***************************************************************************)
(* The user's trade journal (journal/store.go, store_postgres.go,          *)
(* trades.go, handlers.go): one user's trades, in PostgreSQL (a row each)  *)
(* or in one file behind a cache. A PATCH reads the trade, merges what the *)
(* request carries and replaces the whole record, in two calls of the      *)
(* store. The first start on PostgreSQL imports the old file.              *)
(*                                                                         *)
(* A trade is whether it has an exit and what is planned for it (stop,     *)
(* target, thesis, tags... as one value); its status derives from the exit.*)
(***************************************************************************)
EXTENDS Integers, FiniteSets

CONSTANTS
    OldTrades,      \* the trades of the file that is there before the first start
    NewTrades,      \* ids newID may hand out
    Callers,        \* requests in flight: the user's tabs, the paper engine
    Plans, BadPlan, \* what a request may plan; BadPlan does not pass validateTrade
    MaxWrites, MaxTradeFaults, MaxTradeStops    \* bounds

ASSUME TradeJournalAssumption ==
    /\ OldTrades \cap NewTrades = {}
    /\ BadPlan \in Plans
    /\ {MaxWrites, MaxTradeFaults, MaxTradeStops} \subseteq Nat

Ids == OldTrades \cup NewTrades
Trade == [exit : BOOLEAN, plan : Plans]
NoTrade == [plan |-> "none"]
OldTrade == [exit |-> FALSE, plan |-> CHOOSE p \in Plans : p # BadPlan]
OldFile == [id \in Ids |-> IF id \in OldTrades THEN OldTrade ELSE NoTrade]
NotCached == [id \in {} |-> NoTrade]
Idle == [step |-> "idle"]

VARIABLES
    backend,    \* "file" or "postgres", for the whole life of the deployment
    stored,     \* durable: {uid}/trades.json, or the rows of the trades table
    imported,   \* durable: the marker in legacy_imports
    cached,     \* memory, files: the user's slice, or NotCached
    serving,    \* the process is up
    calls,      \* what each caller's request has read
    writes, tradeFaults, tradeStops,   \* bounds
    told,       \* history: what a trade may be, going by the answers
    gone,       \* history: the trades whose delete was acknowledged
    closed,     \* history: the trades whose exit was acknowledged
    crossed     \* history: the trades replaced by a PATCH that had read an older record

tradeVars == <<backend, stored, imported, cached, serving, calls, writes, tradeFaults,
               tradeStops, told, gone, closed, crossed>>

-----------------------------------------------------------------------------
\* What a read shows: the cache once it is filled, the durable record before.
Shown == IF cached = NotCached THEN stored ELSE cached
Present(trades) == {id \in Ids : trades[id] # NoTrade}

\* A patch: absent fields are left untouched; an exit can be set, never cleared.
Patch == [exit : {TRUE}, plan : Plans] \cup [plan : Plans] \cup [exit : {TRUE}]

Merged(trade, patch) ==
    [exit |-> trade.exit \/ "exit" \in DOMAIN patch,
     plan |-> IF "plan" \in DOMAIN patch THEN patch.plan ELSE trade.plan]

Valid(trade) == trade.plan # BadPlan

\* The ways a write of the store ends. A refused write changes nothing (the cache is put back);
\* a lost one is durable, and its answer is an error (PostgreSQL) or the end of the process
\* between the rename and the answer (files).
Outcomes == {"done"} \cup IF tradeFaults < MaxTradeFaults THEN {"refused", "lost"} ELSE {}

\* The cache after a write: replaced, put back, or gone with the process.
CacheAfter(outcome, next) ==
    IF backend = "postgres" \/ outcome = "lost" THEN NotCached
    ELSE IF outcome = "done" THEN next ELSE Shown

\* One write of the store: caller c turns trade `id` into `trade`.
Store(c, id, trade, outcome) ==
    LET next == [Shown EXCEPT ![id] = trade] IN
    /\ outcome \in Outcomes
    /\ writes < MaxWrites
    /\ writes' = writes + 1
    /\ tradeFaults' = tradeFaults + IF outcome = "done" THEN 0 ELSE 1
    /\ stored' = IF outcome = "refused" THEN stored ELSE next
    /\ cached' = CacheAfter(outcome, next)
    /\ serving' = ~(outcome = "lost" /\ backend = "file")
    /\ calls' = IF serving' THEN [calls EXCEPT ![c] = Idle] ELSE [d \in Callers |-> Idle]
    /\ told' = CASE outcome = "done" -> [told EXCEPT ![id] = {trade}]
                 [] outcome = "lost" -> [told EXCEPT ![id] = @ \cup {trade}]
                 [] OTHER -> told
    /\ UNCHANGED <<backend, imported, tradeStops>>

\* POST /trades.
Create(c) ==
    \E id \in NewTrades, plan \in Plans \ {BadPlan}, outcome \in {"done", "refused", "lost"} :
        /\ serving
        /\ calls[c] = Idle
        /\ told[id] = {NoTrade} /\ id \notin gone
        /\ Store(c, id, [exit |-> FALSE, plan |-> plan], outcome)
        /\ UNCHANGED <<gone, closed, crossed>>

\* PATCH /trades/{id}, its first half: what it will merge into.
ReadForPatch(c) ==
    /\ serving
    /\ calls[c] = Idle
    /\ \E id \in Present(Shown) :
          calls' = [calls EXCEPT ![c] = [step |-> "read", id |-> id, trade |-> Shown[id]]]
    /\ cached' = IF backend = "file" THEN Shown ELSE NotCached
    /\ UNCHANGED <<backend, stored, imported, serving, writes, tradeFaults, tradeStops,
                   told, gone, closed, crossed>>

\* The store replaces only what is there.
Replaceable(id) == Shown[id] # NoTrade

\* PATCH, its second half: the merged record replaces whatever the store now holds.
FinishPatch(c) ==
    \E patch \in Patch, outcome \in {"done", "refused", "lost"} :
        LET id == calls[c].id
            next == Merged(calls[c].trade, patch) IN
        /\ serving
        /\ calls[c].step = "read"
        /\ Valid(next)
        /\ Replaceable(id)
        /\ Store(c, id, next, outcome)
        /\ crossed' = IF outcome # "refused" /\ Shown[id] # calls[c].trade
                      THEN crossed \cup {id} ELSE crossed
        /\ closed' = IF outcome = "done" /\ next.exit THEN closed \cup {id} ELSE closed
        /\ UNCHANGED gone

\* A patch that is not valid, or whose trade has been deleted, is answered 400 or 404.
RejectPatch(c) ==
    /\ serving
    /\ calls[c].step = "read"
    /\ ~Replaceable(calls[c].id) \/ \E patch \in Patch : ~Valid(Merged(calls[c].trade, patch))
    /\ calls' = [calls EXCEPT ![c] = Idle]
    /\ UNCHANGED <<backend, stored, imported, cached, serving, writes, tradeFaults, tradeStops,
                   told, gone, closed, crossed>>

\* DELETE /trades/{id}.
DeleteTrade(c) ==
    \E id \in Present(Shown), outcome \in {"done", "refused", "lost"} :
        /\ serving
        /\ calls[c] = Idle
        /\ Store(c, id, NoTrade, outcome)
        /\ gone' = IF outcome = "done" THEN gone \cup {id} ELSE gone
        /\ UNCHANGED <<closed, crossed>>

StopJournal ==
    /\ serving
    /\ tradeStops < MaxTradeStops
    /\ tradeStops' = tradeStops + 1
    /\ serving' = FALSE
    /\ cached' = NotCached
    /\ calls' = [c \in Callers |-> Idle]
    /\ UNCHANGED <<backend, stored, imported, writes, tradeFaults, told, gone, closed, crossed>>

\* Mutant: the import does not look for its marker.
ImportsEveryStart == backend = "postgres"

\* The import and its marker are one transaction; a row that is there is left alone.
Imports == backend = "postgres" /\ ~imported
StartJournal ==
    /\ ~serving
    /\ \E outcome \in IF Imports THEN Outcomes ELSE {"done"} :
          /\ stored' = IF Imports /\ outcome # "refused"
                       THEN [id \in Ids |-> IF stored[id] = NoTrade THEN OldFile[id]
                                            ELSE stored[id]]
                       ELSE stored
          /\ imported' = (imported \/ (Imports /\ outcome # "refused"))
          /\ tradeFaults' = tradeFaults + IF outcome = "done" THEN 0 ELSE 1
          /\ serving' = (outcome = "done")
    /\ UNCHANGED <<backend, cached, calls, writes, tradeStops, told, gone, closed, crossed>>

TradeInit ==
    /\ backend \in {"file", "postgres"}
    /\ stored = IF backend = "file" THEN OldFile ELSE [id \in Ids |-> NoTrade]
    /\ imported = FALSE
    /\ cached = NotCached
    /\ serving = FALSE
    /\ calls = [c \in Callers |-> Idle]
    /\ writes = 0 /\ tradeFaults = 0 /\ tradeStops = 0
    /\ told = [id \in Ids |-> {OldFile[id]}]
    /\ gone = {} /\ closed = {} /\ crossed = {}

TradeNext ==
    \/ \E c \in Callers :
          Create(c) \/ ReadForPatch(c) \/ FinishPatch(c) \/ RejectPatch(c) \/ DeleteTrade(c)
    \/ StopJournal
    \/ StartJournal

TradeSpec == TradeInit /\ [][TradeNext]_tradeVars

-----------------------------------------------------------------------------
\* Whatever happened since (a refused or lost write, a stop, a second start with the old file
\* still on disk), a trade is what the last answer said, or what a write without an answer
\* would have made of it. A trade deleted after the import does not come back with it.
AnswersHold == serving => \A id \in Ids : Shown[id] \in told[id]

\* A trade whose delete was acknowledged stays deleted, also when a PATCH had read it before; and
\* one that was closed is open again only through a PATCH that crossed another: it read the record
\* before the exit and wrote it back after (handlers.go has no check against that).
EndsStand ==
    /\ \A id \in gone : stored[id] = NoTrade
    /\ \A id \in closed \ crossed : stored[id] # NoTrade => stored[id].exit

\* A trade is what its last answer said, through requests that cross, failed writes and starts,
\* and an end that was acknowledged is an end.
TradesStand == AnswersHold /\ EndsStand
=============================================================================
