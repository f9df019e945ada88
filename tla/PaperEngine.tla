----------------------------- MODULE PaperEngine -----------------------------
(***************************************************************************)
(* The paper engine (paper/engine.go, reconcile.go, store.go and the two   *)
(* mutating handlers): one position per config, recorded in three stores   *)
(* that no transaction spans.                                              *)
(*                                                                         *)
(*   the JOURNAL   a service of its own, reached over HTTP;                *)
(*   the BOOK      PaperLedger, here as the TradeBook it implements;       *)
(*   the STORE     the engine's document, rewritten whole on every save.   *)
(*                                                                         *)
(* tick, handleReset and handleSetConfig exclude each other (opMu), so one *)
(* of them at a time is in progress; op holds its local variables and says *)
(* which call it makes next.  Every call that can fail, or that a crash    *)
(* can separate from the next one, is a step of its own.                   *)
(*                                                                         *)
(* A trade is identified by its place in the journal, which keeps deleted  *)
(* trades; the side, sizing and fill kind the engine captures at the entry *)
(* are the journal record's, so a state is known by its trade.             *)
(***************************************************************************)
EXTENDS Integers, Sequences, FiniteSets

CONSTANTS
    Keys,      \* the configs that may be enabled
    MaxTrades, \* bound on the trades of any scenario
    Scenarios  \* what may go wrong in a behaviour, and how much may happen in it

\* "create", "close", "list", "delete": the journal refuses or does not answer;
\* "createLost", "closeLost": it does the work and the answer is lost;
\* "gone": a trade is deleted by someone else.  "book": the ledger refuses a fill.
\* "save": the store cannot be written; "saveLost": it is written and the caller is
\* told otherwise (a database reply); "saveUnsynced": likewise, and the caller is
\* told that too (a file rename whose directory could not be synced).
\* "upstream": bars, predictions, quotes or a retryable gate; "gate": a refusal.
\* "midpass": a bar completes while a pass is under way.
AllFaults ==
    {"create", "close", "list", "delete", "createLost", "closeLost", "gone", "book",
     "save", "saveLost", "saveUnsynced", "upstream", "gate", "midpass"}

\* The configs of the first start, whose markets move; the faults; and the bounds on trades,
\* bars of a market, crashes, resets and changes of the configs.
Scenario ==
    [configs : SUBSET Keys, faults : SUBSET AllFaults, trades : 0..MaxTrades,
     bars : Nat, crashes : Nat, resets : Nat, changes : Nat]

ASSUME ScenarioAssumption == MaxTrades \in Nat /\ Scenarios \subseteq Scenario

VARIABLES
    journal,   \* the journal's paper trades: key, side, kind, status, and of their
               \*   origin the bar predicted on and the book's generation
    booked, lot,   \* the book (TradeBook)
    gen,       \* the book's generation
    store,     \* memory: Store.data
    disk,      \* durable: the engine_state document
    dirty,     \* memory: Store.lastErr is set
    market,    \* each config's newest completed bar, and the signal on it
    op,        \* memory: the operation in progress
    crashes, changes,   \* how many there have been
    scenario   \* one of Scenarios, for the whole behaviour

vars == <<journal, booked, lot, gen, store, disk, dirty, market, op, crashes, changes, scenario>>
book == <<booked, lot, gen>>
env == <<market, crashes, changes, scenario>>

NoTrade == 0
Faults == scenario.faults
Ids == 1..MaxTrades

Book == INSTANCE TradeBook WITH Trades <- Ids

Sides == {"long", "short"}
Signals == Sides \cup {"flat", "null"}
Idle == [at |-> "idle"]
Down == [at |-> "down"]
-----------------------------------------------------------------------------
(***************************************************************************)
(* The store: States, Pending and Configs, saved together.                 *)
(***************************************************************************)
Empty ==
    [held |-> [k \in Keys |-> NoTrade], cursor |-> [k \in Keys |-> 0],
     owed |-> <<>>, enabled |-> scenario.configs]

\* persistLocked with the roll-back its callers share.  dirty' tells the caller
\* whether it was given an error.
Save(s) ==
    \/ store' = s /\ disk' = s /\ dirty' = FALSE
    \/ "save" \in Faults /\ dirty' = TRUE /\ UNCHANGED <<store, disk>>
    \/ "saveLost" \in Faults /\ dirty' = TRUE /\ disk' = s /\ UNCHANGED store
    \/ "saveUnsynced" \in Faults /\ dirty' = TRUE /\ store' = s /\ disk' = s

Holding(k, t) == [store EXCEPT !.held[k] = t]

IsOwed(s, p) == \E i \in DOMAIN s.owed : s.owed[i] = p
OwedFor(s, k) == {i \in DOMAIN s.owed : s.owed[i].key = k}

\* AddPendingBooking, ResolvePendingBooking: one record per (trade, kind).
Without(legs, i) == [j \in 1 .. Len(legs) - 1 |-> IF j < i THEN legs[j] ELSE legs[j + 1]]

Owing(p) == IF IsOwed(store, p) THEN store ELSE [store EXCEPT !.owed = Append(@, p)]
Settling(p) ==
    IF ~IsOwed(store, p) THEN store
    ELSE [store EXCEPT !.owed = Without(@, CHOOSE i \in DOMAIN @ : @[i] = p)]

EntryLeg(t) == [trade |-> t, key |-> journal[t].key, kind |-> journal[t].kind]
HasBooked(p) == <<p.trade, p.kind>> \in booked
-----------------------------------------------------------------------------
(***************************************************************************)
(* syncStateFor: what the three stores say about one config.               *)
(***************************************************************************)
IsOpen(t) == journal[t].status = "open"

Agree(s, k) ==
    /\ s.held[k] = lot[k]
    /\ s.held[k] # NoTrade => IsOpen(s.held[k])
    /\ OwedFor(s, k) = {}

\* checked says whether the journal could be asked; d that the store is not durable.
Verdict(s, d, k, checked) ==
    [ok |-> checked /\ ~d /\ Agree(s, k), checked |-> checked]

JournalAnswers == {TRUE} \cup (IF "list" \in Faults THEN {FALSE} ELSE {})
-----------------------------------------------------------------------------
(***************************************************************************)
(* Phase 0: retryPendingBookings, then reconcileStores.                    *)
(***************************************************************************)
BeginTick ==
    /\ op = Idle
    /\ op' = [at |-> "retry", left |-> store.owed]
    /\ UNCHANGED <<journal, book, store, disk, dirty, env>>

MayBook(p) ==
    \/ Book!MayBookOpen(p.key, p.trade, p.kind)
    \/ Book!MayBookClose(p.key, p.kind)

BookLeg(p) ==
    /\ \/ Book!BookOpen(p.key, p.trade, p.kind)
       \/ Book!BookClose(p.key, p.kind)
    /\ UNCHANGED gen

\* The book refuses a leg it may not book, and may fail to write one it may.
BookRefuses(p) == ~MayBook(p) \/ "book" \in Faults

Retrying == op.at = "retry" /\ op.left # <<>>
Owed == Head(op.left)

\* Mutant: an obligation the book already holds is offered to it again.
RetryBooksAgain ==
    /\ Retrying
    /\ BookLeg(Owed)
    /\ op' = [op EXCEPT !.at = "retried"]
    /\ UNCHANGED <<journal, store, disk, dirty, env>>

RetryBooks ==
    /\ Retrying /\ ~HasBooked(Owed)
    /\ BookLeg(Owed)
    /\ op' = [op EXCEPT !.at = "retried"]
    /\ UNCHANGED <<journal, store, disk, dirty, env>>

RetryAlreadyBooked ==
    /\ Retrying /\ HasBooked(Owed)
    /\ op' = [op EXCEPT !.at = "retried"]
    /\ UNCHANGED <<journal, book, store, disk, dirty, env>>

\* Mutant: an obligation that met a refusal is dropped.
RetryFailsForGood ==
    /\ Retrying /\ ~HasBooked(Owed) /\ BookRefuses(Owed)
    /\ Save(Settling(Owed))
    /\ op' = [op EXCEPT !.left = Tail(@)]
    /\ UNCHANGED <<journal, book, env>>

\* FailPendingBooking keeps the obligation and saves the attempt.
RetryFails ==
    /\ Retrying /\ ~HasBooked(Owed) /\ BookRefuses(Owed)
    /\ Save(store)
    /\ op' = [op EXCEPT !.left = Tail(@)]
    /\ UNCHANGED <<journal, book, env>>

RetryResolves ==
    /\ op.at = "retried"
    /\ Save(Settling(Owed))
    /\ op' = [at |-> "retry", left |-> Tail(op.left)]
    /\ UNCHANGED <<journal, book, env>>

Reconcile ==
    /\ op.at = "retry" /\ op.left = <<>>
    /\ \E checked \in JournalAnswers :
           op' = [at |-> "mark", left |-> store.enabled,
                  sync |-> [k \in Keys |-> Verdict(store, dirty, k, checked)],
                  bars |-> [k \in Keys |-> 0]]
    /\ UNCHANGED <<journal, book, store, disk, dirty, env>>
-----------------------------------------------------------------------------
(***************************************************************************)
(* Phase 1: markPhase for every enabled config.  The mark itself moves no  *)
(* position (PaperLedger); what phase 2 needs is which configs reached a   *)
(* bar past their cursor, and which bar.                                   *)
(***************************************************************************)
MarkBar(k) ==
    /\ op.at = "mark" /\ k \in op.left
    /\ op' = [op EXCEPT !.left = @ \ {k},
                        !.bars[k] = IF market[k].bar > store.cursor[k] THEN market[k].bar ELSE 0]
    /\ UNCHANGED <<journal, book, store, disk, dirty, env>>

\* No bar is not a decision: the state is recorded as it is.
MarkUnavailable(k) ==
    /\ op.at = "mark" /\ k \in op.left /\ "upstream" \in Faults
    /\ Save(store)
    /\ op' = [op EXCEPT !.left = @ \ {k}]
    /\ UNCHANGED <<journal, book, env>>

EndMarks ==
    /\ op.at = "mark" /\ op.left = {}
    /\ op' = [at |-> "decide", sync |-> op.sync, bars |-> op.bars]
    /\ UNCHANGED <<journal, book, store, disk, dirty, env>>
-----------------------------------------------------------------------------
(***************************************************************************)
(* Phase 2: decidePhase for every config with a new bar.  op.st is the     *)
(* copy of the config's state the phase works on.                          *)
(***************************************************************************)
Deciding(k, st, next) ==
    [at |-> next, sync |-> op.sync, bars |-> op.bars, key |-> k, st |-> st,
     target |-> "null", on |-> 0, flip |-> FALSE, gone |-> FALSE, adv |-> FALSE]

GoTo(next) == op' = [op EXCEPT !.at = next]

\* record: the state is saved, and the cursor with it when the bar was decided.
Recorded(st, adv) == op' = [op EXCEPT !.at = "record", !.st = st, !.adv = adv]

Record ==
    /\ op.at = "record"
    /\ Save([store EXCEPT !.held[op.key] = op.st,
                          !.cursor[op.key] = IF op.adv THEN op.bars[op.key] ELSE @])
    /\ op' = [at |-> "decide", sync |-> op.sync, bars |-> [op.bars EXCEPT ![op.key] = 0]]
    /\ UNCHANGED <<journal, book, env>>

\* Mutant: the journal is not asked for a trade the engine has forgotten.
OrphansIgnored(k) == {}

\* adoptOrphan: an open trade of this config that no config's state owns.
Orphans(k) ==
    {t \in DOMAIN journal : /\ IsOpen(t) /\ journal[t].key = k
                            /\ \A j \in Keys : store.held[j] # t}

Adopt(k) ==
    /\ op.at = "decide" /\ op.bars[k] > 0
    /\ store.held[k] = NoTrade
    /\ \E t \in Orphans(k) :
           /\ Save(Holding(k, t))
           /\ op' = Deciding(k, IF dirty' THEN NoTrade ELSE t, "predict")
    /\ UNCHANGED <<journal, book, env>>

\* Nothing to adopt, or no way to tell.
DecideAsIs(k) ==
    /\ op.at = "decide" /\ op.bars[k] > 0
    /\ store.held[k] # NoTrade \/ Orphans(k) = {} \/ "list" \in Faults
    /\ op' = Deciding(k, store.held[k], "predict")
    /\ UNCHANGED <<journal, book, store, disk, dirty, env>>

EndTick ==
    /\ op.at = "decide" /\ \A k \in Keys : op.bars[k] = 0
    /\ op' = Idle
    /\ UNCHANGED <<journal, book, store, disk, dirty, env>>

\* The prediction is asked for now, and may be on a newer bar than the one marked.
Predict ==
    /\ op.at = "predict"
    /\ \/ /\ dirty \/ "upstream" \in Faults
          /\ Recorded(op.st, FALSE)
       \/ /\ ~dirty /\ market[op.key].signal = "null"
          /\ Recorded(op.st, TRUE)
       \/ /\ ~dirty /\ market[op.key].signal # "null" /\ ~op.sync[op.key].checked
          /\ Recorded(op.st, FALSE)
       \/ /\ ~dirty /\ market[op.key].signal # "null" /\ op.sync[op.key].checked
          /\ op' = [op EXCEPT !.at = "catchup", !.target = market[op.key].signal,
                                   !.on = market[op.key].bar]
    /\ UNCHANGED <<journal, book, store, disk, dirty, env>>

\* bookMissingLot: the engine holds a trade the book has no lot for and never booked.
CatchesUp ==
    /\ op.st # NoTrade /\ lot[op.key] = NoTrade
    /\ ~HasBooked(EntryLeg(op.st))

CatchUpBooks ==
    /\ op.at = "catchup" /\ CatchesUp
    /\ BookLeg(EntryLeg(op.st))
    /\ GoTo("caughtup")
    /\ UNCHANGED <<journal, store, disk, dirty, env>>

\* The obligation, if there was one, is cleared and the config compared again.
CaughtUp ==
    /\ op.at = "caughtup"
    /\ Save(Settling(EntryLeg(op.st)))
    /\ \E checked \in JournalAnswers :
           op' = [op EXCEPT !.at = "move",
                            !.sync[op.key] = Verdict(store', dirty', op.key, checked)]
    /\ UNCHANGED <<journal, book, env>>

\* Mutant: the obligation is written down and the tick's verdict left as it was.
OweUnmarked(p, next) ==
    /\ Save(Owing(p))
    /\ GoTo(next)

\* owePending: once the obligation is saved the config is desynced, from now on.
Owe(p, next) ==
    /\ Save(Owing(p))
    /\ op' = [op EXCEPT !.at = next, !.sync[p.key].ok = @ /\ dirty']

CatchUpRefused ==
    /\ op.at = "catchup" /\ CatchesUp /\ BookRefuses(EntryLeg(op.st))
    /\ Owe(EntryLeg(op.st), "move")
    /\ UNCHANGED <<journal, book, env>>

NothingToCatchUp ==
    /\ op.at = "catchup" /\ ~CatchesUp
    /\ GoTo("move")
    /\ UNCHANGED <<journal, book, store, disk, dirty, env>>

SideOf(t) == IF t = NoTrade THEN "flat" ELSE journal[t].side

MayMove == ~dirty /\ op.target # SideOf(op.st) /\ op.sync[op.key].ok

\* From storage to quote and gates: what decides against moving, in the code's order.
Refuse ==
    /\ op.at = "move"
    /\ \/ dirty /\ Recorded(op.st, FALSE)
       \/ ~dirty /\ op.target = SideOf(op.st) /\ Recorded(op.st, TRUE)
       \/ /\ ~dirty /\ op.target # SideOf(op.st) /\ ~op.sync[op.key].ok
          /\ Recorded(op.st, FALSE)
       \/ MayMove /\ "upstream" \in Faults /\ Recorded(op.st, FALSE)
       \/ MayMove /\ "gate" \in Faults /\ op.target # "flat" /\ Recorded(op.st, TRUE)
    /\ UNCHANGED <<journal, book, store, disk, dirty, env>>

Move ==
    /\ op.at = "move" /\ MayMove
    /\ op' = [op EXCEPT !.at = IF op.st = NoTrade THEN "open" ELSE "close",
                        !.flip = op.st # NoTrade /\ op.target # "flat"]
    /\ UNCHANGED <<journal, book, store, disk, dirty, env>>
-----------------------------------------------------------------------------
(***************************************************************************)
(* reconcile: closePosition.                                               *)
(***************************************************************************)
ExitLeg(t) ==
    [trade |-> t, key |-> op.key, kind |-> IF op.flip /\ ~op.gone THEN "flip-close" ELSE "close"]

JournalCloses ==
    /\ op.at = "close" /\ IsOpen(op.st)
    /\ journal' = [journal EXCEPT ![op.st].status = "closed"]
    /\ \/ GoTo("exit")
       \/ "closeLost" \in Faults /\ Recorded(op.st, FALSE)
    /\ UNCHANGED <<book, store, disk, dirty, env>>

JournalRefusesClose ==
    /\ op.at = "close" /\ "close" \in Faults
    /\ Recorded(op.st, FALSE)
    /\ UNCHANGED <<journal, book, store, disk, dirty, env>>

\* 404: the trade is not there any more.
JournalHasNoTrade ==
    /\ op.at = "close" /\ journal[op.st].status = "deleted"
    /\ op' = [op EXCEPT !.at = "exit", !.gone = TRUE]
    /\ UNCHANGED <<journal, book, store, disk, dirty, env>>

\* bookClose: silent without a lot, or when this leg of the lot is booked already.
\* A config that moves has its lot (MovesInAgreement), so this is a guard and no more.
NoExitToBook == lot[op.key] = NoTrade \/ HasBooked(ExitLeg(lot[op.key]))

BookExit ==
    /\ op.at = "exit"
    /\ IF NoExitToBook THEN UNCHANGED book ELSE BookLeg(ExitLeg(lot[op.key]))
    /\ GoTo("clear")
    /\ UNCHANGED <<journal, store, disk, dirty, env>>

ExitRefused ==
    /\ op.at = "exit" /\ ~NoExitToBook
    /\ BookRefuses(ExitLeg(lot[op.key]))
    /\ Owe(ExitLeg(lot[op.key]), "clear")
    /\ UNCHANGED <<journal, book, env>>

\* The copy is flat whether or not the store could be.
Clear ==
    /\ op.at = "clear"
    /\ Save(Holding(op.key, NoTrade))
    /\ IF dirty' \/ op.gone THEN Recorded(NoTrade, FALSE)
       ELSE IF op.flip THEN op' = [op EXCEPT !.at = "open", !.st = NoTrade]
       ELSE Recorded(NoTrade, TRUE)
    /\ UNCHANGED <<journal, book, env>>
-----------------------------------------------------------------------------
(***************************************************************************)
(* reconcile: openPosition.                                                *)
(***************************************************************************)
\* A flip's second leg is opened as such; the copy is flat again by then.
EntryKind == IF op.flip THEN "flip-open" ELSE "open"

NewTrade ==
    [key |-> op.key, side |-> op.target, kind |-> EntryKind, on |-> op.on,
     gen |-> gen, status |-> "open"]

JournalCreates ==
    /\ op.at = "open" /\ Len(journal) < scenario.trades
    /\ journal' = Append(journal, NewTrade)
    /\ \/ op' = [op EXCEPT !.at = "opened", !.st = Len(journal')]
       \/ "createLost" \in Faults /\ Recorded(NoTrade, FALSE)
    /\ UNCHANGED <<book, store, disk, dirty, env>>

JournalRefusesOpen ==
    /\ op.at = "open"
    /\ "create" \in Faults \/ Len(journal) = scenario.trades
    /\ Recorded(NoTrade, FALSE)
    /\ UNCHANGED <<journal, book, store, disk, dirty, env>>

SaveOpen ==
    /\ op.at = "opened"
    /\ Save(Holding(op.key, op.st))
    /\ IF dirty' THEN Recorded(op.st, FALSE) ELSE GoTo("intend")
    /\ UNCHANGED <<journal, book, env>>

Intend ==
    /\ op.at = "intend"
    /\ Save(Owing(EntryLeg(op.st)))
    /\ IF dirty' THEN Recorded(op.st, FALSE) ELSE GoTo("entry")
    /\ UNCHANGED <<journal, book, env>>

BookEntry ==
    /\ op.at = "entry"
    /\ BookLeg(EntryLeg(op.st))
    /\ GoTo("entered")
    /\ UNCHANGED <<journal, store, disk, dirty, env>>

\* A pending marker that cannot be cleared is only logged.
EntryResolves ==
    /\ op.at = "entered"
    /\ Save(Settling(EntryLeg(op.st)))
    /\ Recorded(op.st, TRUE)
    /\ UNCHANGED <<journal, book, env>>

EntryRefused ==
    /\ op.at = "entry" /\ BookRefuses(EntryLeg(op.st))
    /\ Save(Owing(EntryLeg(op.st)))
    /\ Recorded(op.st, ~dirty')
    /\ UNCHANGED <<journal, book, env>>
-----------------------------------------------------------------------------
(***************************************************************************)
(* handleReset and handleSetConfig.                                        *)
(***************************************************************************)
\* readinessLocked: the store is durable and every config's prediction carries a signal.
\* Stores that disagree are no obstacle, the reset is what clears them.
Launchable == ~dirty /\ \A k \in store.enabled : market[k].signal # "null"

\* The journal first: every trade is tried, and one that stays aborts the reset.
BeginReset ==
    /\ op = Idle /\ gen < scenario.resets
    /\ Launchable
    /\ op' = [at |-> "reset", failed |-> FALSE,
              left |-> {t \in DOMAIN journal : journal[t].status # "deleted"}]
    /\ UNCHANGED <<journal, book, store, disk, dirty, env>>

\* Deleting a trade somebody else has just deleted is a failure like any other.
ResetDeletes(t) ==
    /\ op.at = "reset" /\ t \in op.left
    /\ \/ /\ journal[t].status # "deleted"
          /\ journal' = [journal EXCEPT ![t].status = "deleted"]
          /\ op' = [op EXCEPT !.left = @ \ {t}]
       \/ /\ "delete" \in Faults \/ journal[t].status = "deleted"
          /\ op' = [op EXCEPT !.left = @ \ {t}, !.failed = TRUE]
          /\ UNCHANGED journal
    /\ UNCHANGED <<book, store, disk, dirty, env>>

ResetBook ==
    /\ op.at = "reset" /\ op.left = {} /\ ~op.failed
    /\ Book!NewGeneration /\ gen' = gen + 1
    /\ GoTo("resetstore")
    /\ UNCHANGED <<journal, store, disk, dirty, env>>

ResetAborts ==
    /\ op.at = "reset" /\ op.left = {}
    /\ op.failed \/ "book" \in Faults
    /\ op' = Idle
    /\ UNCHANGED <<journal, book, store, disk, dirty, env>>

\* Mutant: what is owed to the old book stays owed to the new one.
ResetStoreKeepsOwed ==
    /\ op.at = "resetstore"
    /\ Save([Empty EXCEPT !.enabled = store.enabled, !.owed = store.owed])
    /\ op' = Idle
    /\ UNCHANGED <<journal, book, env>>

ResetStore ==
    /\ op.at = "resetstore"
    /\ Save([Empty EXCEPT !.enabled = store.enabled])
    /\ op' = Idle
    /\ UNCHANGED <<journal, book, env>>

\* removalsHoldingPositions
HoldsSomething(k) ==
    store.held[k] # NoTrade \/ lot[k] # NoTrade \/ OwedFor(store, k) # {}

SetConfigs(new) ==
    /\ op = Idle /\ changes < scenario.changes
    /\ new # {} /\ new # store.enabled
    /\ \A k \in store.enabled \ new : ~HoldsSomething(k)
    /\ Save([store EXCEPT !.enabled = new])
    /\ changes' = changes + 1
    /\ UNCHANGED <<journal, book, market, op, crashes, scenario>>
-----------------------------------------------------------------------------
(***************************************************************************)
(* The world: markets, other users of the journal, crashes.                *)
(***************************************************************************)
NewBar(k) ==
    /\ k \in scenario.configs /\ market[k].bar < scenario.bars
    /\ op \in {Idle, Down} \/ "midpass" \in Faults
    /\ \E s \in Signals : market' = [market EXCEPT ![k] = [bar |-> @.bar + 1, signal |-> s]]
    /\ UNCHANGED <<journal, book, store, disk, dirty, op, crashes, changes, scenario>>

TradeGone(t) ==
    /\ "gone" \in Faults /\ IsOpen(t)
    /\ journal' = [journal EXCEPT ![t].status = "deleted"]
    /\ UNCHANGED <<book, store, disk, dirty, op, env>>

Crash ==
    /\ op # Down /\ crashes < scenario.crashes
    /\ crashes' = crashes + 1
    /\ op' = Down
    /\ store' = Empty /\ dirty' = FALSE
    /\ UNCHANGED <<journal, book, disk, market, changes, scenario>>

\* The start-up pass is phase 0, and the first tick follows at once.
Restart ==
    /\ op = Down
    /\ store' = disk
    /\ op' = Idle
    /\ UNCHANGED <<journal, book, disk, dirty, env>>
-----------------------------------------------------------------------------
Init ==
    /\ scenario \in Scenarios
    /\ journal = <<>>
    /\ Book!EmptyBook /\ gen = 0
    /\ store = Empty /\ disk = Empty /\ dirty = FALSE
    /\ market = [k \in Keys |-> [bar |-> 0, signal |-> "null"]]
    /\ op = Idle
    /\ crashes = 0 /\ changes = 0

Phase0 ==
    \/ BeginTick
    \/ RetryBooks \/ RetryAlreadyBooked \/ RetryFails \/ RetryResolves
    \/ Reconcile

Phase1 ==
    \/ \E k \in Keys : MarkBar(k) \/ MarkUnavailable(k)
    \/ EndMarks

Phase2 ==
    \/ \E k \in Keys : Adopt(k) \/ DecideAsIs(k)
    \/ Predict
    \/ CatchUpBooks \/ CaughtUp \/ CatchUpRefused \/ NothingToCatchUp
    \/ Refuse \/ Move
    \/ JournalCloses \/ JournalRefusesClose \/ JournalHasNoTrade
    \/ BookExit \/ ExitRefused \/ Clear
    \/ JournalCreates \/ JournalRefusesOpen
    \/ SaveOpen \/ Intend \/ BookEntry \/ EntryResolves \/ EntryRefused
    \/ Record
    \/ EndTick

Operator ==
    \/ BeginReset \/ (\E t \in DOMAIN journal : ResetDeletes(t))
    \/ ResetBook \/ ResetAborts \/ ResetStore
    \/ \E new \in SUBSET Keys : SetConfigs(new)

World ==
    \/ \E k \in Keys : NewBar(k)
    \/ \E t \in DOMAIN journal : TradeGone(t)
    \/ Crash \/ Restart

Next == Phase0 \/ Phase1 \/ Phase2 \/ Operator \/ World

Spec == Init /\ [][Next]_vars

\* The ticker starts passes and a pass runs to its end; a reset runs to its end; a
\* stopped process is started again.  A book that is offered a leg over and over
\* takes it in the end.  Nothing is assumed of markets and operators.
Fairness ==
    /\ WF_vars(Phase0) /\ WF_vars(Phase1) /\ WF_vars(Phase2)
    /\ WF_vars(ResetBook \/ ResetAborts \/ ResetStore \/ \E t \in Ids : t \in DOMAIN journal /\ ResetDeletes(t))
    /\ WF_vars(Restart)
    /\ SF_vars(RetryBooks)

FairSpec == Spec /\ Fairness
-----------------------------------------------------------------------------
(***************************************************************************)
(* Properties.                                                             *)
(***************************************************************************)
Current(t) == journal[t].gen = gen

\* A config never has two open paper trades, wherever a crash or a lost answer fell: what the
\* engine has forgotten it adopts before it opens anything.  And "acting twice on one bar is a
\* defect": whatever is lost, retried or restarted, one prediction of a config opens at most one
\* trade of a generation.
ActsOnce ==
    \A t, u \in DOMAIN journal :
        /\ journal[t].key = journal[u].key
        /\ \/ IsOpen(t) /\ IsOpen(u)
           \/ journal[t].on = journal[u].on /\ journal[t].gen = journal[u].gen
        => t = u

\* The book never runs ahead of the journal: an exit leg is booked only for a trade
\* the journal has closed (or lost), whichever lot the retry found.
ExitsFollowJournal ==
    \A t \in DOMAIN journal :
        IsOpen(t) => \A kind \in Book!CloseKinds : <<t, kind>> \notin booked

\* A desynced config does not move: when the engine begins to change a position, the
\* store's trade is the one it works on, the book has exactly its lot and no fill
\* is owed.
MovesInAgreement ==
    op.at = "close" \/ (op.at = "open" /\ ~op.flip) =>
        /\ store.held[op.key] = op.st /\ lot[op.key] = op.st
        /\ OwedFor(store, op.key) = {}

\* A fresh book holds no leg of a trade from before the reset.
FreshBookStaysFresh == \A leg \in booked : Current(leg[1])

\* A config that holds something stays enabled, in memory and on disk.
HeldIsEnabled ==
    \A k \in Keys :
        /\ op # Down /\ (store.held[k] # NoTrade \/ lot[k] # NoTrade) => k \in store.enabled
        /\ disk.held[k] # NoTrade => k \in disk.enabled

\* What the operator asked for holds while the engine goes on, whatever failed half way: a reset
\* leaves nothing of the old book to come back (handlers.go:507), and a change of the configs
\* disables none that still holds something (handlers.go:614).
OperatorIsObeyed == FreshBookStaysFresh /\ HeldIsEnabled

\* Nothing stays undone: a fill that is owed is booked in the end, and a config is never stuck,
\* the stores do not disagree forever over a bar that waits to be decided, whatever refused fills
\* and lost answers left behind.
BarWaits(k) == market[k].bar > store.cursor[k]

EverythingSettles ==
    /\ \A t \in Ids, kind \in Book!OpenKinds \cup Book!CloseKinds :
          (\E i \in DOMAIN store.owed : store.owed[i].trade = t /\ store.owed[i].kind = kind)
              ~> <<t, kind>> \in booked
    /\ \A k \in Keys : []<>(op # Down /\ (Agree(store, k) \/ ~BarWaits(k)))
=============================================================================
