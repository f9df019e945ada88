-------------------------- MODULE PaperEngineProofs --------------------------
(***************************************************************************)
(* The theorems about PaperEngine, from the invariant of PaperEngineSteps. *)
(*                                                                         *)
(* First what holds in every scenario, whatever fails.                     *)
(*                                                                         *)
(* Then that the engine acts once. As long as the journal can be asked for *)
(* the open trades, a config never has two of them, and one prediction of  *)
(* it never has two trades that stand, across any number of crashes,       *)
(* resets, lost answers and refused saves; and an engine that has nothing  *)
(* to be told by the journal acts once without asking. And that a reset is *)
(* obeyed: nothing of the old book comes back, in every scenario without a *)
(* reset, and in those whose store can be written and whose process is not *)
(* stopped in the middle of one.                                           *)
(*                                                                         *)
(* ActsInv stands on EngineInv, the invariant of PaperEngineSteps. Most    *)
(* actions move what they work on from one of the stores to another; Goes  *)
(* says so, one lemma per action, and GoesActs that such a step keeps      *)
(* ActsInv. The others have a lemma of their own: the engine decides,      *)
(* adopts or has a trade closed or created, a bar completes, a trade is    *)
(* deleted, a reset ends, the process stops.                               *)
(***************************************************************************)
EXTENDS PaperEngineSteps

-----------------------------------------------------------------------------
(***************************************************************************)
(* What holds whatever fails.                                              *)
(***************************************************************************)
\* The engine starts with nothing: no trade, no leg, no lot, nothing owed.
LEMMA InitKeeps == Init => EngineInv
<1> SUFFICES ASSUME Init PROVE EngineInv
  OBVIOUS
<1>1. /\ journal = <<>> /\ DOMAIN journal = {} /\ journal \in Seq(Records)
      /\ <<>> \in Seq(Legs) /\ DOMAIN <<>> = {}
  BY EmptySeq DEF Init
<1>2. scenario \in Scenarios /\ scenario.configs \subseteq Keys
  BY ScenarioAssumption DEF Init, Scenario
<1>3. /\ booked = {} /\ lot = [k \in Keys |-> NoTrade] /\ gen = 0 /\ store = Empty /\ disk = Empty
      /\ dirty = FALSE /\ op = Idle /\ op.at = "idle"
      /\ market = [k \in Keys |-> [bar |-> 0, signal |-> "null"]]
  BY DEF Init, Book!EmptyBook, Idle
<1>4. Empty \in Stores /\ OwedIn(Empty) = {} /\ \A k \in Keys : Empty.held[k] = NoTrade
  BY <1>1, <1>2 DEF Empty, Stores, OwedIn, NoTrade
<1>5. TypeOK
  BY <1>1, <1>2, <1>3, <1>4 DEF TypeOK, WorldTypeOK, StoreTypeOK, OpTypeOK, NoTrade, Signals
<1>6. Obligations = {} /\ Retried = {}
  BY <1>3, <1>4 DEF Obligations, Retried, RetryStages
<1>7. Keyed /\ Durable /\ Enabled
  BY <1>3, <1>4, <1>6
     DEF Keyed, HoldingsAreOwn, ObligationsAreOwn, WorkIsOwn, Owns, InConfig, ConfigStages, Durable,
         DurableStages,
         Enabled, DiskEnables, MemoryEnables, PassIsEnabled
<1>8. Agreement
  BY <1>3 DEF Agreement, AwaitingAgrees, DecidingAgrees, CaughtUpAgrees, MovingAgrees, ActingAgrees,
              OpeningIsFlat, ExitingAgrees, Awaits, InConfig, ConfigStages
<1>9. Booked /\ ExitsOwed /\ ResetIsWhole
  BY <1>1, <1>3, <1>6 DEF Booked, EntriesStand, ExitsFollow, ExitsOwed, OneExitOwed, ExitsFindTheirLot,
                          FlipsFindTheirLot, ResetIsWhole
<1> QED
  BY <1>5, <1>7, <1>8, <1>9 DEF EngineInv

\* Every step keeps the invariant.
LEMMA NextKeeps == EngineInv /\ [Next]_vars => EngineInv'
<1> SUFFICES ASSUME EngineInv, [Next]_vars PROVE EngineInv'
  OBVIOUS
<1>1. CASE Phase0
  BY <1>1, BeginTickKeeps, RetryBooksKeeps, RetryAlreadyBookedKeeps, RetryFailsKeeps,
     RetryResolvesKeeps, ReconcileKeeps
     DEF Phase0
<1>2. CASE Phase1
  BY <1>2, MarkBarKeeps, MarkUnavailableKeeps, EndMarksKeeps DEF Phase1
<1>3. CASE Phase2
  BY <1>3, AdoptKeeps, DecideAsIsKeeps, PredictKeeps, CatchUpBooksKeeps, CaughtUpKeeps,
     CatchUpRefusedKeeps,
     NothingToCatchUpKeeps, RefuseKeeps, MoveKeeps, JournalClosesKeeps, JournalRefusesCloseKeeps,
     JournalHasNoTradeKeeps, BookExitKeeps, ExitRefusedKeeps, ClearKeeps, JournalCreatesKeeps,
     JournalRefusesOpenKeeps, SaveOpenKeeps, IntendKeeps, BookEntryKeeps, EntryResolvesKeeps,
     EntryRefusedKeeps,
     RecordKeeps, EndTickKeeps
     DEF Phase2
<1>4. CASE Operator
  BY <1>4, BeginResetKeeps, ResetDeletesKeeps, ResetBookKeeps, ResetAbortsKeeps, ResetStoreKeeps,
     SetConfigsKeeps
     DEF Operator
<1>5. CASE World
  BY <1>5, NewBarKeeps, TradeGoneKeeps, CrashKeeps, RestartKeeps DEF World
<1>6. CASE UNCHANGED vars
  <2>1. /\ journal' = journal /\ booked' = booked /\ lot' = lot /\ gen' = gen /\ store' = store
        /\ disk' = disk /\ dirty' = dirty /\ market' = market /\ op' = op /\ scenario' = scenario
    BY <1>6 DEF vars
  <2>2. TypeOK'
    BY <2>1 DEF EngineInv, TypeOK, WorldTypeOK, StoreTypeOK, OpTypeOK
  <2>3. /\ InConfig' = InConfig /\ Obligations' = Obligations /\ Retried' = Retried
        /\ OwedIn(store)' = OwedIn(store) /\ OwedIn(disk)' = OwedIn(disk)
    BY <2>1 DEF InConfig, Obligations, Retried, OwedIn
  <2>4. Keyed'
    BY <2>1, <2>3 DEF EngineInv, Keyed, HoldingsAreOwn, ObligationsAreOwn, WorkIsOwn, Owns, IsKeyed
  <2>5. Durable'
    BY <2>1 DEF EngineInv, Durable
  <2>6. Agreement'
    BY <2>1, <2>3
       DEF EngineInv, Agreement, AwaitingAgrees, DecidingAgrees, CaughtUpAgrees, MovingAgrees,
           ActingAgrees,
                      OpeningIsFlat, ExitingAgrees, Settled, Awaits, CatchesUp, HasBooked, EntryLeg,
                      IsOpen
  <2>7. Booked'
    BY <2>1 DEF EngineInv, Booked, EntriesStand, ExitsFollow, HasExit, IsOpen
  <2>8. ExitsOwed'
    BY <2>1, <2>3
       DEF EngineInv, ExitsOwed, OneExitOwed, ExitsFindTheirLot, FlipsFindTheirLot, NoneOpen, IsOpen,
           HasBooked
  <2>9. ResetIsWhole'
    BY <2>1 DEF EngineInv, ResetIsWhole
  <2>10. Enabled'
    BY <2>1, <2>3 DEF EngineInv, Enabled, DiskEnables, MemoryEnables, PassIsEnabled
  <2> QED
    BY <2>2, <2>4, <2>5, <2>6, <2>7, <2>8, <2>9, <2>10 DEF EngineInv
<1> QED
  BY <1>1, <1>2, <1>3, <1>4, <1>5, <1>6 DEF Next

\* The invariant holds in every behaviour.
LEMMA EngineIsInvariant == Spec => []EngineInv
BY InitKeeps, NextKeeps, PTL DEF Spec

\* A desynced config does not move: when the engine begins to change a position (reconcile.go), the
\* store's trade is the one it works on, the book has exactly its lot and no fill is owed; whichever
\* saves failed, fills were refused, answers were lost and crashes fell before.
THEOREM EngineMovesInAgreement == Spec => []MovesInAgreement
<1>1. EngineInv => MovesInAgreement
  <2> SUFFICES ASSUME EngineInv PROVE MovesInAgreement
    OBVIOUS
  <2>1. op.at = "close" \/ (op.at = "open" /\ ~op.flip) => Settled(op.key, op.st) /\ lot[op.key] = op.st
    BY DEF EngineInv, Agreement, ActingAgrees
  <2>2. op.at = "close" \/ (op.at = "open" /\ ~op.flip) => OwedFor(store, op.key) = {}
    BY <2>1, OwedForNone DEF Settled
  <2> QED
    BY <2>1, <2>2 DEF MovesInAgreement, Settled
<1> QED
  BY <1>1, EngineIsInvariant, PTL

\* The book never runs ahead of the journal: an exit leg is booked only for a trade that the journal has
\* closed or lost, whichever lot the retry of an old obligation found (engine.go:retryPendingBookings).
THEOREM EngineExitsFollowJournal == Spec => []ExitsFollowJournal
<1>1. EngineInv => ExitsFollowJournal
  BY DEF EngineInv, Booked, ExitsFollow, HasExit, ExitsFollowJournal
<1> QED
  BY <1>1, EngineIsInvariant, PTL

\* A config that holds something stays enabled, in memory and on disk, across every change of the configs,
\* save and crash (handlers.go:removalsHoldingPositions).
THEOREM EngineHeldIsEnabled == Spec => []HeldIsEnabled
<1>1. EngineInv => HeldIsEnabled
  <2> SUFFICES ASSUME EngineInv PROVE HeldIsEnabled
    OBVIOUS
  <2>1. op # Down => op.at # "down"
    BY OpTyped DEF EngineInv, TypeOK, OpFacts
  <2> QED
    BY <2>1 DEF EngineInv, Enabled, DiskEnables, MemoryEnables, HeldIsEnabled
<1> QED
  BY <1>1, EngineIsInvariant, PTL

-----------------------------------------------------------------------------
(***************************************************************************)
(* The engine acts once, and a reset is obeyed.                            *)
(***************************************************************************)
OnlyOpen(k, t) == \A u \in DOMAIN journal : journal[u].key = k /\ IsOpen(u) => u = t
Stands(t) == journal[t].status # "deleted"

\* One open trade: what a config holds, in memory or on disk, or works on is its only open trade;
\* and one that is Sure to hold nothing, because the journal was asked, or its trade was closed,
\* has none.
Sure ==
    \/ op.st # NoTrade
    \/ op.at \in {"predict", "catchup", "caughtup", "move"} /\ ~dirty
    \/ op.at \in {"clear", "open"}

OneOpen ==
    \A t, u \in DOMAIN journal : journal[t].key = journal[u].key /\ IsOpen(t) /\ IsOpen(u) => t = u
HeldIsOnly ==
    \A k \in Keys : \A t \in {store.held[k], disk.held[k]} : t # NoTrade => OnlyOpen(k, t)
WorkIsOnly ==
    /\ InConfig /\ Sure => OnlyOpen(op.key, op.st)
    /\ op.at = "clear" => NoneOpen(op.key)

OneOpenAtATime == OneOpen /\ HeldIsOnly /\ WorkIsOnly

\* One trade of a prediction: a trade is on a bar its market has had, and one that stands on the
\* newest bar is open, with the side of that bar's signal. The decision in progress has looked at a
\* bar no older than any trade of its config, and agrees with the one that stands on that bar.
Decided == ConfigStages \ {"predict", "record"}

OneOnABar ==
    \A t, u \in DOMAIN journal :
        /\ journal[t].key = journal[u].key /\ journal[t].on = journal[u].on
        /\ Stands(t) /\ Stands(u)
        => t = u
NewestStands ==
    \A t \in DOMAIN journal :
        LET now == market[journal[t].key]
        IN  /\ journal[t].on =< now.bar
            /\ Stands(t) /\ journal[t].on = now.bar => IsOpen(t) /\ journal[t].side = now.signal
DecisionIsNewest ==
    op.at \in Decided =>
        /\ op.on =< market[op.key].bar
        /\ op.on = market[op.key].bar => op.target = market[op.key].signal
        /\ \A t \in DOMAIN journal : journal[t].key = op.key =>
              /\ journal[t].on =< op.on
              /\ Stands(t) /\ journal[t].on = op.on => IsOpen(t) /\ journal[t].side = op.target
        /\ op.at = "close" => op.target # SideOf(op.st)

OneOfAPrediction == OneOnABar /\ NewestStands /\ DecisionIsNewest

\* A fresh book: an older trade is deleted, and neither a store nor the book nor the pass has one,
\* except, until the store is reset too, what was held and owed.
Uses(t) ==
    \/ \E k \in Keys : t \in {store.held[k], disk.held[k], lot[k]}
    \/ \E p \in Obligations : p.trade = t
    \/ \E kind \in Kinds : <<t, kind>> \in booked
    \/ InConfig /\ op.st = t

OldIsDeleted == \A t \in DOMAIN journal : Current(t) \/ ~Stands(t)
UsedIsCurrent ==
    IF op.at = "resetstore" THEN booked = {} /\ \A k \in Keys : lot[k] = NoTrade
                            ELSE \A t \in DOMAIN journal : Uses(t) => Current(t)

FreshIsFresh == OldIsDeleted /\ UsedIsCurrent

\* An engine that forgets nothing: it knows of every open trade, and of the trade of its generation on
\* the newest bar, which it was opened for; a decision turns only from a trade of an older bar.
Here(k) == IF InConfig /\ op.key = k THEN op.st ELSE store.held[k]

OpenIsHere ==
    \A k \in Keys : \A t \in DOMAIN journal : journal[t].key = k /\ IsOpen(t) => Here(k) = t
OneOfAGeneration ==
    \A t, u \in DOMAIN journal :
        /\ journal[t].key = journal[u].key /\ journal[t].on = journal[u].on
        /\ journal[t].gen = journal[u].gen
        => t = u
NewestIsHere ==
    \A k \in Keys : \A t \in DOMAIN journal : journal[t].key = k =>
        /\ journal[t].on =< market[k].bar
        /\ Current(t) /\ journal[t].on = market[k].bar =>
              Here(k) = t /\ journal[t].side = market[k].signal
DecisionIsHere ==
    op.at \in Decided =>
        /\ op.on =< market[op.key].bar
        /\ op.on = market[op.key].bar => op.target = market[op.key].signal
        /\ \A t \in DOMAIN journal : journal[t].key = op.key =>
              /\ journal[t].on =< op.on
              /\ Current(t) /\ journal[t].on = op.on => op.st = t /\ journal[t].side = op.target
        /\ op.at \in {"close", "exit", "clear"} => op.target # SideOf(op.st)
ClearedIsClosed == op.at = "clear" => \A t \in DOMAIN journal : op.st = t => ~IsOpen(t)
NewBookIsEmpty ==
    /\ \A t \in DOMAIN journal : journal[t].gen =< gen
    /\ op.at = "resetstore" => \A t \in DOMAIN journal : ~IsOpen(t) /\ ~Current(t)

NothingForgotten ==
    /\ op.at # "down"
    /\ OpenIsHere /\ OneOfAGeneration /\ NewestIsHere /\ DecisionIsHere /\ ClearedIsClosed
    /\ NewBookIsEmpty

\* The scenarios: the journal is always there to be asked for the open trades; nobody deletes a
\* trade; the store can be written, and the process is not stopped; and the engine is told of every
\* trade it creates, too.
Listed == "list" \notin Faults
Kept == Listed /\ "gone" \notin Faults /\ scenario.resets = 0
Unbroken == scenario.crashes = 0 /\ Faults \cap {"save", "saveLost", "saveUnsynced"} = {}
Remembering == Unbroken /\ "createLost" \notin Faults

NoneIsGone == \A t \in DOMAIN journal : Stands(t)
NoReset == (gen # 0 \/ op.at \in ResetStages) => scenario.resets # 0

ActsInv ==
    /\ Listed => OneOpenAtATime /\ OneOfAPrediction
    /\ Kept => NoneIsGone
    /\ Unbroken => FreshIsFresh
    /\ Remembering => NothingForgotten
    /\ scenario.resets = 0 => \A t \in DOMAIN journal : Current(t)
    /\ NoReset /\ crashes \in Nat
-----------------------------------------------------------------------------
(***************************************************************************)
(* What most steps do.                                                     *)
(***************************************************************************)
\* No trade is added, and none is opened or comes back.
JournalFalls ==
    /\ DOMAIN journal' = DOMAIN journal
    /\ \A t \in DOMAIN journal :
          /\ journal'[t].key = journal[t].key /\ journal'[t].side = journal[t].side
          /\ journal'[t].on = journal[t].on /\ journal'[t].gen = journal[t].gen
          /\ IsOpen(t)' => IsOpen(t)
          /\ Stands(t)' => Stands(t)

\* And none is closed: a trade is deleted or stays as it is.
JournalDeletes ==
    JournalFalls /\ \A t \in DOMAIN journal : Stands(t)' /\ IsOpen(t) => IsOpen(t)'

\* What a config holds, on either store, it held on one of them, or works on.
HeldFrom ==
    \A k \in Keys : \A t \in {store'.held[k], disk'.held[k]} :
        t \in {NoTrade, store.held[k], disk.held[k]} \/ (InConfig /\ op.key = k /\ op.st = t)

\* A decision works on a trade that was in use, or none,
TakesFrom == InConfig' => op'.st = NoTrade \/ Uses(op'.st)

\* and is as sure of it as it was.
WorkFrom ==
    /\ InConfig' /\ Sure' =>
          InConfig /\ Sure /\ op'.key = op.key /\ (op'.st = op.st \/ op.at = "clear")
    /\ op'.at = "clear" => op.at \in {"exit", "clear"} /\ op'.key = op.key

\* It goes on with its bar and target, or takes those of the newest bar.
PassFrom ==
    op'.at \in Decided =>
        /\ op'.key = op.key
        /\ \/ op.at \in Decided /\ op'.on = op.on /\ op'.target = op.target
           \/ /\ op.at = "predict" /\ op'.at # "close"
              /\ op'.on = market[op.key].bar /\ op'.target = market[op.key].signal
        /\ op'.at = "close" => op'.target # SideOf(op'.st) \/ (op.at = "close" /\ op'.st = op.st)

\* What is held or worked on is still so, until it is cleared, in a scenario where saves succeed.
HereFrom ==
    Remembering /\ op.at # "down" =>
        /\ op'.at # "down"
        /\ \A k \in Keys :
              Here(k)' = Here(k) \/ (op.at = "clear" /\ op.key = k /\ Here(k)' = NoTrade)
LeaveFrom ==
    /\ op'.at = "exit" => op.at \in {"close", "exit"} /\ op'.st = op.st /\ op'.key = op.key
    /\ op'.at = "clear" => op.at \in {"exit", "clear"} /\ op'.st = op.st /\ op'.key = op.key

\* What is owed, booked or a lot was in use.
OwedFrom == \A p \in Obligations' : Uses(p.trade)
BookFrom ==
    \A t \in DOMAIN journal :
        (\E k \in Keys : lot'[k] = t) \/ (\E kind \in Kinds : <<t, kind>> \in booked') => Uses(t)

\* A reset that has emptied the book is not over and not begun.
StageFrom ==
    /\ op'.at = "resetstore" <=> op.at = "resetstore"
    /\ op.at = "resetstore" => UNCHANGED <<booked, lot>>

Turns ==
    /\ UNCHANGED <<gen, crashes, scenario>>
    /\ HeldFrom /\ TakesFrom /\ WorkFrom /\ PassFrom /\ OwedFrom /\ BookFrom /\ StageFrom
    /\ HereFrom /\ LeaveFrom
    /\ op'.at \in ResetStages => op.at \in ResetStages

Goes == Turns /\ UNCHANGED <<journal, market>>
-----------------------------------------------------------------------------
(***************************************************************************)
(* What such steps keep.                                                   *)
(***************************************************************************)
\* What a config holds and works on stays its only open trade.
LEMMA OnlyOneOpen ==
    ASSUME EngineInv, OneOpenAtATime, JournalFalls, HeldFrom, WorkFrom
    PROVE  OneOpenAtATime'
<1>1. OneOpen'
  BY DEF OneOpenAtATime, OneOpen, JournalFalls
<1>2. \A k, t : OnlyOpen(k, t) => \A u \in DOMAIN journal' : journal'[u].key = k /\ IsOpen(u)' => u = t
  BY DEF OnlyOpen, JournalFalls
<1>3. ASSUME NEW k \in Keys, NEW t \in {store'.held[k], disk'.held[k]}, t # NoTrade
      PROVE  OnlyOpen(k, t)
  <2>1. CASE t \in {store.held[k], disk.held[k]}
    BY <1>3, <2>1 DEF OneOpenAtATime, HeldIsOnly
  <2>2. CASE InConfig /\ op.key = k /\ op.st = t
    BY <1>3, <2>2 DEF OneOpenAtATime, WorkIsOnly, Sure
  <2> QED
    BY <1>3, <2>1, <2>2 DEF HeldFrom
<1>4. HeldIsOnly'
  BY <1>2, <1>3 DEF HeldIsOnly, OnlyOpen
<1>5. op.at = "exit" => NoneOpen(op.key)
  BY DEF EngineInv, Keyed, WorkIsOwn, Agreement, ExitingAgrees, OneOpenAtATime, WorkIsOnly, Sure,
         OnlyOpen, NoneOpen, InConfig, ConfigStages
<1>6. NoneOpen(op.key) => \A u \in DOMAIN journal' : journal'[u].key = op.key => ~IsOpen(u)'
  BY DEF NoneOpen, JournalFalls
<1>7. op'.at = "clear" => \A u \in DOMAIN journal' : journal'[u].key = op'.key => ~IsOpen(u)'
  <2>1. op.at = "clear" => NoneOpen(op.key)
    BY DEF OneOpenAtATime, WorkIsOnly
  <2> QED
    BY <1>5, <1>6, <2>1 DEF WorkFrom
<1>8. InConfig' /\ Sure' => OnlyOpen(op'.key, op'.st)
  BY DEF WorkFrom, OneOpenAtATime, WorkIsOnly, NoneOpen, OnlyOpen
<1>9. WorkIsOnly'
  BY <1>2, <1>7, <1>8 DEF WorkIsOnly, OnlyOpen, NoneOpen
<1> QED
  BY <1>1, <1>4, <1>9 DEF OneOpenAtATime

\* A trade that stands is the only one of its prediction.
LEMMA OnlyOneOfAPrediction ==
    ASSUME EngineInv, EngineInv', OneOfAPrediction, JournalDeletes, PassFrom, market' = market
    PROVE  OneOfAPrediction'
<1>1. /\ OneOnABar /\ NewestStands /\ DecisionIsNewest
      /\ WorldFacts
  BY WorldTyped DEF OneOfAPrediction, EngineInv, TypeOK
<1>2. OneOnABar'
  BY <1>1 DEF OneOnABar, JournalDeletes, JournalFalls
<1>3. NewestStands'
  BY <1>1 DEF NewestStands, JournalDeletes, JournalFalls
<1>4. ASSUME op'.at \in Decided PROVE DecisionIsNewest'
  <2>1. CASE op.at \in Decided /\ op'.on = op.on /\ op'.target = op.target
    <3>1. op'.key = op.key
      BY <1>4 DEF PassFrom
    <3>2. \A t \in DOMAIN journal' : journal'[t].key = op.key =>
              /\ journal'[t].on =< op.on
              /\ Stands(t)' /\ journal'[t].on = op.on => IsOpen(t)' /\ journal'[t].side = op.target
      BY <1>1, <2>1 DEF DecisionIsNewest, JournalDeletes, JournalFalls
    <3>3. op'.at = "close" => op'.target # SideOf(op'.st)
      BY <1>1, <1>4, <2>1 DEF PassFrom, DecisionIsNewest
    <3>4. op'.at = "close" => op'.st = NoTrade \/ op'.st \in DOMAIN journal
      BY DEF EngineInv, Keyed, WorkIsOwn, InConfig, ConfigStages, Owns, JournalDeletes, JournalFalls
    <3>5. op'.at = "close" => SideOf(op.st)' = SideOf(op'.st)
      BY <3>4 DEF SideOf, JournalDeletes, JournalFalls
    <3> QED
      BY <1>1, <2>1, <3>1, <3>2, <3>3, <3>5 DEF DecisionIsNewest
  <2>2. CASE /\ op.at = "predict" /\ op'.at # "close"
             /\ op'.on = market[op.key].bar /\ op'.target = market[op.key].signal
    <3>1. op'.key = op.key
      BY <1>4 DEF PassFrom
    <3>2. \A t \in DOMAIN journal' : journal'[t].key = op.key =>
              /\ journal'[t].on =< op'.on
              /\ Stands(t)' /\ journal'[t].on = op'.on => IsOpen(t)' /\ journal'[t].side = op'.target
      BY <1>1, <2>2 DEF NewestStands, JournalDeletes, JournalFalls
    <3>3. op.key \in Keys /\ market[op.key].bar \in Nat
      BY <2>2, OpTyped DEF EngineInv, TypeOK, WorldTypeOK, OpFacts, InConfig, ConfigStages
    <3> QED
      BY <2>2, <3>1, <3>2, <3>3 DEF DecisionIsNewest
  <2> QED
    BY <1>4, <2>1, <2>2 DEF PassFrom
<1>5. DecisionIsNewest'
  BY <1>4 DEF DecisionIsNewest
<1> QED
  BY <1>2, <1>3, <1>5 DEF OneOfAPrediction

\* What was not used is not used, so no older trade comes back.
LEMMA OnlyTheFresh ==
    ASSUME EngineInv, FreshIsFresh, JournalFalls, gen' = gen,
           HeldFrom, TakesFrom, OwedFrom, BookFrom, StageFrom
    PROVE  FreshIsFresh'
<1>1. WorldFacts
  BY WorldTyped DEF EngineInv, TypeOK
<1>2. \A t \in DOMAIN journal : Current(t)' <=> Current(t)
  BY DEF JournalFalls, Current
<1>3. OldIsDeleted'
  BY <1>2 DEF FreshIsFresh, OldIsDeleted, JournalFalls
<1>4. ASSUME NEW t \in DOMAIN journal, Uses(t)' PROVE Uses(t)
  <2>1. t # NoTrade
    BY <1>1 DEF WorldFacts
  <2>2. CASE \E k \in Keys : t \in {store'.held[k], disk'.held[k]}
    BY <2>1, <2>2 DEF HeldFrom, Uses
  <2>3. CASE \E k \in Keys : t = lot'[k]
    BY <2>3 DEF BookFrom
  <2>4. CASE \E p \in Obligations' : p.trade = t
    BY <2>4 DEF OwedFrom
  <2>5. CASE \E kind \in Kinds : <<t, kind>> \in booked'
    BY <2>5 DEF BookFrom
  <2>6. CASE InConfig' /\ op'.st = t
    BY <2>1, <2>6 DEF TakesFrom
  <2> QED
    BY <1>4, <2>2, <2>3, <2>4, <2>5, <2>6 DEF Uses
<1>5. UsedIsCurrent'
  <2>1. CASE op.at = "resetstore"
    BY <2>1 DEF StageFrom, FreshIsFresh, UsedIsCurrent
  <2>2. CASE op.at # "resetstore"
    <3>1. \A t \in DOMAIN journal' : Uses(t)' => Current(t)'
      BY <1>2, <1>4, <2>2 DEF FreshIsFresh, UsedIsCurrent, JournalFalls
    <3> QED
      BY <2>2, <3>1 DEF StageFrom, UsedIsCurrent
  <2> QED
    BY <2>1, <2>2
<1> QED
  BY <1>3, <1>5 DEF FreshIsFresh

\* An engine that forgot nothing and goes on has forgotten nothing: what it clears is closed, and not
\* of the newest bar.
LEMMA NothingIsForgotten ==
    ASSUME EngineInv, EngineInv', NothingForgotten, Remembering, JournalFalls, gen' = gen,
           market' = market, HereFrom, LeaveFrom, PassFrom, StageFrom
    PROVE  NothingForgotten'
<1>1. WorldFacts /\ WorldTypeOK /\ OpFacts
  BY WorldTyped, OpTyped DEF EngineInv, TypeOK
<1>2. /\ op.at # "down" /\ op'.at # "down"
      /\ OpenIsHere /\ OneOfAGeneration /\ NewestIsHere /\ DecisionIsHere /\ ClearedIsClosed
      /\ NewBookIsEmpty
  BY DEF NothingForgotten, HereFrom
<1>3. \A t \in DOMAIN journal : Current(t)' <=> Current(t)
  BY DEF JournalFalls, Current
<1>4. /\ op.at \in {"close", "exit", "clear"} => Here(op.key) = op.st
      /\ \A k \in Keys : Here(k)' = Here(k) \/ (op.at = "clear" /\ op.key = k)
  BY <1>2 DEF HereFrom, Here, InConfig, ConfigStages
<1>5. \A t \in DOMAIN journal : journal[t].key \in Keys /\ t # NoTrade /\ journal[t].on \in Nat
  BY <1>1 DEF WorldFacts, Records
<1>6. op.at \in Decided => op.key \in Keys /\ op.on \in Nat
  BY <1>1 DEF OpFacts, InConfig, Decided
<1>7. \A k \in Keys : market[k].bar \in Nat
  BY <1>1 DEF WorldTypeOK
<1>8. op.at \in {"close", "exit", "clear"} =>
          \A t \in DOMAIN journal : journal[t].key = op.key /\ Current(t) /\ op.st = t =>
              journal[t].on # op.on /\ journal[t].on # market[op.key].bar
  BY <1>2, <1>5, <1>6, <1>7 DEF DecisionIsHere, Decided, ConfigStages, SideOf
<1>9. OpenIsHere'
  <2>1. ASSUME NEW k \in Keys, NEW t \in DOMAIN journal, journal[t].key = k, IsOpen(t) PROVE Here(k)' = t
    <3>1. Here(k) = t
      BY <1>2, <2>1 DEF OpenIsHere
    <3> QED
      BY <1>2, <1>4, <2>1, <3>1 DEF ClearedIsClosed
  <2> QED
    BY <2>1 DEF OpenIsHere, JournalFalls
<1>10. OneOfAGeneration'
  BY <1>2 DEF OneOfAGeneration, JournalFalls
<1>11. NewestIsHere'
  <2>1. ASSUME NEW k \in Keys, NEW t \in DOMAIN journal, journal[t].key = k
        PROVE  /\ journal[t].on =< market[k].bar
               /\ Current(t) /\ journal[t].on = market[k].bar =>
                     Here(k)' = t /\ journal[t].side = market[k].signal
    <3>1. /\ journal[t].on =< market[k].bar
          /\ Current(t) /\ journal[t].on = market[k].bar =>
                Here(k) = t /\ journal[t].side = market[k].signal
      BY <1>2, <2>1 DEF NewestIsHere
    <3> QED
      BY <1>4, <1>8, <2>1, <3>1
  <2> QED
    BY <1>3, <2>1 DEF NewestIsHere, JournalFalls
<1>12. ASSUME op'.at \in Decided PROVE DecisionIsHere'
  <2>1. InConfig /\ InConfig' /\ op'.key = op.key /\ op.key \in Keys
    BY <1>1, <1>12 DEF PassFrom, InConfig, Decided, ConfigStages, OpFacts
  <2>2. Here(op.key) = op.st /\ (op'.st = op.st \/ op.at = "clear")
    <3>1. PICK k \in Keys : k = op.key
      BY <2>1
    <3>2. Here(k)' = op'.st /\ Here(k) = op.st
      BY <2>1, <3>1 DEF Here
    <3> QED
      BY <1>4, <3>1, <3>2
  <2>3. /\ op'.at \in {"exit", "clear"} => op.at \in {"close", "exit", "clear"} /\ op'.st = op.st
        /\ op'.at = "close" => op'.target # SideOf(op'.st) \/ (op.at = "close" /\ op'.st = op.st)
    BY <1>12 DEF LeaveFrom, PassFrom
  <2>4. op'.at \in {"close", "exit", "clear"} => SideOf(op.st)' = SideOf(op'.st)
    <3>1. op'.at \in {"close", "exit", "clear"} => op'.st = NoTrade \/ op'.st \in DOMAIN journal
      BY DEF EngineInv, Keyed, WorkIsOwn, InConfig, ConfigStages, Owns, JournalFalls
    <3> QED
      BY <3>1 DEF SideOf, JournalFalls
  <2>5. CASE op.at \in Decided /\ op'.on = op.on /\ op'.target = op.target
    <3>1. /\ op.on =< market[op.key].bar
          /\ op.on = market[op.key].bar => op.target = market[op.key].signal
          /\ \A t \in DOMAIN journal : journal[t].key = op.key =>
                /\ journal[t].on =< op.on
                /\ Current(t) /\ journal[t].on = op.on => op.st = t /\ journal[t].side = op.target
          /\ op.at \in {"close", "exit", "clear"} => op.target # SideOf(op.st)
      BY <1>2, <2>5 DEF DecisionIsHere
    <3>2. \A t \in DOMAIN journal :
              journal[t].key = op.key /\ Current(t) /\ journal[t].on = op.on => op'.st = t
      BY <1>8, <2>2, <3>1
    <3>3. op'.at \in {"close", "exit", "clear"} => op'.target # SideOf(op.st)'
      BY <2>3, <2>4, <2>5, <3>1
    <3> QED
      BY <1>3, <2>1, <2>5, <3>1, <3>2, <3>3 DEF DecisionIsHere, JournalFalls
  <2>6. CASE /\ op.at = "predict" /\ op'.at # "close"
             /\ op'.on = market[op.key].bar /\ op'.target = market[op.key].signal
    <3>1. \A t \in DOMAIN journal : journal[t].key = op.key =>
              /\ journal[t].on =< op'.on
              /\ Current(t) /\ journal[t].on = op'.on => op'.st = t /\ journal[t].side = op'.target
      BY <1>2, <2>1, <2>2, <2>6 DEF NewestIsHere
    <3>2. op'.at \notin {"close", "exit", "clear"}
      BY <2>3, <2>6
    <3>3. op'.on =< market[op'.key].bar /\ op'.target = market[op'.key].signal
      BY <1>7, <2>1, <2>6
    <3> QED
      BY <1>3, <2>1, <3>1, <3>2, <3>3 DEF DecisionIsHere, JournalFalls
  <2> QED
    BY <1>12, <2>5, <2>6 DEF PassFrom
<1>13. ClearedIsClosed'
  <2>1. op.at = "exit" => ~IsOpen(op.st)
    BY DEF EngineInv, Agreement, ExitingAgrees
  <2> QED
    BY <1>2, <2>1 DEF ClearedIsClosed, LeaveFrom, JournalFalls
<1>14. NewBookIsEmpty'
  BY <1>2, <1>3 DEF NewBookIsEmpty, JournalFalls, StageFrom
<1> QED
  BY <1>2, <1>9, <1>10, <1>11, <1>12, <1>13, <1>14 DEF NothingForgotten, DecisionIsHere

\* A journal as it was has neither closed nor deleted a trade.
LEMMA JournalStays == ASSUME journal' = journal PROVE JournalFalls /\ JournalDeletes
BY DEF JournalFalls, JournalDeletes, IsOpen, Stands

\* What holds of the scenario holds of it still.
LEMMA ScenarioStays ==
    ASSUME scenario' = scenario
    PROVE  Listed' = Listed /\ Kept' = Kept /\ Unbroken' = Unbroken /\ Remembering' = Remembering
BY DEF Listed, Kept, Unbroken, Remembering, Faults

\* So a step that only goes on keeps all of it.
LEMMA GoesActs == ASSUME EngineInv, EngineInv', ActsInv, Goes PROVE ActsInv'
<1>1. /\ UNCHANGED <<journal, market, gen, crashes, scenario>>
      /\ HeldFrom /\ TakesFrom /\ WorkFrom /\ PassFrom /\ OwedFrom /\ BookFrom /\ StageFrom
      /\ HereFrom /\ LeaveFrom
      /\ op'.at \in ResetStages => op.at \in ResetStages
  BY DEF Goes, Turns
<1>2. /\ JournalFalls /\ JournalDeletes
      /\ Listed' = Listed /\ Kept' = Kept /\ Unbroken' = Unbroken /\ Remembering' = Remembering
  BY <1>1, JournalStays, ScenarioStays
<1>3. Listed => OneOpenAtATime' /\ OneOfAPrediction'
  BY <1>1, <1>2, OnlyOneOpen, OnlyOneOfAPrediction DEF ActsInv
<1>4. Unbroken => FreshIsFresh'
  BY <1>1, <1>2, OnlyTheFresh DEF ActsInv
<1>5. Kept => NoneIsGone'
  BY <1>1 DEF ActsInv, NoneIsGone, Stands
<1>6. scenario'.resets = 0 => \A t \in DOMAIN journal' : Current(t)'
  BY <1>1 DEF ActsInv, Current
<1>7. NoReset' /\ crashes' \in Nat
  BY <1>1 DEF ActsInv, NoReset
<1>8. Remembering => NothingForgotten'
  BY <1>1, <1>2, NothingIsForgotten DEF ActsInv
<1> QED
  BY <1>2, <1>3, <1>4, <1>5, <1>6, <1>7, <1>8 DEF ActsInv
\* A leg that is booked is of a trade in use, and so is the lot it leaves.
LEMMA LegUses ==
    ASSUME WorldTypeOK, WorldFacts, NEW p \in Legs, BookLeg(p), Uses(p.trade)
    PROVE  BookFrom
<1>1. p.key \in Keys /\ p.trade \in Nat /\ p.kind \in Kinds
  BY DEF Legs
<1>2. /\ \A k \in Keys : k # p.key => lot'[k] = lot[k]
      /\ \/ /\ lot'[p.key] = p.trade
            /\ booked' = booked \cup {<<p.trade, p.kind>>}
         \/ /\ lot[p.key] # NoTrade /\ lot'[p.key] = NoTrade
            /\ booked' = booked \cup {<<lot[p.key], p.kind>>}
  BY <1>1, BookLegDoes
<1>3. Uses(lot[p.key])
  BY <1>1 DEF Uses
<1>4. ASSUME NEW t \in DOMAIN journal, NEW k \in Keys, lot'[k] = t PROVE Uses(t)
  <2>1. t # NoTrade
    BY DEF WorldFacts
  <2>2. CASE k = p.key
    BY <1>2, <1>4, <2>1, <2>2
  <2>3. CASE k # p.key
    BY <1>2, <1>4, <2>3 DEF Uses
  <2> QED BY <2>2, <2>3
<1>5. ASSUME NEW t \in DOMAIN journal, NEW kind \in Kinds, <<t, kind>> \in booked' PROVE Uses(t)
  <2>1. CASE <<t, kind>> \in booked
    BY <2>1 DEF Uses
  <2>2. CASE <<t, kind>> \notin booked
    <3>1. t = p.trade \/ t = lot[p.key]
      BY <1>2, <1>5, <2>2
    <3> QED BY <1>3, <3>1
  <2> QED BY <2>1, <2>2
<1> QED
  BY <1>4, <1>5 DEF BookFrom
-----------------------------------------------------------------------------
(***************************************************************************)
(* One lemma per action: it only goes on.                                  *)
(***************************************************************************)
\* The retry takes what is owed in memory.
LEMMA BeginTickGoes == ASSUME EngineInv, BeginTick PROVE Goes
<1>1. WorldFacts /\ StoreFacts(store) /\ StoreFacts(disk) /\ OpFacts /\ WorldTypeOK /\ StoreTypeOK
  BY WorldTyped, StoreTyped, OpTyped DEF EngineInv, TypeOK, StoreTypeOK
<1>2. /\ op.at = "idle"
      /\ op'.at = "retry" /\ op'.left = store.owed
      /\ UNCHANGED <<store, disk, dirty>>
      /\ UNCHANGED <<booked, lot>>
      /\ UNCHANGED <<journal, market, gen, crashes, scenario>>
  BY <1>1 DEF BeginTick, Idle, book, env, OpFacts, InConfig
<1>6. HeldFrom
  BY <1>1, <1>2 DEF HeldFrom
<1>7. TakesFrom /\ WorkFrom
  BY <1>1, <1>2 DEF TakesFrom, WorkFrom, InConfig, ConfigStages
<1>8. PassFrom
  BY <1>1, <1>2 DEF PassFrom, Decided, ConfigStages
<1>9. OwedFrom
  BY <1>2 DEF OwedFrom, Uses, Obligations, Retried, RetryStages, OwedIn
<1>10. BookFrom
  BY <1>2 DEF BookFrom, Uses
<1>11. StageFrom /\ ~(op'.at \in ResetStages)
  BY <1>2 DEF StageFrom, ResetStages
<1>12. HereFrom
  BY <1>2 DEF HereFrom, Here, InConfig, ConfigStages
<1>13. LeaveFrom
  BY <1>2 DEF LeaveFrom
<1> QED
  BY <1>2, <1>6, <1>7, <1>8, <1>9, <1>10, <1>11, <1>12, <1>13 DEF Goes, Turns

\* A retry books a leg that is owed.
LEMMA RetryBooksGoes == ASSUME EngineInv, RetryBooks PROVE Goes
<1>1. WorldFacts /\ StoreFacts(store) /\ StoreFacts(disk) /\ OpFacts /\ WorldTypeOK /\ StoreTypeOK
  BY WorldTyped, StoreTyped, OpTyped DEF EngineInv, TypeOK, StoreTypeOK
<1>2. /\ op.at = "retry" /\ op.left # <<>>
      /\ op'.at = "retried" /\ op'.left = op.left
      /\ UNCHANGED <<store, disk, dirty>>
      /\ BookLeg(Owed)
      /\ UNCHANGED <<journal, market, gen, crashes, scenario>>
  BY <1>1 DEF RetryBooks, Retrying, RetryOps, RetryStages, BookLeg, book, env, OpFacts, InConfig
<1>6. HeldFrom
  BY <1>1, <1>2 DEF HeldFrom
<1>7. TakesFrom /\ WorkFrom
  BY <1>1, <1>2 DEF TakesFrom, WorkFrom, InConfig, ConfigStages
<1>8. PassFrom
  BY <1>1, <1>2 DEF PassFrom, Decided, ConfigStages
<1>9. OwedFrom
  BY <1>2 DEF OwedFrom, Uses, Obligations, Retried, RetryStages
<1>10. BookFrom
  <2>1. Owed \in Legs /\ Owed \in Obligations
    BY <1>1, <1>2, HeadIsOwed DEF RetryStages, Obligations
  <2> QED
    BY <1>1, <1>2, <2>1, LegUses DEF Uses, Legs
<1>11. StageFrom /\ ~(op'.at \in ResetStages)
  BY <1>2 DEF StageFrom, ResetStages
<1>12. HereFrom
  BY <1>2 DEF HereFrom, Here, InConfig, ConfigStages
<1>13. LeaveFrom
  BY <1>2 DEF LeaveFrom
<1> QED
  BY <1>2, <1>6, <1>7, <1>8, <1>9, <1>10, <1>11, <1>12, <1>13 DEF Goes, Turns

\* A leg already booked is passed over.
LEMMA RetryAlreadyBookedGoes == ASSUME EngineInv, RetryAlreadyBooked PROVE Goes
<1>1. WorldFacts /\ StoreFacts(store) /\ StoreFacts(disk) /\ OpFacts /\ WorldTypeOK /\ StoreTypeOK
  BY WorldTyped, StoreTyped, OpTyped DEF EngineInv, TypeOK, StoreTypeOK
<1>2. /\ op.at = "retry"
      /\ op'.at = "retried" /\ op'.left = op.left
      /\ UNCHANGED <<store, disk, dirty>>
      /\ UNCHANGED <<booked, lot>>
      /\ UNCHANGED <<journal, market, gen, crashes, scenario>>
  BY <1>1 DEF RetryAlreadyBooked, Retrying, RetryOps, RetryStages, book, env, OpFacts, InConfig
<1>6. HeldFrom
  BY <1>1, <1>2 DEF HeldFrom
<1>7. TakesFrom /\ WorkFrom
  BY <1>1, <1>2 DEF TakesFrom, WorkFrom, InConfig, ConfigStages
<1>8. PassFrom
  BY <1>1, <1>2 DEF PassFrom, Decided, ConfigStages
<1>9. OwedFrom
  BY <1>2 DEF OwedFrom, Uses, Obligations, Retried, RetryStages
<1>10. BookFrom
  BY <1>2 DEF BookFrom, Uses
<1>11. StageFrom /\ ~(op'.at \in ResetStages)
  BY <1>2 DEF StageFrom, ResetStages
<1>12. HereFrom
  BY <1>2 DEF HereFrom, Here, InConfig, ConfigStages
<1>13. LeaveFrom
  BY <1>2 DEF LeaveFrom
<1> QED
  BY <1>2, <1>6, <1>7, <1>8, <1>9, <1>10, <1>11, <1>12, <1>13 DEF Goes, Turns

\* A refused one stays owed,
LEMMA RetryFailsGoes == ASSUME EngineInv, RetryFails PROVE Goes
<1>1. WorldFacts /\ StoreFacts(store) /\ StoreFacts(disk) /\ OpFacts /\ WorldTypeOK /\ StoreTypeOK
  BY WorldTyped, StoreTyped, OpTyped DEF EngineInv, TypeOK, StoreTypeOK
<1>2. /\ op.at = "retry" /\ op.left # <<>>
      /\ op'.at = "retry" /\ op'.left = Tail(op.left)
      /\ UNCHANGED <<booked, lot>>
      /\ UNCHANGED <<journal, market, gen, crashes, scenario>>
  BY <1>1 DEF RetryFails, Retrying, RetryOps, RetryStages, book, env, OpFacts, InConfig
<1> DEFINE new == store
<1>3. Save(new)
  BY DEF RetryFails
<1>4. (\A j \in Keys : new.held[j] = store.held[j]) /\ OwedIn(new) = OwedIn(store)
  OBVIOUS
<1> HIDE DEF new
<1>5. store' \in {store, new} /\ disk' \in {disk, new}
  BY <1>3, SaveDoes
<1>6. HeldFrom
  BY <1>1, <1>2, <1>4, <1>5 DEF HeldFrom
<1>7. TakesFrom /\ WorkFrom
  BY <1>1, <1>2 DEF TakesFrom, WorkFrom, InConfig, ConfigStages
<1>8. PassFrom
  BY <1>1, <1>2 DEF PassFrom, Decided, ConfigStages
<1>9. OwedFrom
  <2>1. op.at \in RetryStages /\ op.left # <<>>
    BY <1>2 DEF RetryStages, EngineInv, Keyed, WorkIsOwn
  <2>2. Retried' \subseteq Retried
    BY <1>1, <1>2, <2>1, HeadIsOwed DEF Retried, RetryStages
  <2> QED
    BY <1>1, <1>2, <1>4, <1>5, <2>2 DEF OwedFrom, Uses, Obligations
<1>10. BookFrom
  BY <1>2 DEF BookFrom, Uses
<1>11. StageFrom /\ ~(op'.at \in ResetStages)
  BY <1>2 DEF StageFrom, ResetStages
<1>12. HereFrom
  <2>1. Remembering => store' = new
    BY <1>3 DEF Save, Remembering, Unbroken
  <2> QED
    BY <1>2, <1>4, <2>1 DEF HereFrom, Here, InConfig, ConfigStages
<1>13. LeaveFrom
  BY <1>2 DEF LeaveFrom
<1> QED
  BY <1>2, <1>6, <1>7, <1>8, <1>9, <1>10, <1>11, <1>12, <1>13 DEF Goes, Turns

\* and a booked one is settled.
LEMMA RetryResolvesGoes == ASSUME EngineInv, RetryResolves PROVE Goes
<1>1. WorldFacts /\ StoreFacts(store) /\ StoreFacts(disk) /\ OpFacts /\ WorldTypeOK /\ StoreTypeOK
  BY WorldTyped, StoreTyped, OpTyped DEF EngineInv, TypeOK, StoreTypeOK
<1>2. /\ op.at = "retried"
      /\ op'.at = "retry" /\ op'.left = Tail(op.left)
      /\ UNCHANGED <<booked, lot>>
      /\ UNCHANGED <<journal, market, gen, crashes, scenario>>
  BY <1>1 DEF RetryResolves, RetryOps, RetryStages, book, env, OpFacts, InConfig
<1> DEFINE new == Settling(Owed)
<1>3. Save(new)
  BY DEF RetryResolves
<1>4. (\A j \in Keys : new.held[j] = store.held[j]) /\ OwedIn(new) \subseteq OwedIn(store)
  BY <1>1, SettlingOwes DEF StoreTypeOK
<1> HIDE DEF new
<1>5. store' \in {store, new} /\ disk' \in {disk, new}
  BY <1>3, SaveDoes
<1>6. HeldFrom
  BY <1>1, <1>2, <1>4, <1>5 DEF HeldFrom
<1>7. TakesFrom /\ WorkFrom
  BY <1>1, <1>2 DEF TakesFrom, WorkFrom, InConfig, ConfigStages
<1>8. PassFrom
  BY <1>1, <1>2 DEF PassFrom, Decided, ConfigStages
<1>9. OwedFrom
  <2>1. op.at \in RetryStages /\ op.left # <<>>
    BY <1>2 DEF RetryStages, EngineInv, Keyed, WorkIsOwn
  <2>2. Retried' \subseteq Retried
    BY <1>1, <1>2, <2>1, HeadIsOwed DEF Retried, RetryStages
  <2> QED
    BY <1>1, <1>2, <1>4, <1>5, <2>2 DEF OwedFrom, Uses, Obligations
<1>10. BookFrom
  BY <1>2 DEF BookFrom, Uses
<1>11. StageFrom /\ ~(op'.at \in ResetStages)
  BY <1>2 DEF StageFrom, ResetStages
<1>12. HereFrom
  <2>1. Remembering => store' = new
    BY <1>3 DEF Save, Remembering, Unbroken
  <2> QED
    BY <1>2, <1>4, <2>1 DEF HereFrom, Here, InConfig, ConfigStages
<1>13. LeaveFrom
  BY <1>2 DEF LeaveFrom
<1> QED
  BY <1>2, <1>6, <1>7, <1>8, <1>9, <1>10, <1>11, <1>12, <1>13 DEF Goes, Turns

\* The stores are compared.
LEMMA ReconcileGoes == ASSUME EngineInv, Reconcile PROVE Goes
<1>1. WorldFacts /\ StoreFacts(store) /\ StoreFacts(disk) /\ OpFacts /\ WorldTypeOK /\ StoreTypeOK
  BY WorldTyped, StoreTyped, OpTyped DEF EngineInv, TypeOK, StoreTypeOK
<1>2. /\ op.at = "retry"
      /\ op'.at = "mark"
      /\ UNCHANGED <<store, disk, dirty>>
      /\ UNCHANGED <<booked, lot>>
      /\ UNCHANGED <<journal, market, gen, crashes, scenario>>
  BY <1>1 DEF Reconcile, book, env, OpFacts, InConfig
<1>6. HeldFrom
  BY <1>1, <1>2 DEF HeldFrom
<1>7. TakesFrom /\ WorkFrom
  BY <1>1, <1>2 DEF TakesFrom, WorkFrom, InConfig, ConfigStages
<1>8. PassFrom
  BY <1>1, <1>2 DEF PassFrom, Decided, ConfigStages
<1>9. OwedFrom
  <2>1. Retried' = {}
    BY <1>2 DEF Retried, RetryStages
  <2> QED
    BY <1>1, <1>2, <2>1 DEF OwedFrom, Uses, Obligations
<1>10. BookFrom
  BY <1>2 DEF BookFrom, Uses
<1>11. StageFrom /\ ~(op'.at \in ResetStages)
  BY <1>2 DEF StageFrom, ResetStages
<1>12. HereFrom
  BY <1>2 DEF HereFrom, Here, InConfig, ConfigStages
<1>13. LeaveFrom
  BY <1>2 DEF LeaveFrom
<1> QED
  BY <1>2, <1>6, <1>7, <1>8, <1>9, <1>10, <1>11, <1>12, <1>13 DEF Goes, Turns

\* The bars are marked,
LEMMA MarkBarGoes == ASSUME EngineInv, NEW k \in Keys, MarkBar(k) PROVE Goes
<1>1. WorldFacts /\ StoreFacts(store) /\ StoreFacts(disk) /\ OpFacts /\ WorldTypeOK /\ StoreTypeOK
  BY WorldTyped, StoreTyped, OpTyped DEF EngineInv, TypeOK, StoreTypeOK
<1>2. /\ op.at = "mark"
      /\ op'.at = "mark"
      /\ UNCHANGED <<store, disk, dirty>>
      /\ UNCHANGED <<booked, lot>>
      /\ UNCHANGED <<journal, market, gen, crashes, scenario>>
  BY <1>1 DEF MarkBar, MarkOps, book, env, OpFacts, InConfig
<1>6. HeldFrom
  BY <1>1, <1>2 DEF HeldFrom
<1>7. TakesFrom /\ WorkFrom
  BY <1>1, <1>2 DEF TakesFrom, WorkFrom, InConfig, ConfigStages
<1>8. PassFrom
  BY <1>1, <1>2 DEF PassFrom, Decided, ConfigStages
<1>9. OwedFrom
  <2>1. Retried' = {}
    BY <1>2 DEF Retried, RetryStages
  <2> QED
    BY <1>1, <1>2, <2>1 DEF OwedFrom, Uses, Obligations
<1>10. BookFrom
  BY <1>2 DEF BookFrom, Uses
<1>11. StageFrom /\ ~(op'.at \in ResetStages)
  BY <1>2 DEF StageFrom, ResetStages
<1>12. HereFrom
  BY <1>2 DEF HereFrom, Here, InConfig, ConfigStages
<1>13. LeaveFrom
  BY <1>2 DEF LeaveFrom
<1> QED
  BY <1>2, <1>6, <1>7, <1>8, <1>9, <1>10, <1>11, <1>12, <1>13 DEF Goes, Turns

\* or are not there to be marked,
LEMMA MarkUnavailableGoes == ASSUME EngineInv, NEW k \in Keys, MarkUnavailable(k) PROVE Goes
<1>1. WorldFacts /\ StoreFacts(store) /\ StoreFacts(disk) /\ OpFacts /\ WorldTypeOK /\ StoreTypeOK
  BY WorldTyped, StoreTyped, OpTyped DEF EngineInv, TypeOK, StoreTypeOK
<1>2. /\ op.at = "mark"
      /\ op'.at = "mark"
      /\ UNCHANGED <<booked, lot>>
      /\ UNCHANGED <<journal, market, gen, crashes, scenario>>
  BY <1>1 DEF MarkUnavailable, MarkOps, book, env, OpFacts, InConfig
<1> DEFINE new == store
<1>3. Save(new)
  BY DEF MarkUnavailable
<1>4. (\A j \in Keys : new.held[j] = store.held[j]) /\ OwedIn(new) = OwedIn(store)
  OBVIOUS
<1> HIDE DEF new
<1>5. store' \in {store, new} /\ disk' \in {disk, new}
  BY <1>3, SaveDoes
<1>6. HeldFrom
  BY <1>1, <1>2, <1>4, <1>5 DEF HeldFrom
<1>7. TakesFrom /\ WorkFrom
  BY <1>1, <1>2 DEF TakesFrom, WorkFrom, InConfig, ConfigStages
<1>8. PassFrom
  BY <1>1, <1>2 DEF PassFrom, Decided, ConfigStages
<1>9. OwedFrom
  <2>1. Retried' = {}
    BY <1>2 DEF Retried, RetryStages
  <2> QED
    BY <1>1, <1>2, <1>4, <1>5, <2>1 DEF OwedFrom, Uses, Obligations
<1>10. BookFrom
  BY <1>2 DEF BookFrom, Uses
<1>11. StageFrom /\ ~(op'.at \in ResetStages)
  BY <1>2 DEF StageFrom, ResetStages
<1>12. HereFrom
  <2>1. Remembering => store' = new
    BY <1>3 DEF Save, Remembering, Unbroken
  <2> QED
    BY <1>2, <1>4, <2>1 DEF HereFrom, Here, InConfig, ConfigStages
<1>13. LeaveFrom
  BY <1>2 DEF LeaveFrom
<1> QED
  BY <1>2, <1>6, <1>7, <1>8, <1>9, <1>10, <1>11, <1>12, <1>13 DEF Goes, Turns

\* until all of them are.
LEMMA EndMarksGoes == ASSUME EngineInv, EndMarks PROVE Goes
<1>1. WorldFacts /\ StoreFacts(store) /\ StoreFacts(disk) /\ OpFacts /\ WorldTypeOK /\ StoreTypeOK
  BY WorldTyped, StoreTyped, OpTyped DEF EngineInv, TypeOK, StoreTypeOK
<1>2. /\ op.at = "mark"
      /\ op'.at = "decide"
      /\ UNCHANGED <<store, disk, dirty>>
      /\ UNCHANGED <<booked, lot>>
      /\ UNCHANGED <<journal, market, gen, crashes, scenario>>
  BY <1>1 DEF EndMarks, book, env, OpFacts, InConfig
<1>6. HeldFrom
  BY <1>1, <1>2 DEF HeldFrom
<1>7. TakesFrom /\ WorkFrom
  BY <1>1, <1>2 DEF TakesFrom, WorkFrom, InConfig, ConfigStages
<1>8. PassFrom
  BY <1>1, <1>2 DEF PassFrom, Decided, ConfigStages
<1>9. OwedFrom
  <2>1. Retried' = {}
    BY <1>2 DEF Retried, RetryStages
  <2> QED
    BY <1>1, <1>2, <2>1 DEF OwedFrom, Uses, Obligations
<1>10. BookFrom
  BY <1>2 DEF BookFrom, Uses
<1>11. StageFrom /\ ~(op'.at \in ResetStages)
  BY <1>2 DEF StageFrom, ResetStages
<1>12. HereFrom
  BY <1>2 DEF HereFrom, Here, InConfig, ConfigStages
<1>13. LeaveFrom
  BY <1>2 DEF LeaveFrom
<1> QED
  BY <1>2, <1>6, <1>7, <1>8, <1>9, <1>10, <1>11, <1>12, <1>13 DEF Goes, Turns

\* A prediction is asked for: the decision takes the bar and the signal of that moment.
LEMMA PredictGoes == ASSUME EngineInv, Predict PROVE Goes
<1>1. WorldFacts /\ StoreFacts(store) /\ StoreFacts(disk) /\ OpFacts /\ WorldTypeOK /\ StoreTypeOK
  BY WorldTyped, StoreTyped, OpTyped DEF EngineInv, TypeOK, StoreTypeOK
<1>2. /\ op.at = "predict"
      /\ op'.at \in {"record", "catchup"} /\ (op'.at = "catchup" => ~dirty)
      /\ op'.key = op.key /\ op'.st = op.st
      /\ op'.at = "catchup" => op'.on = market[op.key].bar /\ op'.target = market[op.key].signal
      /\ UNCHANGED <<store, disk, dirty>>
      /\ UNCHANGED <<booked, lot>>
      /\ UNCHANGED <<journal, market, gen, crashes, scenario>>
  BY <1>1 DEF Predict, Recorded, ConfigOps, ConfigStages, book, env, OpFacts, InConfig
<1>6. HeldFrom
  BY <1>1, <1>2 DEF HeldFrom, InConfig, ConfigStages
<1>7. TakesFrom /\ WorkFrom
  BY <1>1, <1>2 DEF TakesFrom, WorkFrom, Sure, InConfig, ConfigStages, Uses
<1>8. PassFrom
  BY <1>1, <1>2 DEF PassFrom, Decided, ConfigStages
<1>9. OwedFrom
  <2>1. Retried' = {}
    BY <1>2 DEF Retried, RetryStages
  <2> QED
    BY <1>1, <1>2, <2>1 DEF OwedFrom, Uses, Obligations
<1>10. BookFrom
  BY <1>2 DEF BookFrom, Uses
<1>11. StageFrom /\ ~(op'.at \in ResetStages)
  BY <1>2 DEF StageFrom, ResetStages
<1>12. HereFrom
  BY <1>2 DEF HereFrom, Here, InConfig, ConfigStages
<1>13. LeaveFrom
  BY <1>2 DEF LeaveFrom
<1> QED
  BY <1>2, <1>6, <1>7, <1>8, <1>9, <1>10, <1>11, <1>12, <1>13 DEF Goes, Turns

\* A lot that is missing is booked,
LEMMA CatchUpBooksGoes == ASSUME EngineInv, CatchUpBooks PROVE Goes
<1>1. WorldFacts /\ StoreFacts(store) /\ StoreFacts(disk) /\ OpFacts /\ WorldTypeOK /\ StoreTypeOK
  BY WorldTyped, StoreTyped, OpTyped DEF EngineInv, TypeOK, StoreTypeOK
<1>2. /\ op.at = "catchup" /\ op.st # NoTrade
      /\ op'.at = "caughtup"
      /\ op'.key = op.key /\ op'.st = op.st
      /\ op'.on = op.on /\ op'.target = op.target
      /\ UNCHANGED <<store, disk, dirty>>
      /\ BookLeg(EntryLeg(op.st))
      /\ UNCHANGED <<journal, market, gen, crashes, scenario>>
  BY <1>1
     DEF CatchUpBooks, CatchesUp, GoTo, ConfigOps, ConfigStages, BookLeg, book, env, OpFacts, InConfig
<1>6. HeldFrom
  BY <1>1, <1>2 DEF HeldFrom, InConfig, ConfigStages
<1>7. TakesFrom /\ WorkFrom
  BY <1>1, <1>2 DEF TakesFrom, WorkFrom, Sure, InConfig, ConfigStages, Uses
<1>8. PassFrom
  BY <1>1, <1>2 DEF PassFrom, Decided, ConfigStages
<1>9. OwedFrom
  <2>1. Retried' = {}
    BY <1>2 DEF Retried, RetryStages
  <2> QED
    BY <1>1, <1>2, <2>1 DEF OwedFrom, Uses, Obligations
<1>10. BookFrom
  <2>1. op.key \in Keys /\ op.st \in DOMAIN journal /\ InConfig
    BY <1>1, <1>2 DEF OpFacts, InConfig, ConfigStages, EngineInv, Keyed, WorkIsOwn, Owns
  <2>2. EntryLeg(op.st) \in Legs /\ EntryLeg(op.st).trade = op.st
    BY <1>1, <2>1 DEF EntryLeg, Legs, Kinds, WorldFacts
  <2>3. Uses(op.st)
    BY <2>1 DEF Uses
  <2> QED
    BY <1>1, <1>2, <2>2, <2>3, LegUses
<1>11. StageFrom /\ ~(op'.at \in ResetStages)
  BY <1>2 DEF StageFrom, ResetStages
<1>12. HereFrom
  BY <1>2 DEF HereFrom, Here, InConfig, ConfigStages
<1>13. LeaveFrom
  BY <1>2 DEF LeaveFrom
<1> QED
  BY <1>2, <1>6, <1>7, <1>8, <1>9, <1>10, <1>11, <1>12, <1>13 DEF Goes, Turns

\* and its obligation settled,
LEMMA CaughtUpGoes == ASSUME EngineInv, CaughtUp PROVE Goes
<1>1. WorldFacts /\ StoreFacts(store) /\ StoreFacts(disk) /\ OpFacts /\ WorldTypeOK /\ StoreTypeOK
  BY WorldTyped, StoreTyped, OpTyped DEF EngineInv, TypeOK, StoreTypeOK
<1>2. /\ op.at = "caughtup"
      /\ op'.at = "move"
      /\ op'.key = op.key /\ op'.st = op.st
      /\ op'.on = op.on /\ op'.target = op.target
      /\ UNCHANGED <<booked, lot>>
      /\ UNCHANGED <<journal, market, gen, crashes, scenario>>
  <2>1. PICK checked \in BOOLEAN :
          op' = [op EXCEPT !.at = "move", !.sync[op.key] = Verdict(store', dirty', op.key, checked)]
    BY DEF CaughtUp, JournalAnswers
  <2>2. op.at = "caughtup" /\ op \in ConfigOps /\ UNCHANGED <<booked, lot, journal, market, gen, crashes, scenario>>
    BY <1>1 DEF CaughtUp, book, env, OpFacts, InConfig, ConfigStages
  <2> DEFINE new == [op.sync EXCEPT ![op.key] = Verdict(store', dirty', op.key, checked)]
  <2>3. op' = [op EXCEPT !.at = "move", !.sync = new]
    BY <2>1
  <2> HIDE DEF new
  <2> QED
    BY <2>2, <2>3 DEF ConfigOps
<1> DEFINE new == Settling(EntryLeg(op.st))
<1>3. Save(new)
  BY DEF CaughtUp
<1>4. (\A j \in Keys : new.held[j] = store.held[j]) /\ OwedIn(new) \subseteq OwedIn(store)
  BY <1>1, SettlingOwes DEF StoreTypeOK
<1> HIDE DEF new
<1>5. store' \in {store, new} /\ disk' \in {disk, new}
  BY <1>3, SaveDoes
<1>6. HeldFrom
  BY <1>1, <1>2, <1>4, <1>5 DEF HeldFrom, InConfig, ConfigStages
<1>7. TakesFrom /\ WorkFrom
  BY <1>1, <1>2 DEF TakesFrom, WorkFrom, Sure, InConfig, ConfigStages, Uses, EngineInv, Keyed, WorkIsOwn
<1>8. PassFrom
  BY <1>1, <1>2 DEF PassFrom, Decided, ConfigStages
<1>9. OwedFrom
  <2>1. Retried' = {}
    BY <1>2 DEF Retried, RetryStages
  <2> QED
    BY <1>1, <1>2, <1>4, <1>5, <2>1 DEF OwedFrom, Uses, Obligations
<1>10. BookFrom
  BY <1>2 DEF BookFrom, Uses
<1>11. StageFrom /\ ~(op'.at \in ResetStages)
  BY <1>2 DEF StageFrom, ResetStages
<1>12. HereFrom
  <2>1. Remembering => store' = new
    BY <1>3 DEF Save, Remembering, Unbroken
  <2> QED
    BY <1>2, <1>4, <2>1 DEF HereFrom, Here, InConfig, ConfigStages
<1>13. LeaveFrom
  BY <1>2 DEF LeaveFrom
<1> QED
  BY <1>2, <1>6, <1>7, <1>8, <1>9, <1>10, <1>11, <1>12, <1>13 DEF Goes, Turns

\* or it is owed;
LEMMA CatchUpRefusedGoes == ASSUME EngineInv, CatchUpRefused PROVE Goes
<1>1. WorldFacts /\ StoreFacts(store) /\ StoreFacts(disk) /\ OpFacts /\ WorldTypeOK /\ StoreTypeOK
  BY WorldTyped, StoreTyped, OpTyped DEF EngineInv, TypeOK, StoreTypeOK
<1>2. /\ op.at = "catchup" /\ op.st # NoTrade
      /\ op'.at = "move"
      /\ op'.key = op.key /\ op'.st = op.st
      /\ op'.on = op.on /\ op'.target = op.target
      /\ UNCHANGED <<booked, lot>>
      /\ UNCHANGED <<journal, market, gen, crashes, scenario>>
  BY <1>1 DEF CatchUpRefused, CatchesUp, Owe, ConfigOps, ConfigStages, book, env, OpFacts, InConfig
<1> DEFINE new == Owing(EntryLeg(op.st))
<1>3. Save(new)
  BY DEF CatchUpRefused, Owe
<1>p. EntryLeg(op.st) \in Legs /\ Uses(EntryLeg(op.st).trade)
  <2>1. op.key \in Keys /\ op.st \in DOMAIN journal /\ InConfig
    BY <1>1, <1>2 DEF OpFacts, InConfig, ConfigStages, EngineInv, Keyed, WorkIsOwn, Owns
  <2>2. EntryLeg(op.st) \in Legs /\ EntryLeg(op.st).trade = op.st
    BY <1>1, <2>1 DEF EntryLeg, Legs, Kinds, WorldFacts
  <2> QED
    BY <2>1, <2>2 DEF Uses
<1>4. (\A j \in Keys : new.held[j] = store.held[j]) /\ OwedIn(new) = OwedIn(store) \cup {EntryLeg(op.st)}
  BY <1>1, <1>p, OwingOwes DEF StoreTypeOK
<1> HIDE DEF new
<1>5. store' \in {store, new} /\ disk' \in {disk, new}
  BY <1>3, SaveDoes
<1>6. HeldFrom
  BY <1>1, <1>2, <1>p, <1>4, <1>5 DEF HeldFrom, InConfig, ConfigStages
<1>7. TakesFrom /\ WorkFrom
  BY <1>1, <1>2 DEF TakesFrom, WorkFrom, Sure, InConfig, ConfigStages, Uses
<1>8. PassFrom
  BY <1>1, <1>2 DEF PassFrom, Decided, ConfigStages
<1>9. OwedFrom
  <2>1. Retried' = {}
    BY <1>2 DEF Retried, RetryStages
  <2> QED
    BY <1>1, <1>2, <1>p, <1>4, <1>5, <2>1 DEF OwedFrom, Uses, Obligations
<1>10. BookFrom
  BY <1>2 DEF BookFrom, Uses
<1>11. StageFrom /\ ~(op'.at \in ResetStages)
  BY <1>2 DEF StageFrom, ResetStages
<1>12. HereFrom
  <2>1. Remembering => store' = new
    BY <1>3 DEF Save, Remembering, Unbroken
  <2> QED
    BY <1>2, <1>4, <2>1 DEF HereFrom, Here, InConfig, ConfigStages
<1>13. LeaveFrom
  BY <1>2 DEF LeaveFrom
<1> QED
  BY <1>2, <1>6, <1>7, <1>8, <1>9, <1>10, <1>11, <1>12, <1>13 DEF Goes, Turns

\* or none is missing.
LEMMA NothingToCatchUpGoes == ASSUME EngineInv, NothingToCatchUp PROVE Goes
<1>1. WorldFacts /\ StoreFacts(store) /\ StoreFacts(disk) /\ OpFacts /\ WorldTypeOK /\ StoreTypeOK
  BY WorldTyped, StoreTyped, OpTyped DEF EngineInv, TypeOK, StoreTypeOK
<1>2. /\ op.at = "catchup" /\ ~dirty
      /\ op'.at = "move"
      /\ op'.key = op.key /\ op'.st = op.st
      /\ op'.on = op.on /\ op'.target = op.target
      /\ UNCHANGED <<store, disk, dirty>>
      /\ UNCHANGED <<booked, lot>>
      /\ UNCHANGED <<journal, market, gen, crashes, scenario>>
  BY <1>1
     DEF NothingToCatchUp, GoTo, EngineInv, Durable, DurableStages, ConfigOps, ConfigStages, book, env,
         OpFacts, InConfig
<1>6. HeldFrom
  BY <1>1, <1>2 DEF HeldFrom, InConfig, ConfigStages
<1>7. TakesFrom /\ WorkFrom
  BY <1>1, <1>2 DEF TakesFrom, WorkFrom, Sure, InConfig, ConfigStages, Uses
<1>8. PassFrom
  BY <1>1, <1>2 DEF PassFrom, Decided, ConfigStages
<1>9. OwedFrom
  <2>1. Retried' = {}
    BY <1>2 DEF Retried, RetryStages
  <2> QED
    BY <1>1, <1>2, <2>1 DEF OwedFrom, Uses, Obligations
<1>10. BookFrom
  BY <1>2 DEF BookFrom, Uses
<1>11. StageFrom /\ ~(op'.at \in ResetStages)
  BY <1>2 DEF StageFrom, ResetStages
<1>12. HereFrom
  BY <1>2 DEF HereFrom, Here, InConfig, ConfigStages
<1>13. LeaveFrom
  BY <1>2 DEF LeaveFrom
<1> QED
  BY <1>2, <1>6, <1>7, <1>8, <1>9, <1>10, <1>11, <1>12, <1>13 DEF Goes, Turns

\* A config that may not move records as much.
LEMMA RefuseGoes == ASSUME EngineInv, Refuse PROVE Goes
<1>1. WorldFacts /\ StoreFacts(store) /\ StoreFacts(disk) /\ OpFacts /\ WorldTypeOK /\ StoreTypeOK
  BY WorldTyped, StoreTyped, OpTyped DEF EngineInv, TypeOK, StoreTypeOK
<1>2. /\ op.at = "move"
      /\ op'.at = "record"
      /\ op'.key = op.key /\ op'.st = op.st
      /\ UNCHANGED <<store, disk, dirty>>
      /\ UNCHANGED <<booked, lot>>
      /\ UNCHANGED <<journal, market, gen, crashes, scenario>>
  BY <1>1 DEF Refuse, Recorded, ConfigOps, ConfigStages, book, env, OpFacts, InConfig
<1>6. HeldFrom
  BY <1>1, <1>2 DEF HeldFrom, InConfig, ConfigStages
<1>7. TakesFrom /\ WorkFrom
  BY <1>1, <1>2 DEF TakesFrom, WorkFrom, Sure, InConfig, ConfigStages, Uses
<1>8. PassFrom
  BY <1>1, <1>2 DEF PassFrom, Decided, ConfigStages
<1>9. OwedFrom
  <2>1. Retried' = {}
    BY <1>2 DEF Retried, RetryStages
  <2> QED
    BY <1>1, <1>2, <2>1 DEF OwedFrom, Uses, Obligations
<1>10. BookFrom
  BY <1>2 DEF BookFrom, Uses
<1>11. StageFrom /\ ~(op'.at \in ResetStages)
  BY <1>2 DEF StageFrom, ResetStages
<1>12. HereFrom
  BY <1>2 DEF HereFrom, Here, InConfig, ConfigStages
<1>13. LeaveFrom
  BY <1>2 DEF LeaveFrom
<1> QED
  BY <1>2, <1>6, <1>7, <1>8, <1>9, <1>10, <1>11, <1>12, <1>13 DEF Goes, Turns

\* One that may turns from what it holds.
LEMMA MoveGoes == ASSUME EngineInv, Move PROVE Goes
<1>1. WorldFacts /\ StoreFacts(store) /\ StoreFacts(disk) /\ OpFacts /\ WorldTypeOK /\ StoreTypeOK
  BY WorldTyped, StoreTyped, OpTyped DEF EngineInv, TypeOK, StoreTypeOK
<1>2. /\ op.at = "move" /\ ~dirty
      /\ op'.at = (IF op.st = NoTrade THEN "open" ELSE "close")
      /\ op'.key = op.key /\ op'.st = op.st
      /\ op'.on = op.on /\ op'.target = op.target
      /\ op.target # SideOf(op.st)
      /\ UNCHANGED <<store, disk, dirty>>
      /\ UNCHANGED <<booked, lot>>
      /\ UNCHANGED <<journal, market, gen, crashes, scenario>>
  BY <1>1 DEF Move, MayMove, ConfigOps, ConfigStages, book, env, OpFacts, InConfig
<1>6. HeldFrom
  BY <1>1, <1>2 DEF HeldFrom, InConfig, ConfigStages
<1>7. TakesFrom /\ WorkFrom
  BY <1>1, <1>2 DEF TakesFrom, WorkFrom, Sure, InConfig, ConfigStages, Uses
<1>8. PassFrom
  BY <1>1, <1>2 DEF PassFrom, Decided, ConfigStages
<1>9. OwedFrom
  <2>1. Retried' = {}
    BY <1>2 DEF Retried, RetryStages
  <2> QED
    BY <1>1, <1>2, <2>1 DEF OwedFrom, Uses, Obligations
<1>10. BookFrom
  BY <1>2 DEF BookFrom, Uses
<1>11. StageFrom /\ ~(op'.at \in ResetStages)
  BY <1>2 DEF StageFrom, ResetStages
<1>12. HereFrom
  BY <1>2 DEF HereFrom, Here, InConfig, ConfigStages
<1>13. LeaveFrom
  BY <1>2 DEF LeaveFrom
<1> QED
  BY <1>2, <1>6, <1>7, <1>8, <1>9, <1>10, <1>11, <1>12, <1>13 DEF Goes, Turns

\* The journal does not close the trade,
LEMMA JournalRefusesCloseGoes == ASSUME EngineInv, JournalRefusesClose PROVE Goes
<1>1. WorldFacts /\ StoreFacts(store) /\ StoreFacts(disk) /\ OpFacts /\ WorldTypeOK /\ StoreTypeOK
  BY WorldTyped, StoreTyped, OpTyped DEF EngineInv, TypeOK, StoreTypeOK
<1>2. /\ op.at = "close"
      /\ op'.at = "record"
      /\ op'.key = op.key /\ op'.st = op.st
      /\ UNCHANGED <<store, disk, dirty>>
      /\ UNCHANGED <<booked, lot>>
      /\ UNCHANGED <<journal, market, gen, crashes, scenario>>
  BY <1>1 DEF JournalRefusesClose, Recorded, ConfigOps, ConfigStages, book, env, OpFacts, InConfig
<1>6. HeldFrom
  BY <1>1, <1>2 DEF HeldFrom, InConfig, ConfigStages
<1>7. TakesFrom /\ WorkFrom
  BY <1>1, <1>2 DEF TakesFrom, WorkFrom, Sure, InConfig, ConfigStages, Uses
<1>8. PassFrom
  BY <1>1, <1>2 DEF PassFrom, Decided, ConfigStages
<1>9. OwedFrom
  <2>1. Retried' = {}
    BY <1>2 DEF Retried, RetryStages
  <2> QED
    BY <1>1, <1>2, <2>1 DEF OwedFrom, Uses, Obligations
<1>10. BookFrom
  BY <1>2 DEF BookFrom, Uses
<1>11. StageFrom /\ ~(op'.at \in ResetStages)
  BY <1>2 DEF StageFrom, ResetStages
<1>12. HereFrom
  BY <1>2 DEF HereFrom, Here, InConfig, ConfigStages
<1>13. LeaveFrom
  BY <1>2 DEF LeaveFrom
<1> QED
  BY <1>2, <1>6, <1>7, <1>8, <1>9, <1>10, <1>11, <1>12, <1>13 DEF Goes, Turns

\* or has lost it.
LEMMA JournalHasNoTradeGoes == ASSUME EngineInv, JournalHasNoTrade PROVE Goes
<1>1. WorldFacts /\ StoreFacts(store) /\ StoreFacts(disk) /\ OpFacts /\ WorldTypeOK /\ StoreTypeOK
  BY WorldTyped, StoreTyped, OpTyped DEF EngineInv, TypeOK, StoreTypeOK
<1>2. /\ op.at = "close"
      /\ op'.at = "exit"
      /\ op'.key = op.key /\ op'.st = op.st
      /\ op'.on = op.on /\ op'.target = op.target
      /\ UNCHANGED <<store, disk, dirty>>
      /\ UNCHANGED <<booked, lot>>
      /\ UNCHANGED <<journal, market, gen, crashes, scenario>>
  BY <1>1 DEF JournalHasNoTrade, ConfigOps, ConfigStages, book, env, OpFacts, InConfig
<1>6. HeldFrom
  BY <1>1, <1>2 DEF HeldFrom, InConfig, ConfigStages
<1>7. TakesFrom /\ WorkFrom
  BY <1>1, <1>2 DEF TakesFrom, WorkFrom, Sure, InConfig, ConfigStages, Uses
<1>8. PassFrom
  BY <1>1, <1>2 DEF PassFrom, Decided, ConfigStages
<1>9. OwedFrom
  <2>1. Retried' = {}
    BY <1>2 DEF Retried, RetryStages
  <2> QED
    BY <1>1, <1>2, <2>1 DEF OwedFrom, Uses, Obligations
<1>10. BookFrom
  BY <1>2 DEF BookFrom, Uses
<1>11. StageFrom /\ ~(op'.at \in ResetStages)
  BY <1>2 DEF StageFrom, ResetStages
<1>12. HereFrom
  BY <1>2 DEF HereFrom, Here, InConfig, ConfigStages
<1>13. LeaveFrom
  BY <1>2 DEF LeaveFrom
<1> QED
  BY <1>2, <1>6, <1>7, <1>8, <1>9, <1>10, <1>11, <1>12, <1>13 DEF Goes, Turns

\* The exit is booked,
LEMMA BookExitGoes == ASSUME EngineInv, BookExit PROVE Goes
<1>1. WorldFacts /\ StoreFacts(store) /\ StoreFacts(disk) /\ OpFacts /\ WorldTypeOK /\ StoreTypeOK
  BY WorldTyped, StoreTyped, OpTyped DEF EngineInv, TypeOK, StoreTypeOK
<1>2. /\ op.at = "exit"
      /\ op'.at = "clear"
      /\ op'.key = op.key /\ op'.st = op.st
      /\ op'.on = op.on /\ op'.target = op.target
      /\ UNCHANGED <<store, disk, dirty>>
      /\ UNCHANGED <<booked, lot>> \/ BookLeg(ExitLeg(lot[op.key]))
      /\ UNCHANGED <<journal, market, gen, crashes, scenario>>
  BY <1>1 DEF BookExit, GoTo, ConfigOps, ConfigStages, BookLeg, book, env, OpFacts, InConfig
<1>6. HeldFrom
  BY <1>1, <1>2 DEF HeldFrom, InConfig, ConfigStages
<1>7. TakesFrom /\ WorkFrom
  BY <1>1, <1>2 DEF TakesFrom, WorkFrom, Sure, InConfig, ConfigStages, Uses, EngineInv, Keyed, WorkIsOwn
<1>8. PassFrom
  BY <1>1, <1>2 DEF PassFrom, Decided, ConfigStages
<1>9. OwedFrom
  <2>1. Retried' = {}
    BY <1>2 DEF Retried, RetryStages
  <2> QED
    BY <1>1, <1>2, <2>1 DEF OwedFrom, Uses, Obligations
<1>10. BookFrom
  <2>1. CASE UNCHANGED <<booked, lot>>
    BY <2>1 DEF BookFrom, Uses
  <2>2. CASE BookLeg(ExitLeg(lot[op.key]))
    <3>1. op.key \in Keys /\ lot[op.key] \in Nat
      BY <1>1, <1>2 DEF OpFacts, InConfig, ConfigStages, WorldTypeOK
    <3>2. ExitLeg(lot[op.key]) \in Legs /\ Uses(ExitLeg(lot[op.key]).trade)
      BY <1>1, <3>1 DEF ExitLeg, Legs, Kinds, Book!CloseKinds, Uses
    <3> QED
      BY <1>1, <2>2, <3>2, LegUses
  <2> QED
    BY <1>2, <2>1, <2>2
<1>11. StageFrom /\ ~(op'.at \in ResetStages)
  BY <1>2 DEF StageFrom, ResetStages
<1>12. HereFrom
  BY <1>2 DEF HereFrom, Here, InConfig, ConfigStages
<1>13. LeaveFrom
  BY <1>2 DEF LeaveFrom
<1> QED
  BY <1>2, <1>6, <1>7, <1>8, <1>9, <1>10, <1>11, <1>12, <1>13 DEF Goes, Turns

\* or is owed,
LEMMA ExitRefusedGoes == ASSUME EngineInv, ExitRefused PROVE Goes
<1>1. WorldFacts /\ StoreFacts(store) /\ StoreFacts(disk) /\ OpFacts /\ WorldTypeOK /\ StoreTypeOK
  BY WorldTyped, StoreTyped, OpTyped DEF EngineInv, TypeOK, StoreTypeOK
<1>2. /\ op.at = "exit" /\ ~NoExitToBook
      /\ op'.at = "clear"
      /\ op'.key = op.key /\ op'.st = op.st
      /\ op'.on = op.on /\ op'.target = op.target
      /\ UNCHANGED <<booked, lot>>
      /\ UNCHANGED <<journal, market, gen, crashes, scenario>>
  BY <1>1 DEF ExitRefused, Owe, ExitLeg, ConfigOps, ConfigStages, book, env, OpFacts, InConfig
<1> DEFINE new == Owing(ExitLeg(lot[op.key]))
<1>3. Save(new)
  BY DEF ExitRefused, Owe
<1>p. ExitLeg(lot[op.key]) \in Legs /\ Uses(ExitLeg(lot[op.key]).trade)
  <2>1. op.key \in Keys /\ lot[op.key] \in Nat
    BY <1>1, <1>2 DEF OpFacts, InConfig, ConfigStages, WorldTypeOK
  <2> QED
    BY <2>1 DEF ExitLeg, Legs, Kinds, Book!CloseKinds, Uses
<1>4. (\A j \in Keys : new.held[j] = store.held[j]) /\ OwedIn(new) = OwedIn(store) \cup {ExitLeg(lot[op.key])}
  BY <1>1, <1>p, OwingOwes DEF StoreTypeOK
<1> HIDE DEF new
<1>5. store' \in {store, new} /\ disk' \in {disk, new}
  BY <1>3, SaveDoes
<1>6. HeldFrom
  BY <1>1, <1>2, <1>p, <1>4, <1>5 DEF HeldFrom, InConfig, ConfigStages
<1>7. TakesFrom /\ WorkFrom
  BY <1>1, <1>2 DEF TakesFrom, WorkFrom, Sure, InConfig, ConfigStages, Uses, EngineInv, Keyed, WorkIsOwn
<1>8. PassFrom
  BY <1>1, <1>2 DEF PassFrom, Decided, ConfigStages
<1>9. OwedFrom
  <2>1. Retried' = {}
    BY <1>2 DEF Retried, RetryStages
  <2> QED
    BY <1>1, <1>2, <1>p, <1>4, <1>5, <2>1 DEF OwedFrom, Uses, Obligations
<1>10. BookFrom
  BY <1>2 DEF BookFrom, Uses
<1>11. StageFrom /\ ~(op'.at \in ResetStages)
  BY <1>2 DEF StageFrom, ResetStages
<1>12. HereFrom
  <2>1. Remembering => store' = new
    BY <1>3 DEF Save, Remembering, Unbroken
  <2> QED
    BY <1>2, <1>4, <2>1 DEF HereFrom, Here, InConfig, ConfigStages
<1>13. LeaveFrom
  BY <1>2 DEF LeaveFrom
<1> QED
  BY <1>2, <1>6, <1>7, <1>8, <1>9, <1>10, <1>11, <1>12, <1>13 DEF Goes, Turns

\* and the position is cleared.
LEMMA ClearGoes == ASSUME EngineInv, Clear PROVE Goes
<1>1. WorldFacts /\ StoreFacts(store) /\ StoreFacts(disk) /\ OpFacts /\ WorldTypeOK /\ StoreTypeOK
  BY WorldTyped, StoreTyped, OpTyped DEF EngineInv, TypeOK, StoreTypeOK
<1>2. /\ op.at = "clear"
      /\ op'.at \in {"open", "record"} /\ op'.key = op.key /\ op'.st = NoTrade
      /\ op'.at = "open" => op'.on = op.on /\ op'.target = op.target
      /\ UNCHANGED <<booked, lot>>
      /\ UNCHANGED <<journal, market, gen, crashes, scenario>>
  BY <1>1 DEF Clear, Recorded, ConfigOps, ConfigStages, book, env, OpFacts, InConfig
<1> DEFINE new == Holding(op.key, NoTrade)
<1>3. Save(new)
  BY DEF Clear
<1>4. (\A j \in Keys : new.held[j] = IF j = op.key THEN NoTrade ELSE store.held[j]) /\ OwedIn(new) = OwedIn(store)
  BY <1>1, <1>2, HoldingHolds DEF StoreTypeOK, OpFacts, InConfig, ConfigStages, NoTrade
<1> HIDE DEF new
<1>5. store' \in {store, new} /\ disk' \in {disk, new}
  BY <1>3, SaveDoes
<1>6. HeldFrom
  BY <1>1, <1>2, <1>4, <1>5 DEF HeldFrom, InConfig, ConfigStages
<1>7. TakesFrom /\ WorkFrom
  BY <1>1, <1>2 DEF TakesFrom, WorkFrom, Sure, InConfig, ConfigStages, Uses
<1>8. PassFrom
  BY <1>1, <1>2 DEF PassFrom, Decided, ConfigStages
<1>9. OwedFrom
  <2>1. Retried' = {}
    BY <1>2 DEF Retried, RetryStages
  <2> QED
    BY <1>1, <1>2, <1>4, <1>5, <2>1 DEF OwedFrom, Uses, Obligations
<1>10. BookFrom
  BY <1>2 DEF BookFrom, Uses
<1>11. StageFrom /\ ~(op'.at \in ResetStages)
  BY <1>2 DEF StageFrom, ResetStages
<1>12. HereFrom
  <2>1. Remembering => store' = new
    BY <1>3 DEF Save, Remembering, Unbroken
  <2> QED
    BY <1>2, <1>4, <2>1 DEF HereFrom, Here, InConfig, ConfigStages
<1>13. LeaveFrom
  BY <1>2 DEF LeaveFrom
<1> QED
  BY <1>2, <1>6, <1>7, <1>8, <1>9, <1>10, <1>11, <1>12, <1>13 DEF Goes, Turns

\* The journal does not create the trade;
LEMMA JournalRefusesOpenGoes == ASSUME EngineInv, JournalRefusesOpen PROVE Goes
<1>1. WorldFacts /\ StoreFacts(store) /\ StoreFacts(disk) /\ OpFacts /\ WorldTypeOK /\ StoreTypeOK
  BY WorldTyped, StoreTyped, OpTyped DEF EngineInv, TypeOK, StoreTypeOK
<1>2. /\ op.at = "open"
      /\ op'.at = "record" /\ op'.st = NoTrade /\ op'.key = op.key
      /\ UNCHANGED <<store, disk, dirty>>
      /\ UNCHANGED <<booked, lot>>
      /\ UNCHANGED <<journal, market, gen, crashes, scenario>>
  BY <1>1 DEF JournalRefusesOpen, Recorded, ConfigOps, ConfigStages, book, env, OpFacts, InConfig
<1>6. HeldFrom
  BY <1>1, <1>2 DEF HeldFrom, InConfig, ConfigStages
<1>7. TakesFrom /\ WorkFrom
  BY <1>1, <1>2 DEF TakesFrom, WorkFrom, Sure, InConfig, ConfigStages, Uses
<1>8. PassFrom
  BY <1>1, <1>2 DEF PassFrom, Decided, ConfigStages
<1>9. OwedFrom
  <2>1. Retried' = {}
    BY <1>2 DEF Retried, RetryStages
  <2> QED
    BY <1>1, <1>2, <2>1 DEF OwedFrom, Uses, Obligations
<1>10. BookFrom
  BY <1>2 DEF BookFrom, Uses
<1>11. StageFrom /\ ~(op'.at \in ResetStages)
  BY <1>2 DEF StageFrom, ResetStages
<1>12. HereFrom
  <2>1. op.st = NoTrade
    BY <1>2 DEF EngineInv, Agreement, OpeningIsFlat
  <2> QED
    BY <1>2, <2>1 DEF HereFrom, Here, InConfig, ConfigStages
<1>13. LeaveFrom
  BY <1>2 DEF LeaveFrom
<1> QED
  BY <1>2, <1>6, <1>7, <1>8, <1>9, <1>10, <1>11, <1>12, <1>13 DEF Goes, Turns

\* or it does, and the trade is saved,
LEMMA SaveOpenGoes == ASSUME EngineInv, SaveOpen PROVE Goes
<1>1. WorldFacts /\ StoreFacts(store) /\ StoreFacts(disk) /\ OpFacts /\ WorldTypeOK /\ StoreTypeOK
  BY WorldTyped, StoreTyped, OpTyped DEF EngineInv, TypeOK, StoreTypeOK
<1>2. /\ op.at = "opened"
      /\ op'.at \in {"record", "intend"}
      /\ op'.key = op.key /\ op'.st = op.st
      /\ op'.at = "intend" => op'.on = op.on /\ op'.target = op.target
      /\ UNCHANGED <<booked, lot>>
      /\ UNCHANGED <<journal, market, gen, crashes, scenario>>
  BY <1>1 DEF SaveOpen, Recorded, GoTo, ConfigOps, ConfigStages, book, env, OpFacts, InConfig
<1> DEFINE new == Holding(op.key, op.st)
<1>3. Save(new)
  BY DEF SaveOpen
<1>4. (\A j \in Keys : new.held[j] = IF j = op.key THEN op.st ELSE store.held[j]) /\ OwedIn(new) = OwedIn(store)
  BY <1>1, <1>2, HoldingHolds DEF StoreTypeOK, OpFacts, InConfig, ConfigStages, NoTrade
<1> HIDE DEF new
<1>5. store' \in {store, new} /\ disk' \in {disk, new}
  BY <1>3, SaveDoes
<1>6. HeldFrom
  BY <1>1, <1>2, <1>4, <1>5 DEF HeldFrom, InConfig, ConfigStages
<1>7. TakesFrom /\ WorkFrom
  BY <1>1, <1>2 DEF TakesFrom, WorkFrom, Sure, InConfig, ConfigStages, Uses
<1>8. PassFrom
  BY <1>1, <1>2 DEF PassFrom, Decided, ConfigStages
<1>9. OwedFrom
  <2>1. Retried' = {}
    BY <1>2 DEF Retried, RetryStages
  <2> QED
    BY <1>1, <1>2, <1>4, <1>5, <2>1 DEF OwedFrom, Uses, Obligations
<1>10. BookFrom
  BY <1>2 DEF BookFrom, Uses
<1>11. StageFrom /\ ~(op'.at \in ResetStages)
  BY <1>2 DEF StageFrom, ResetStages
<1>12. HereFrom
  <2>1. Remembering => store' = new
    BY <1>3 DEF Save, Remembering, Unbroken
  <2> QED
    BY <1>2, <1>4, <2>1 DEF HereFrom, Here, InConfig, ConfigStages
<1>13. LeaveFrom
  BY <1>2 DEF LeaveFrom
<1> QED
  BY <1>2, <1>6, <1>7, <1>8, <1>9, <1>10, <1>11, <1>12, <1>13 DEF Goes, Turns

\* owed,
LEMMA IntendGoes == ASSUME EngineInv, Intend PROVE Goes
<1>1. WorldFacts /\ StoreFacts(store) /\ StoreFacts(disk) /\ OpFacts /\ WorldTypeOK /\ StoreTypeOK
  BY WorldTyped, StoreTyped, OpTyped DEF EngineInv, TypeOK, StoreTypeOK
<1>2. /\ op.at = "intend"
      /\ op'.at \in {"record", "entry"}
      /\ op'.key = op.key /\ op'.st = op.st
      /\ op'.at = "entry" => op'.on = op.on /\ op'.target = op.target
      /\ UNCHANGED <<booked, lot>>
      /\ UNCHANGED <<journal, market, gen, crashes, scenario>>
  BY <1>1 DEF Intend, Recorded, GoTo, ConfigOps, ConfigStages, book, env, OpFacts, InConfig
<1> DEFINE new == Owing(EntryLeg(op.st))
<1>3. Save(new)
  BY DEF Intend
<1>p. EntryLeg(op.st) \in Legs /\ Uses(EntryLeg(op.st).trade)
  <2>1. op.key \in Keys /\ op.st \in DOMAIN journal /\ InConfig
    BY <1>1, <1>2 DEF OpFacts, InConfig, ConfigStages, EngineInv, Keyed, WorkIsOwn, Owns
  <2>2. EntryLeg(op.st) \in Legs /\ EntryLeg(op.st).trade = op.st
    BY <1>1, <2>1 DEF EntryLeg, Legs, Kinds, WorldFacts
  <2> QED
    BY <2>1, <2>2 DEF Uses
<1>4. (\A j \in Keys : new.held[j] = store.held[j]) /\ OwedIn(new) = OwedIn(store) \cup {EntryLeg(op.st)}
  BY <1>1, <1>p, OwingOwes DEF StoreTypeOK
<1> HIDE DEF new
<1>5. store' \in {store, new} /\ disk' \in {disk, new}
  BY <1>3, SaveDoes
<1>6. HeldFrom
  BY <1>1, <1>2, <1>p, <1>4, <1>5 DEF HeldFrom, InConfig, ConfigStages
<1>7. TakesFrom /\ WorkFrom
  BY <1>1, <1>2 DEF TakesFrom, WorkFrom, Sure, InConfig, ConfigStages, Uses
<1>8. PassFrom
  BY <1>1, <1>2 DEF PassFrom, Decided, ConfigStages
<1>9. OwedFrom
  <2>1. Retried' = {}
    BY <1>2 DEF Retried, RetryStages
  <2> QED
    BY <1>1, <1>2, <1>p, <1>4, <1>5, <2>1 DEF OwedFrom, Uses, Obligations
<1>10. BookFrom
  BY <1>2 DEF BookFrom, Uses
<1>11. StageFrom /\ ~(op'.at \in ResetStages)
  BY <1>2 DEF StageFrom, ResetStages
<1>12. HereFrom
  <2>1. Remembering => store' = new
    BY <1>3 DEF Save, Remembering, Unbroken
  <2> QED
    BY <1>2, <1>4, <2>1 DEF HereFrom, Here, InConfig, ConfigStages
<1>13. LeaveFrom
  BY <1>2 DEF LeaveFrom
<1> QED
  BY <1>2, <1>6, <1>7, <1>8, <1>9, <1>10, <1>11, <1>12, <1>13 DEF Goes, Turns

\* booked,
LEMMA BookEntryGoes == ASSUME EngineInv, BookEntry PROVE Goes
<1>1. WorldFacts /\ StoreFacts(store) /\ StoreFacts(disk) /\ OpFacts /\ WorldTypeOK /\ StoreTypeOK
  BY WorldTyped, StoreTyped, OpTyped DEF EngineInv, TypeOK, StoreTypeOK
<1>2. /\ op.at = "entry"
      /\ op'.at = "entered"
      /\ op'.key = op.key /\ op'.st = op.st
      /\ op'.on = op.on /\ op'.target = op.target
      /\ UNCHANGED <<store, disk, dirty>>
      /\ BookLeg(EntryLeg(op.st))
      /\ UNCHANGED <<journal, market, gen, crashes, scenario>>
  BY <1>1 DEF BookEntry, GoTo, ConfigOps, ConfigStages, BookLeg, book, env, OpFacts, InConfig
<1>6. HeldFrom
  BY <1>1, <1>2 DEF HeldFrom, InConfig, ConfigStages
<1>7. TakesFrom /\ WorkFrom
  BY <1>1, <1>2 DEF TakesFrom, WorkFrom, Sure, InConfig, ConfigStages, Uses
<1>8. PassFrom
  BY <1>1, <1>2 DEF PassFrom, Decided, ConfigStages
<1>9. OwedFrom
  <2>1. Retried' = {}
    BY <1>2 DEF Retried, RetryStages
  <2> QED
    BY <1>1, <1>2, <2>1 DEF OwedFrom, Uses, Obligations
<1>10. BookFrom
  <2>1. op.key \in Keys /\ op.st \in DOMAIN journal /\ InConfig
    BY <1>1, <1>2 DEF OpFacts, InConfig, ConfigStages, EngineInv, Keyed, WorkIsOwn, Owns
  <2>2. EntryLeg(op.st) \in Legs /\ EntryLeg(op.st).trade = op.st
    BY <1>1, <2>1 DEF EntryLeg, Legs, Kinds, WorldFacts
  <2>3. Uses(op.st)
    BY <2>1 DEF Uses
  <2> QED
    BY <1>1, <1>2, <2>2, <2>3, LegUses
<1>11. StageFrom /\ ~(op'.at \in ResetStages)
  BY <1>2 DEF StageFrom, ResetStages
<1>12. HereFrom
  BY <1>2 DEF HereFrom, Here, InConfig, ConfigStages
<1>13. LeaveFrom
  BY <1>2 DEF LeaveFrom
<1> QED
  BY <1>2, <1>6, <1>7, <1>8, <1>9, <1>10, <1>11, <1>12, <1>13 DEF Goes, Turns

\* and settled,
LEMMA EntryResolvesGoes == ASSUME EngineInv, EntryResolves PROVE Goes
<1>1. WorldFacts /\ StoreFacts(store) /\ StoreFacts(disk) /\ OpFacts /\ WorldTypeOK /\ StoreTypeOK
  BY WorldTyped, StoreTyped, OpTyped DEF EngineInv, TypeOK, StoreTypeOK
<1>2. /\ op.at = "entered"
      /\ op'.at = "record"
      /\ op'.key = op.key /\ op'.st = op.st
      /\ UNCHANGED <<booked, lot>>
      /\ UNCHANGED <<journal, market, gen, crashes, scenario>>
  BY <1>1 DEF EntryResolves, Recorded, ConfigOps, ConfigStages, book, env, OpFacts, InConfig
<1> DEFINE new == Settling(EntryLeg(op.st))
<1>3. Save(new)
  BY DEF EntryResolves
<1>4. (\A j \in Keys : new.held[j] = store.held[j]) /\ OwedIn(new) \subseteq OwedIn(store)
  BY <1>1, SettlingOwes DEF StoreTypeOK
<1> HIDE DEF new
<1>5. store' \in {store, new} /\ disk' \in {disk, new}
  BY <1>3, SaveDoes
<1>6. HeldFrom
  BY <1>1, <1>2, <1>4, <1>5 DEF HeldFrom, InConfig, ConfigStages
<1>7. TakesFrom /\ WorkFrom
  BY <1>1, <1>2 DEF TakesFrom, WorkFrom, Sure, InConfig, ConfigStages, Uses
<1>8. PassFrom
  BY <1>1, <1>2 DEF PassFrom, Decided, ConfigStages
<1>9. OwedFrom
  <2>1. Retried' = {}
    BY <1>2 DEF Retried, RetryStages
  <2> QED
    BY <1>1, <1>2, <1>4, <1>5, <2>1 DEF OwedFrom, Uses, Obligations
<1>10. BookFrom
  BY <1>2 DEF BookFrom, Uses
<1>11. StageFrom /\ ~(op'.at \in ResetStages)
  BY <1>2 DEF StageFrom, ResetStages
<1>12. HereFrom
  <2>1. Remembering => store' = new
    BY <1>3 DEF Save, Remembering, Unbroken
  <2> QED
    BY <1>2, <1>4, <2>1 DEF HereFrom, Here, InConfig, ConfigStages
<1>13. LeaveFrom
  BY <1>2 DEF LeaveFrom
<1> QED
  BY <1>2, <1>6, <1>7, <1>8, <1>9, <1>10, <1>11, <1>12, <1>13 DEF Goes, Turns

\* or stays owed.
LEMMA EntryRefusedGoes == ASSUME EngineInv, EntryRefused PROVE Goes
<1>1. WorldFacts /\ StoreFacts(store) /\ StoreFacts(disk) /\ OpFacts /\ WorldTypeOK /\ StoreTypeOK
  BY WorldTyped, StoreTyped, OpTyped DEF EngineInv, TypeOK, StoreTypeOK
<1>2. /\ op.at = "entry"
      /\ op'.at = "record"
      /\ op'.key = op.key /\ op'.st = op.st
      /\ UNCHANGED <<booked, lot>>
      /\ UNCHANGED <<journal, market, gen, crashes, scenario>>
  BY <1>1 DEF EntryRefused, Recorded, ConfigOps, ConfigStages, book, env, OpFacts, InConfig
<1> DEFINE new == Owing(EntryLeg(op.st))
<1>3. Save(new)
  BY DEF EntryRefused
<1>p. EntryLeg(op.st) \in Legs /\ Uses(EntryLeg(op.st).trade)
  <2>1. op.key \in Keys /\ op.st \in DOMAIN journal /\ InConfig
    BY <1>1, <1>2 DEF OpFacts, InConfig, ConfigStages, EngineInv, Keyed, WorkIsOwn, Owns
  <2>2. EntryLeg(op.st) \in Legs /\ EntryLeg(op.st).trade = op.st
    BY <1>1, <2>1 DEF EntryLeg, Legs, Kinds, WorldFacts
  <2> QED
    BY <2>1, <2>2 DEF Uses
<1>4. (\A j \in Keys : new.held[j] = store.held[j]) /\ OwedIn(new) = OwedIn(store) \cup {EntryLeg(op.st)}
  BY <1>1, <1>p, OwingOwes DEF StoreTypeOK
<1> HIDE DEF new
<1>5. store' \in {store, new} /\ disk' \in {disk, new}
  BY <1>3, SaveDoes
<1>6. HeldFrom
  BY <1>1, <1>2, <1>p, <1>4, <1>5 DEF HeldFrom, InConfig, ConfigStages
<1>7. TakesFrom /\ WorkFrom
  BY <1>1, <1>2 DEF TakesFrom, WorkFrom, Sure, InConfig, ConfigStages, Uses
<1>8. PassFrom
  BY <1>1, <1>2 DEF PassFrom, Decided, ConfigStages
<1>9. OwedFrom
  <2>1. Retried' = {}
    BY <1>2 DEF Retried, RetryStages
  <2> QED
    BY <1>1, <1>2, <1>p, <1>4, <1>5, <2>1 DEF OwedFrom, Uses, Obligations
<1>10. BookFrom
  BY <1>2 DEF BookFrom, Uses
<1>11. StageFrom /\ ~(op'.at \in ResetStages)
  BY <1>2 DEF StageFrom, ResetStages
<1>12. HereFrom
  <2>1. Remembering => store' = new
    BY <1>3 DEF Save, Remembering, Unbroken
  <2> QED
    BY <1>2, <1>4, <2>1 DEF HereFrom, Here, InConfig, ConfigStages
<1>13. LeaveFrom
  BY <1>2 DEF LeaveFrom
<1> QED
  BY <1>2, <1>6, <1>7, <1>8, <1>9, <1>10, <1>11, <1>12, <1>13 DEF Goes, Turns

\* The state is recorded.
LEMMA RecordGoes == ASSUME EngineInv, Record PROVE Goes
<1>1. WorldFacts /\ StoreFacts(store) /\ StoreFacts(disk) /\ OpFacts /\ WorldTypeOK /\ StoreTypeOK
  BY WorldTyped, StoreTyped, OpTyped DEF EngineInv, TypeOK, StoreTypeOK
<1>2. /\ op.at = "record"
      /\ op'.at = "decide"
      /\ UNCHANGED <<booked, lot>>
      /\ UNCHANGED <<journal, market, gen, crashes, scenario>>
  BY <1>1 DEF Record, book, env, OpFacts, InConfig
<1> DEFINE new == [store EXCEPT !.held[op.key] = op.st, !.cursor[op.key] = IF op.adv THEN op.bars[op.key] ELSE @]
<1>3. Save(new)
  BY DEF Record
<1>4. (\A j \in Keys : new.held[j] = IF j = op.key THEN op.st ELSE store.held[j]) /\ OwedIn(new) = OwedIn(store)
  BY <1>1 DEF StoreTypeOK, Stores, OwedIn
<1> HIDE DEF new
<1>5. store' \in {store, new} /\ disk' \in {disk, new}
  BY <1>3, SaveDoes
<1>6. HeldFrom
  BY <1>1, <1>2, <1>4, <1>5 DEF HeldFrom, InConfig, ConfigStages
<1>7. TakesFrom /\ WorkFrom
  BY <1>1, <1>2 DEF TakesFrom, WorkFrom, InConfig, ConfigStages
<1>8. PassFrom
  BY <1>1, <1>2 DEF PassFrom, Decided, ConfigStages
<1>9. OwedFrom
  <2>1. Retried' = {}
    BY <1>2 DEF Retried, RetryStages
  <2> QED
    BY <1>1, <1>2, <1>4, <1>5, <2>1 DEF OwedFrom, Uses, Obligations
<1>10. BookFrom
  BY <1>2 DEF BookFrom, Uses
<1>11. StageFrom /\ ~(op'.at \in ResetStages)
  BY <1>2 DEF StageFrom, ResetStages
<1>12. HereFrom
  <2>1. Remembering => store' = new
    BY <1>3 DEF Save, Remembering, Unbroken
  <2> QED
    BY <1>2, <1>4, <2>1 DEF HereFrom, Here, InConfig, ConfigStages
<1>13. LeaveFrom
  BY <1>2 DEF LeaveFrom
<1> QED
  BY <1>2, <1>6, <1>7, <1>8, <1>9, <1>10, <1>11, <1>12, <1>13 DEF Goes, Turns

\* The pass ends.
LEMMA EndTickGoes == ASSUME EngineInv, EndTick PROVE Goes
<1>1. WorldFacts /\ StoreFacts(store) /\ StoreFacts(disk) /\ OpFacts /\ WorldTypeOK /\ StoreTypeOK
  BY WorldTyped, StoreTyped, OpTyped DEF EngineInv, TypeOK, StoreTypeOK
<1>2. /\ op.at = "decide"
      /\ op'.at = "idle"
      /\ UNCHANGED <<store, disk, dirty>>
      /\ UNCHANGED <<booked, lot>>
      /\ UNCHANGED <<journal, market, gen, crashes, scenario>>
  BY <1>1 DEF EndTick, Idle, book, env, OpFacts, InConfig
<1>6. HeldFrom
  BY <1>1, <1>2 DEF HeldFrom
<1>7. TakesFrom /\ WorkFrom
  BY <1>1, <1>2 DEF TakesFrom, WorkFrom, InConfig, ConfigStages
<1>8. PassFrom
  BY <1>1, <1>2 DEF PassFrom, Decided, ConfigStages
<1>9. OwedFrom
  <2>1. Retried' = {}
    BY <1>2 DEF Retried, RetryStages
  <2> QED
    BY <1>1, <1>2, <2>1 DEF OwedFrom, Uses, Obligations
<1>10. BookFrom
  BY <1>2 DEF BookFrom, Uses
<1>11. StageFrom /\ ~(op'.at \in ResetStages)
  BY <1>2 DEF StageFrom, ResetStages
<1>12. HereFrom
  BY <1>2 DEF HereFrom, Here, InConfig, ConfigStages
<1>13. LeaveFrom
  BY <1>2 DEF LeaveFrom
<1> QED
  BY <1>2, <1>6, <1>7, <1>8, <1>9, <1>10, <1>11, <1>12, <1>13 DEF Goes, Turns

\* A reset that failed is given up.
LEMMA ResetAbortsGoes == ASSUME EngineInv, ResetAborts PROVE Goes
<1>1. WorldFacts /\ StoreFacts(store) /\ StoreFacts(disk) /\ OpFacts /\ WorldTypeOK /\ StoreTypeOK
  BY WorldTyped, StoreTyped, OpTyped DEF EngineInv, TypeOK, StoreTypeOK
<1>2. /\ op.at = "reset"
      /\ op'.at = "idle"
      /\ UNCHANGED <<store, disk, dirty>>
      /\ UNCHANGED <<booked, lot>>
      /\ UNCHANGED <<journal, market, gen, crashes, scenario>>
  BY <1>1 DEF ResetAborts, Idle, book, env, OpFacts, InConfig
<1>6. HeldFrom
  BY <1>1, <1>2 DEF HeldFrom
<1>7. TakesFrom /\ WorkFrom
  BY <1>1, <1>2 DEF TakesFrom, WorkFrom, InConfig, ConfigStages
<1>8. PassFrom
  BY <1>1, <1>2 DEF PassFrom, Decided, ConfigStages
<1>9. OwedFrom
  <2>1. Retried' = {}
    BY <1>2 DEF Retried, RetryStages
  <2> QED
    BY <1>1, <1>2, <2>1 DEF OwedFrom, Uses, Obligations
<1>10. BookFrom
  BY <1>2 DEF BookFrom, Uses
<1>11. StageFrom /\ ~(op'.at \in ResetStages)
  BY <1>2 DEF StageFrom, ResetStages
<1>12. HereFrom
  BY <1>2 DEF HereFrom, Here, InConfig, ConfigStages
<1>13. LeaveFrom
  BY <1>2 DEF LeaveFrom
<1> QED
  BY <1>2, <1>6, <1>7, <1>8, <1>9, <1>10, <1>11, <1>12, <1>13 DEF Goes, Turns

\* The configs are changed.
LEMMA SetConfigsGoes == ASSUME EngineInv, NEW chosen \in SUBSET Keys, SetConfigs(chosen) PROVE Goes
<1>1. WorldFacts /\ StoreFacts(store) /\ StoreFacts(disk) /\ OpFacts /\ WorldTypeOK /\ StoreTypeOK
  BY WorldTyped, StoreTyped, OpTyped DEF EngineInv, TypeOK, StoreTypeOK
<1>2. /\ op.at = "idle" /\ op' = op
      /\ UNCHANGED <<booked, lot>>
      /\ UNCHANGED <<journal, market, gen, crashes, scenario>>
  BY <1>1 DEF SetConfigs, Idle, book, env, OpFacts, InConfig
<1> DEFINE new == [store EXCEPT !.enabled = chosen]
<1>3. Save(new)
  BY DEF SetConfigs
<1>4. (\A j \in Keys : new.held[j] = store.held[j]) /\ OwedIn(new) = OwedIn(store)
  BY <1>1 DEF StoreTypeOK, Stores, OwedIn
<1> HIDE DEF new
<1>5. store' \in {store, new} /\ disk' \in {disk, new}
  BY <1>3, SaveDoes
<1>6. HeldFrom
  BY <1>1, <1>2, <1>4, <1>5 DEF HeldFrom
<1>7. TakesFrom /\ WorkFrom
  BY <1>1, <1>2 DEF TakesFrom, WorkFrom, InConfig, ConfigStages
<1>8. PassFrom
  BY <1>1, <1>2 DEF PassFrom, Decided, ConfigStages
<1>9. OwedFrom
  <2>1. Retried' = {}
    BY <1>2 DEF Retried, RetryStages
  <2> QED
    BY <1>1, <1>2, <1>4, <1>5, <2>1 DEF OwedFrom, Uses, Obligations
<1>10. BookFrom
  BY <1>2 DEF BookFrom, Uses
<1>11. StageFrom /\ (op'.at \in ResetStages => op.at \in ResetStages)
  BY <1>2 DEF StageFrom, ResetStages
<1>12. HereFrom
  <2>1. Remembering => store' = new
    BY <1>3 DEF Save, Remembering, Unbroken
  <2> QED
    BY <1>2, <1>4, <2>1 DEF HereFrom, Here, InConfig, ConfigStages
<1>13. LeaveFrom
  BY <1>2 DEF LeaveFrom
<1> QED
  BY <1>2, <1>6, <1>7, <1>8, <1>9, <1>10, <1>11, <1>12, <1>13 DEF Goes, Turns

\* The process starts again, from the disk.
LEMMA RestartGoes == ASSUME EngineInv, Restart PROVE Goes
<1>1. WorldFacts /\ StoreFacts(store) /\ StoreFacts(disk) /\ OpFacts /\ WorldTypeOK /\ StoreTypeOK
  BY WorldTyped, StoreTyped, OpTyped DEF EngineInv, TypeOK, StoreTypeOK
<1>2. /\ op.at = "down"
      /\ op'.at = "idle"
      /\ store' = disk /\ disk' = disk
      /\ UNCHANGED <<booked, lot>>
      /\ UNCHANGED <<journal, market, gen, crashes, scenario>>
  BY <1>1 DEF Restart, Down, Idle, book, env, OpFacts, InConfig
<1>6. HeldFrom
  BY <1>1, <1>2 DEF HeldFrom
<1>7. TakesFrom /\ WorkFrom
  BY <1>1, <1>2 DEF TakesFrom, WorkFrom, InConfig, ConfigStages
<1>8. PassFrom
  BY <1>1, <1>2 DEF PassFrom, Decided, ConfigStages
<1>9. OwedFrom
  <2>1. Retried' = {}
    BY <1>2 DEF Retried, RetryStages
  <2> QED
    BY <1>1, <1>2, <2>1 DEF OwedFrom, Uses, Obligations
<1>10. BookFrom
  BY <1>2 DEF BookFrom, Uses
<1>11. StageFrom /\ ~(op'.at \in ResetStages)
  BY <1>2 DEF StageFrom, ResetStages
<1>12. HereFrom
  BY <1>2 DEF HereFrom, Here, InConfig, ConfigStages
<1>13. LeaveFrom
  BY <1>2 DEF LeaveFrom
<1> QED
  BY <1>2, <1>6, <1>7, <1>8, <1>9, <1>10, <1>11, <1>12, <1>13 DEF Goes, Turns

\* A reset takes the trades that stand.
LEMMA BeginResetActs ==
    ASSUME EngineInv, BeginReset
    PROVE  /\ UNCHANGED <<journal, market, gen, crashes, scenario>>
           /\ HeldFrom /\ TakesFrom /\ WorkFrom /\ PassFrom /\ OwedFrom /\ BookFrom /\ StageFrom
           /\ HereFrom /\ LeaveFrom
           /\ gen < scenario.resets
<1>1. WorldFacts /\ StoreFacts(store) /\ StoreFacts(disk) /\ OpFacts /\ WorldTypeOK /\ StoreTypeOK
  BY WorldTyped, StoreTyped, OpTyped DEF EngineInv, TypeOK, StoreTypeOK
<1>2. /\ op.at = "idle"
      /\ op'.at = "reset"
      /\ UNCHANGED <<store, disk, dirty>>
      /\ UNCHANGED <<booked, lot>>
      /\ UNCHANGED <<journal, market, gen, crashes, scenario>>
  BY <1>1 DEF BeginReset, Idle, book, env, OpFacts, InConfig
<1>6. HeldFrom
  BY <1>1, <1>2 DEF HeldFrom
<1>7. TakesFrom /\ WorkFrom
  BY <1>1, <1>2 DEF TakesFrom, WorkFrom, InConfig, ConfigStages
<1>8. PassFrom
  BY <1>1, <1>2 DEF PassFrom, Decided, ConfigStages
<1>9. OwedFrom
  <2>1. Retried' = {}
    BY <1>2 DEF Retried, RetryStages
  <2> QED
    BY <1>1, <1>2, <2>1 DEF OwedFrom, Uses, Obligations
<1>10. BookFrom
  BY <1>2 DEF BookFrom, Uses
<1>11. StageFrom
  BY <1>2 DEF StageFrom, ResetStages
<1>12. HereFrom
  BY <1>2 DEF HereFrom, Here, InConfig, ConfigStages
<1>13. LeaveFrom
  BY <1>2 DEF LeaveFrom
<1> QED
  BY <1>2, <1>6, <1>7, <1>8, <1>9, <1>10, <1>11, <1>12, <1>13 DEF BeginReset

-----------------------------------------------------------------------------
(***************************************************************************)
(* The other actions.                                                      *)
(***************************************************************************)
\* Whatever happens to the journal and the markets, an engine that stands still goes on.
LEMMA StandingGoes ==
    ASSUME UNCHANGED <<booked, lot, store, disk, dirty, op>>
    PROVE  /\ HeldFrom /\ TakesFrom /\ WorkFrom /\ PassFrom /\ OwedFrom /\ BookFrom /\ StageFrom
           /\ HereFrom /\ LeaveFrom
           /\ op'.at \in ResetStages => op.at \in ResetStages
<1>1. HeldFrom /\ StageFrom
  BY DEF HeldFrom, StageFrom
<1>2. TakesFrom /\ WorkFrom
  BY DEF TakesFrom, WorkFrom, InConfig, Sure, Uses
<1>3. PassFrom
  BY DEF PassFrom
<1>4. Obligations' = Obligations
  BY DEF Obligations, OwedIn, Retried
<1>5. OwedFrom /\ BookFrom
  BY <1>4 DEF OwedFrom, BookFrom, Uses
<1>6. HereFrom /\ LeaveFrom
  BY DEF HereFrom, LeaveFrom, Here, InConfig
<1> QED
  BY <1>1, <1>2, <1>3, <1>5, <1>6

\* An open trade that no config owns is adopted: it is the config's only one, and of this book.
LEMMA AdoptActs == ASSUME EngineInv, EngineInv', ActsInv, NEW k \in Keys, Adopt(k) PROVE ActsInv'
<1>1. WorldFacts /\ StoreFacts(store) /\ StoreFacts(disk) /\ OpFacts /\ WorldTypeOK /\ StoreTypeOK
  BY WorldTyped, StoreTyped, OpTyped DEF EngineInv, TypeOK, StoreTypeOK
<1>2. /\ op.at = "decide" /\ op'.at = "predict" /\ op'.key = k
      /\ UNCHANGED <<journal, market, gen, crashes, scenario, booked, lot>>
  BY <1>1 DEF Adopt, Deciding, book, env
<1>3. PICK t \in Orphans(k) : Save(Holding(k, t)) /\ op'.st = IF dirty' THEN NoTrade ELSE t
  BY DEF Adopt, Deciding
<1>4. t \in DOMAIN journal /\ IsOpen(t) /\ journal[t].key = k /\ t \in Nat
  BY <1>1, <1>3 DEF Orphans, WorldFacts
<1> DEFINE new == Holding(k, t)
<1>5. (\A j \in Keys : new.held[j] = IF j = k THEN t ELSE store.held[j]) /\ OwedIn(new) = OwedIn(store)
  BY <1>1, <1>4, HoldingHolds DEF StoreTypeOK
<1> HIDE DEF new
<1>6. store' \in {store, new} /\ disk' \in {disk, new}
  BY <1>3, SaveDoes DEF new
<1>7. \A j \in Keys : \A u \in {store'.held[j], disk'.held[j]} :
          u \in {store.held[j], disk.held[j]} \/ (j = k /\ u = t)
  BY <1>5, <1>6
<1>8. ASSUME OneOpenAtATime PROVE OneOpenAtATime'
  <2>1. OneOpen' /\ OnlyOpen(k, t)
    BY <1>2, <1>4, <1>8 DEF OneOpenAtATime, OneOpen, OnlyOpen, IsOpen
  <2>2. \A j \in Keys : \A u \in {store'.held[j], disk'.held[j]} : u # NoTrade => OnlyOpen(j, u)
    BY <1>7, <1>8, <2>1 DEF OneOpenAtATime, HeldIsOnly
  <2>3. HeldIsOnly'
    BY <1>2, <2>2 DEF HeldIsOnly, OnlyOpen, IsOpen
  <2>4. WorkIsOnly'
    BY <1>2, <1>3, <2>1 DEF WorkIsOnly, Sure, OnlyOpen, IsOpen
  <2> QED
    BY <2>1, <2>3, <2>4 DEF OneOpenAtATime
<1>9. ASSUME OneOfAPrediction PROVE OneOfAPrediction'
  BY <1>2, <1>9, JournalStays, OnlyOneOfAPrediction DEF PassFrom, Decided
<1>10. ASSUME FreshIsFresh PROVE FreshIsFresh'
  <2>1. Current(t)
    BY <1>4, <1>10 DEF FreshIsFresh, OldIsDeleted, Stands, IsOpen
  <2>2. Obligations' \subseteq Obligations
    BY <1>2, <1>5, <1>6 DEF Obligations, Retried, RetryStages
  <2>3. ASSUME NEW u \in DOMAIN journal, Uses(u)' PROVE Uses(u) \/ u = t
    <3>1. u # NoTrade
      BY <1>1 DEF WorldFacts
    <3>2. CASE \E j \in Keys : u \in {store'.held[j], disk'.held[j]}
      BY <1>7, <3>2 DEF Uses
    <3>3. CASE (\E j \in Keys : u = lot'[j]) \/ (\E kind \in Kinds : <<u, kind>> \in booked')
      BY <1>2, <3>3 DEF Uses
    <3>4. CASE \E p \in Obligations' : p.trade = u
      BY <2>2, <3>4 DEF Uses
    <3>5. CASE InConfig' /\ op'.st = u
      BY <1>3, <3>1, <3>5
    <3> QED
      BY <2>3, <3>2, <3>3, <3>4, <3>5 DEF Uses
  <2>4. OldIsDeleted' /\ \A u \in DOMAIN journal' : Current(u)' <=> Current(u)
    BY <1>2, <1>10 DEF FreshIsFresh, OldIsDeleted, Current, Stands
  <2> QED
    BY <1>2, <1>10, <2>1, <2>3, <2>4 DEF FreshIsFresh, UsedIsCurrent
<1>11. NoneIsGone' = NoneIsGone /\ (\A u \in DOMAIN journal' : Current(u)' <=> Current(u))
  BY <1>2 DEF NoneIsGone, Stands, Current
<1>12. ~Remembering
  <2>1. Remembering => Here(k) = t
    BY <1>4 DEF ActsInv, NothingForgotten, OpenIsHere
  <2>2. Here(k) = store.held[k] /\ store.held[k] # t
    BY <1>2, <1>3 DEF Here, InConfig, ConfigStages, Orphans
  <2> QED
    BY <2>1, <2>2
<1> QED
  BY <1>2, <1>8, <1>9, <1>10, <1>11, <1>12, ScenarioStays DEF ActsInv, NoReset, ResetStages

\* A config that holds nothing has no open trade when the journal was asked, and none of its is
\* another's.
LEMMA DecideAsIsActs ==
    ASSUME EngineInv, EngineInv', ActsInv, NEW k \in Keys, DecideAsIs(k) PROVE ActsInv'
<1>1. WorldFacts /\ StoreFacts(store) /\ StoreFacts(disk) /\ OpFacts /\ WorldTypeOK /\ StoreTypeOK
  BY WorldTyped, StoreTyped, OpTyped DEF EngineInv, TypeOK, StoreTypeOK
<1>2. /\ op.at = "decide" /\ op'.at = "predict" /\ op'.key = k /\ op'.st = store.held[k]
      /\ UNCHANGED <<journal, market, gen, crashes, scenario, booked, lot, store, disk, dirty>>
      /\ store.held[k] # NoTrade \/ Orphans(k) = {} \/ "list" \in Faults
  BY <1>1 DEF DecideAsIs, Deciding, book, env
<1>3. HeldFrom /\ TakesFrom /\ PassFrom /\ BookFrom /\ StageFrom
  BY <1>2 DEF HeldFrom, TakesFrom, PassFrom, BookFrom, StageFrom, Uses, Decided
<1>4. OwedFrom
  BY <1>2 DEF OwedFrom, Uses, Obligations, Retried, RetryStages
<1>5. ASSUME Listed PROVE OneOpenAtATime'
  <2>1. OneOpenAtATime
    BY <1>5 DEF ActsInv
  <2>2. OnlyOpen(k, store.held[k])
    <3>1. CASE store.held[k] # NoTrade
      BY <2>1, <3>1 DEF OneOpenAtATime, HeldIsOnly
    <3>2. CASE store.held[k] = NoTrade
      <4>1. Orphans(k) = {}
        BY <1>2, <1>5, <3>2 DEF Listed
      <4>2. ASSUME NEW u \in DOMAIN journal, journal[u].key = k, IsOpen(u) PROVE FALSE
        <5>1. PICK j \in Keys : store.held[j] = u
          BY <4>1, <4>2 DEF Orphans
        <5>2. u # NoTrade /\ journal[u].key = j
          BY <1>1, <5>1 DEF WorldFacts, EngineInv, Keyed, HoldingsAreOwn, Owns
        <5> QED
          BY <3>2, <4>2, <5>1, <5>2
      <4> QED
        BY <4>2 DEF OnlyOpen
    <3> QED BY <3>1, <3>2
  <2>3. OneOpen' /\ HeldIsOnly'
    BY <1>2, <2>1 DEF OneOpenAtATime, OneOpen, HeldIsOnly, OnlyOpen, IsOpen
  <2>4. WorkIsOnly'
    BY <1>2, <2>2 DEF WorkIsOnly, OnlyOpen, IsOpen
  <2> QED
    BY <2>3, <2>4 DEF OneOpenAtATime
<1>6. ASSUME OneOfAPrediction PROVE OneOfAPrediction'
  BY <1>2, <1>3, <1>6, JournalStays, OnlyOneOfAPrediction
<1>7. ASSUME FreshIsFresh PROVE FreshIsFresh'
  BY <1>2, <1>3, <1>4, <1>7, JournalStays, OnlyTheFresh
<1>8. NoneIsGone' = NoneIsGone /\ (\A u \in DOMAIN journal' : Current(u)' <=> Current(u))
  BY <1>2 DEF NoneIsGone, Stands, Current
<1>9. Remembering => NothingForgotten'
  <2>1. HereFrom /\ LeaveFrom
    BY <1>2 DEF HereFrom, LeaveFrom, Here, InConfig, ConfigStages
  <2> QED
    BY <1>2, <1>3, <2>1, JournalStays, NothingIsForgotten DEF ActsInv
<1> QED
  BY <1>2, <1>5, <1>6, <1>7, <1>8, <1>9, ScenarioStays DEF ActsInv, NoReset, ResetStages

\* The trade that is closed is not of the bar the engine decides on: that one has its target's side.
LEMMA JournalClosesActs ==
    ASSUME EngineInv, EngineInv', ActsInv, JournalCloses PROVE ActsInv'
<1>1. WorldFacts /\ StoreFacts(store) /\ StoreFacts(disk) /\ OpFacts /\ WorldTypeOK /\ StoreTypeOK
  BY WorldTyped, StoreTyped, OpTyped DEF EngineInv, TypeOK, StoreTypeOK
<1>2. /\ op.at = "close" /\ op'.at \in {"exit", "record"} /\ op'.key = op.key /\ op'.st = op.st
      /\ op'.at = "exit" => op'.on = op.on /\ op'.target = op.target
      /\ IsOpen(op.st) /\ journal' = [journal EXCEPT ![op.st].status = "closed"]
      /\ UNCHANGED <<market, gen, crashes, scenario, booked, lot, store, disk, dirty>>
  BY <1>1 DEF JournalCloses, Recorded, GoTo, book, env, OpFacts, InConfig, ConfigOps, ConfigStages
<1>3. op.st # NoTrade /\ op.st \in DOMAIN journal /\ journal[op.st].key = op.key /\ op.key \in Keys
  BY <1>1, <1>2 DEF EngineInv, Keyed, WorkIsOwn, Owns, InConfig, ConfigStages, OpFacts
<1>4. /\ DOMAIN journal' = DOMAIN journal
      /\ \A u \in DOMAIN journal :
            /\ journal'[u].key = journal[u].key /\ journal'[u].side = journal[u].side
            /\ journal'[u].on = journal[u].on /\ journal'[u].gen = journal[u].gen
            /\ journal'[u].status = IF u = op.st THEN "closed" ELSE journal[u].status
  BY <1>1, <1>2, <1>3, StatusIsSet
<1>5. JournalFalls /\ Stands(op.st)
  BY <1>2, <1>4 DEF JournalFalls, IsOpen, Stands
<1>6. HeldFrom /\ BookFrom /\ StageFrom
  BY <1>2 DEF HeldFrom, BookFrom, StageFrom, Uses
<1>7. TakesFrom /\ WorkFrom
  BY <1>2, <1>3 DEF TakesFrom, WorkFrom, Sure, InConfig, ConfigStages, Uses
<1>8. OwedFrom
  BY <1>2 DEF OwedFrom, Uses, Obligations, Retried, RetryStages
<1>9. ASSUME OneOpenAtATime PROVE OneOpenAtATime'
  BY <1>5, <1>6, <1>7, <1>9, OnlyOneOpen
<1>10. ASSUME OneOfAPrediction PROVE OneOfAPrediction'
  <2>1. /\ op.on =< market[op.key].bar
        /\ (op.on = market[op.key].bar => op.target = market[op.key].signal)
        /\ \A t \in DOMAIN journal : journal[t].key = op.key =>
              /\ journal[t].on =< op.on
              /\ Stands(t) /\ journal[t].on = op.on => IsOpen(t) /\ journal[t].side = op.target
        /\ op.target # journal[op.st].side
    BY <1>2, <1>3, <1>10 DEF OneOfAPrediction, DecisionIsNewest, Decided, ConfigStages, SideOf
  <2>2. journal[op.st].on # op.on /\ journal[op.st].on # market[op.key].bar
    <3>1. journal[op.st] \in Records /\ op.on \in Nat /\ market[op.key].bar \in Nat
      BY <1>1, <1>2, <1>3 DEF WorldFacts, OpFacts, InConfig, ConfigStages, WorldTypeOK
    <3>2. journal[op.st].on \in Nat
      BY <3>1 DEF Records
    <3> QED
      BY <1>3, <1>5, <2>1, <3>1, <3>2
  <2>3. OneOnABar'
    BY <1>4, <1>5, <1>10 DEF OneOfAPrediction, OneOnABar, JournalFalls
  <2>4. \A t \in DOMAIN journal : t # op.st => (Stands(t)' <=> Stands(t)) /\ (IsOpen(t)' <=> IsOpen(t))
    BY <1>4 DEF Stands, IsOpen
  <2>5. NewestStands'
    <3>1. ASSUME NEW t \in DOMAIN journal
          PROVE  /\ journal[t].on =< market[journal[t].key].bar
                 /\ Stands(t)' /\ journal[t].on = market[journal[t].key].bar =>
                       IsOpen(t)' /\ journal[t].side = market[journal[t].key].signal
      BY <1>3, <1>10, <2>2, <2>4 DEF OneOfAPrediction, NewestStands
    <3> QED
      BY <1>2, <1>4, <3>1 DEF NewestStands
  <2>6. DecisionIsNewest'
    <3>1. \A t \in DOMAIN journal : journal[t].key = op.key =>
              /\ journal[t].on =< op.on
              /\ Stands(t)' /\ journal[t].on = op.on => IsOpen(t)' /\ journal[t].side = op.target
      BY <2>1, <2>2, <2>4
    <3> QED
      BY <1>2, <1>4, <2>1, <3>1 DEF DecisionIsNewest, Decided
  <2> QED
    BY <2>3, <2>5, <2>6 DEF OneOfAPrediction
<1>11. ASSUME FreshIsFresh PROVE FreshIsFresh'
  BY <1>2, <1>5, <1>6, <1>7, <1>8, <1>11, OnlyTheFresh
<1>12. (NoneIsGone => NoneIsGone') /\ (\A u \in DOMAIN journal' : Current(u)' <=> Current(u))
  BY <1>2, <1>4 DEF NoneIsGone, Stands, Current
<1>13. Remembering => NothingForgotten'
  <2>1. HereFrom /\ LeaveFrom /\ PassFrom
    BY <1>2 DEF HereFrom, LeaveFrom, PassFrom, Decided, Here, InConfig, ConfigStages
  <2> QED
    BY <1>2, <1>5, <1>6, <2>1, NothingIsForgotten DEF ActsInv
<1> QED
  BY <1>2, <1>4, <1>9, <1>10, <1>11, <1>12, <1>13, ScenarioStays DEF ActsInv, NoReset, ResetStages

\* The trade that is created is its config's only open one, and the first on its bar that stands.
LEMMA JournalCreatesActs ==
    ASSUME EngineInv, EngineInv', ActsInv, JournalCreates PROVE ActsInv'
<1>0. PICK n : n = Len(journal) + 1
  OBVIOUS
<1>1. WorldFacts /\ StoreFacts(store) /\ StoreFacts(disk) /\ OpFacts /\ WorldTypeOK /\ StoreTypeOK
  BY WorldTyped, StoreTyped, OpTyped DEF EngineInv, TypeOK, StoreTypeOK
<1>2. /\ op.at = "open" /\ op'.at \in {"opened", "record"} /\ op'.key = op.key
      /\ op'.at = "opened" => op'.st = n /\ op'.on = op.on /\ op'.target = op.target
      /\ op'.at = "record" => op'.st = NoTrade
      /\ journal' = Append(journal, NewTrade)
      /\ UNCHANGED <<market, gen, crashes, scenario, booked, lot, store, disk, dirty>>
  <2>1. /\ op.at = "open" /\ journal' = Append(journal, NewTrade)
        /\ UNCHANGED <<market, gen, crashes, scenario, booked, lot, store, disk, dirty>>
        /\ \/ op' = [op EXCEPT !.at = "opened", !.st = Len(journal')]
           \/ op' = [op EXCEPT !.at = "record", !.st = NoTrade, !.adv = FALSE]
    BY DEF JournalCreates, Recorded, book, env
  <2>2. op \in ConfigOps
    BY <1>1, <2>1 DEF OpFacts, InConfig, ConfigStages
  <2>3. Len(journal') = n
    BY <1>0, <2>1 DEF EngineInv, TypeOK, WorldTypeOK
  <2> QED
    BY <2>1, <2>2, <2>3 DEF ConfigOps
<1>3. /\ NewTrade.key = op.key /\ NewTrade.side = op.target /\ NewTrade.on = op.on
      /\ NewTrade.gen = gen /\ NewTrade.status = "open"
  BY DEF NewTrade
<1>4. /\ DOMAIN journal' = DOMAIN journal \cup {n} /\ n \notin DOMAIN journal /\ n # NoTrade
      /\ journal'[n] = NewTrade /\ \A u \in DOMAIN journal : journal'[u] = journal[u]
  <2>1. Len(journal) \in Nat /\ DOMAIN journal = 1 .. Len(journal)
    BY <1>1 DEF WorldFacts
  <2>2. /\ \A u \in 1 .. Len(journal) : journal'[u] = journal[u]
        /\ journal'[n] = NewTrade /\ Len(journal') = n /\ DOMAIN journal' = 1 .. n
    BY <1>0, <1>1, <1>2, AppendProperties DEF WorldTypeOK, EngineInv, TypeOK
  <2> QED
    BY <1>0, <2>1, <2>2 DEF NoTrade
<1>5. /\ IsOpen(n)' /\ Stands(n)' /\ Current(n)'
      /\ \A u \in DOMAIN journal : /\ IsOpen(u)' <=> IsOpen(u)
                                   /\ Stands(u)' <=> Stands(u)
                                   /\ Current(u)' <=> Current(u)
  BY <1>2, <1>3, <1>4 DEF IsOpen, Stands, Current
<1>6. /\ op.st = NoTrade /\ store.held[op.key] = NoTrade /\ disk = store /\ op.key \in Keys /\ InConfig
  BY <1>1, <1>2 DEF EngineInv, Agreement, OpeningIsFlat, Durable, DurableStages, OpFacts, InConfig,
                    ConfigStages
<1>7. ASSUME OneOpenAtATime PROVE NoneOpen(op.key) /\ OneOpenAtATime'
  <2>1. NoneOpen(op.key)
    BY <1>1, <1>2, <1>6, <1>7 DEF OneOpenAtATime, WorkIsOnly, Sure, OnlyOpen, NoneOpen, WorldFacts
  <2>2. OneOpen'
    BY <1>3, <1>4, <1>5, <1>7, <2>1 DEF OneOpenAtATime, OneOpen, NoneOpen
  <2>3. HeldIsOnly'
    BY <1>2, <1>3, <1>4, <1>5, <1>6, <1>7 DEF OneOpenAtATime, HeldIsOnly, OnlyOpen
  <2>4. WorkIsOnly'
    BY <1>2, <1>3, <1>4, <1>5, <2>1 DEF WorkIsOnly, Sure, OnlyOpen, NoneOpen
  <2> QED
    BY <2>1, <2>2, <2>3, <2>4 DEF OneOpenAtATime
<1>8. ASSUME OneOpenAtATime, OneOfAPrediction PROVE OneOfAPrediction'
  <2>1. /\ op.on =< market[op.key].bar
        /\ (op.on = market[op.key].bar => op.target = market[op.key].signal)
        /\ \A t \in DOMAIN journal : journal[t].key = op.key =>
              /\ journal[t].on =< op.on
              /\ Stands(t) /\ journal[t].on = op.on => IsOpen(t) /\ journal[t].side = op.target
    BY <1>2, <1>8 DEF OneOfAPrediction, DecisionIsNewest, Decided, ConfigStages
  <2>2. \A t \in DOMAIN journal : journal[t].key = op.key /\ Stands(t) => journal[t].on # op.on
    BY <1>7, <1>8, <2>1 DEF NoneOpen
  <2>3. OneOnABar'
    BY <1>3, <1>4, <1>5, <1>8, <2>2 DEF OneOfAPrediction, OneOnABar
  <2>4. NewestStands'
    BY <1>2, <1>3, <1>4, <1>5, <1>8, <2>1 DEF OneOfAPrediction, NewestStands
  <2>5. DecisionIsNewest'
    <3>1. op.on =< op.on
      BY <1>1, <1>6 DEF OpFacts
    <3>2. \A t \in DOMAIN journal' : journal'[t].key = op.key =>
              /\ journal'[t].on =< op.on
              /\ Stands(t)' /\ journal'[t].on = op.on => IsOpen(t)' /\ journal'[t].side = op.target
      BY <1>3, <1>4, <1>5, <2>1, <3>1
    <3> QED
      BY <1>2, <2>1, <3>2 DEF DecisionIsNewest, Decided
  <2> QED
    BY <2>3, <2>4, <2>5 DEF OneOfAPrediction
<1>9. ASSUME FreshIsFresh PROVE FreshIsFresh'
  <2>1. Obligations' \subseteq Obligations
    BY <1>2 DEF Obligations, Retried, RetryStages
  <2>2. ASSUME NEW t \in DOMAIN journal, Uses(t)' PROVE Uses(t)
    <3>1. t # NoTrade /\ t # n
      BY <1>1, <1>4 DEF WorldFacts
    <3> QED
      BY <1>2, <2>1, <2>2, <3>1 DEF Uses
  <2>3. UsedIsCurrent'
    BY <1>2, <1>4, <1>5, <1>9, <2>2 DEF FreshIsFresh, UsedIsCurrent
  <2>4. OldIsDeleted'
    BY <1>4, <1>5, <1>9 DEF FreshIsFresh, OldIsDeleted
  <2> QED
    BY <2>3, <2>4 DEF FreshIsFresh
<1>10. /\ NoneIsGone => NoneIsGone'
       /\ (\A u \in DOMAIN journal : Current(u)) => \A u \in DOMAIN journal' : Current(u)'
  BY <1>4, <1>5 DEF NoneIsGone
<1>11. ASSUME Remembering, NothingForgotten PROVE NothingForgotten'
  <2>1. op'.at = "opened" /\ op'.st = n /\ op'.on = op.on /\ op'.target = op.target
    <3>1. op \in ConfigOps
      BY <1>1, <1>2 DEF OpFacts, InConfig, ConfigStages
    <3>2. op' = [op EXCEPT !.at = "opened", !.st = Len(journal')]
      BY <1>11 DEF JournalCreates, Remembering
    <3> QED
      BY <1>2, <3>1, <3>2 DEF ConfigOps
  <2>2. /\ OpenIsHere /\ OneOfAGeneration /\ NewestIsHere /\ DecisionIsHere /\ NewBookIsEmpty
        /\ op.st = NoTrade /\ Here(op.key) = NoTrade
    BY <1>2, <1>6, <1>11 DEF NothingForgotten, Here
  <2>3. \A k \in Keys : Here(k)' = IF k = op.key THEN n ELSE Here(k)
    BY <1>2, <1>6, <2>1 DEF Here, InConfig, ConfigStages
  <2>4. /\ op.on =< market[op.key].bar
        /\ (op.on = market[op.key].bar => op.target = market[op.key].signal)
        /\ \A t \in DOMAIN journal : journal[t].key = op.key =>
              /\ journal[t].on =< op.on
              /\ Current(t) => journal[t].on # op.on
    BY <1>1, <1>2, <2>2 DEF DecisionIsHere, Decided, ConfigStages, WorldFacts
  <2>5. OpenIsHere'
    BY <1>1, <1>3, <1>4, <1>5, <2>2, <2>3 DEF OpenIsHere, WorldFacts
  <2>6. OneOfAGeneration'
    BY <1>3, <1>4, <2>2, <2>4 DEF OneOfAGeneration, Current
  <2>7. NewestIsHere'
    <3>1. ASSUME NEW k \in Keys, NEW t \in DOMAIN journal, journal[t].key = k, Current(t),
                 journal[t].on = market[k].bar
          PROVE  k # op.key
      BY <1>1, <2>2, <3>1 DEF NewestIsHere, WorldFacts
    <3> QED
      BY <1>2, <1>3, <1>4, <1>5, <1>6, <2>2, <2>3, <2>4, <3>1 DEF NewestIsHere
  <2>8. DecisionIsHere'
    <3>1. op.on =< op.on
      BY <1>1, <1>6 DEF OpFacts
    <3>2. \A t \in DOMAIN journal' : journal'[t].key = op.key =>
              /\ journal'[t].on =< op.on
              /\ Current(t)' /\ journal'[t].on = op.on => n = t /\ journal'[t].side = op.target
      BY <1>3, <1>4, <1>5, <2>4, <3>1
    <3> QED
      BY <1>2, <2>1, <2>4, <3>2 DEF DecisionIsHere
  <2>9. ClearedIsClosed'
    BY <2>1 DEF ClearedIsClosed
  <2>10. NewBookIsEmpty'
    <3>1. gen =< gen
      BY <1>1 DEF WorldTypeOK
    <3> QED
      BY <1>2, <1>3, <1>4, <2>1, <2>2, <3>1 DEF NewBookIsEmpty
  <2> QED
    BY <2>1, <2>5, <2>6, <2>7, <2>8, <2>9, <2>10 DEF NothingForgotten
<1> QED
  BY <1>2, <1>7, <1>8, <1>9, <1>10, <1>11, ScenarioStays DEF ActsInv, NoReset, ResetStages

\* A bar completes: no trade is on it yet.
LEMMA NewBarActs == ASSUME EngineInv, EngineInv', ActsInv, NEW k \in Keys, NewBar(k) PROVE ActsInv'
<1>1. WorldFacts /\ OpFacts /\ WorldTypeOK
  BY WorldTyped, OpTyped DEF EngineInv, TypeOK
<1>2. UNCHANGED <<journal, gen, crashes, scenario, booked, lot, store, disk, dirty, op>>
  BY DEF NewBar, book
<1>3. /\ market'[k].bar = market[k].bar + 1 /\ market[k].bar \in Nat
      /\ \A j \in Keys : j # k => market'[j] = market[j]
  <2>1. PICK s \in Signals : market' = [market EXCEPT ![k] = [bar |-> market[k].bar + 1, signal |-> s]]
    BY DEF NewBar
  <2> QED
    BY <1>1, <2>1 DEF WorldTypeOK
<1>4. ASSUME OneOfAPrediction PROVE OneOfAPrediction'
  <2>1. \A t \in DOMAIN journal : journal[t].on \in Nat /\ journal[t].key \in Keys
    BY <1>1 DEF WorldFacts, Records
  <2>2. OneOnABar'
    BY <1>2, <1>4 DEF OneOfAPrediction, OneOnABar, Stands
  <2>3. NewestStands'
    BY <1>2, <1>3, <1>4, <2>1 DEF OneOfAPrediction, NewestStands, Stands, IsOpen
  <2>4. op.at \in Decided => op.on \in Nat /\ op.key \in Keys
    BY <1>1 DEF OpFacts, InConfig, Decided
  <2>5. ASSUME op.at \in Decided
        PROVE  /\ op.on =< market'[op.key].bar
               /\ op.on = market'[op.key].bar => op.target = market'[op.key].signal
    BY <1>3, <1>4, <2>4, <2>5 DEF OneOfAPrediction, DecisionIsNewest
  <2>6. DecisionIsNewest'
    BY <1>2, <1>4, <2>5 DEF OneOfAPrediction, DecisionIsNewest, Stands, IsOpen, SideOf
  <2> QED
    BY <2>2, <2>3, <2>6 DEF OneOfAPrediction
<1>5. /\ Listed => OneOpenAtATime'
      /\ Unbroken => FreshIsFresh'
  BY <1>2, StandingGoes, JournalStays, OnlyOneOpen, OnlyTheFresh DEF ActsInv
<1>6. NoneIsGone' = NoneIsGone /\ (\A u \in DOMAIN journal' : Current(u)' <=> Current(u))
  BY <1>2 DEF NoneIsGone, Stands, Current
<1>7. ASSUME NothingForgotten PROVE NothingForgotten'
  <2>1. /\ OpenIsHere /\ OneOfAGeneration /\ NewestIsHere /\ DecisionIsHere /\ ClearedIsClosed
        /\ NewBookIsEmpty /\ op.at # "down"
    BY <1>7 DEF NothingForgotten
  <2>2. \A j \in Keys : Here(j)' = Here(j)
    BY <1>2 DEF Here, InConfig
  <2>3. \A t \in DOMAIN journal : (Current(t)' <=> Current(t)) /\ journal[t].on \in Nat
    BY <1>1, <1>2 DEF Current, WorldFacts, Records
  <2>4. OpenIsHere' /\ OneOfAGeneration' /\ ClearedIsClosed' /\ NewBookIsEmpty'
    BY <1>2, <2>1, <2>2, <2>3 DEF OpenIsHere, OneOfAGeneration, ClearedIsClosed, NewBookIsEmpty, IsOpen
  <2>5. NewestIsHere'
    BY <1>2, <1>3, <2>1, <2>2, <2>3 DEF NewestIsHere
  <2>6. op.at \in Decided => op.on \in Nat /\ op.key \in Keys
    BY <1>1 DEF OpFacts, InConfig, Decided
  <2>7. ASSUME op.at \in Decided
        PROVE  /\ op.on =< market'[op.key].bar
               /\ op.on = market'[op.key].bar => op.target = market'[op.key].signal
    BY <1>3, <2>1, <2>6, <2>7 DEF DecisionIsHere
  <2>8. DecisionIsHere'
    BY <1>2, <2>1, <2>3, <2>7 DEF DecisionIsHere, SideOf
  <2> QED
    BY <1>2, <2>1, <2>4, <2>5, <2>8 DEF NothingForgotten
<1> QED
  BY <1>2, <1>4, <1>5, <1>6, <1>7, ScenarioStays DEF ActsInv, NoReset

\* A trade that is deleted is not open and does not stand.
LEMMA DeletedFalls ==
    ASSUME WorldTypeOK, NEW t \in DOMAIN journal, journal' = [journal EXCEPT ![t].status = "deleted"]
    PROVE  JournalDeletes /\ JournalFalls
<1>1. /\ DOMAIN journal' = DOMAIN journal
      /\ \A u \in DOMAIN journal :
            /\ journal'[u].key = journal[u].key /\ journal'[u].side = journal[u].side
            /\ journal'[u].on = journal[u].on /\ journal'[u].gen = journal[u].gen
            /\ journal'[u].status = IF u = t THEN "deleted" ELSE journal[u].status
  BY StatusIsSet
<1> QED
  BY <1>1 DEF JournalDeletes, JournalFalls, IsOpen, Stands

\* A journal that has deleted trades, and an engine that goes on, keep everything but that no trade
\* is gone.
LEMMA DeletingActs ==
    ASSUME EngineInv, EngineInv', ActsInv, JournalDeletes, Turns, market' = market, ~Kept
    PROVE  ActsInv'
<1>1. /\ UNCHANGED <<gen, crashes, scenario>>
      /\ HeldFrom /\ TakesFrom /\ WorkFrom /\ PassFrom /\ OwedFrom /\ BookFrom /\ StageFrom
      /\ HereFrom /\ LeaveFrom
      /\ op'.at \in ResetStages => op.at \in ResetStages
      /\ JournalFalls
  BY DEF Turns, JournalDeletes
<1>2. Listed => OneOpenAtATime' /\ OneOfAPrediction'
  BY <1>1, OnlyOneOpen, OnlyOneOfAPrediction DEF ActsInv
<1>3. Unbroken => FreshIsFresh'
  BY <1>1, OnlyTheFresh DEF ActsInv
<1>4. \A u \in DOMAIN journal' : Current(u)' <=> Current(u)
  BY <1>1 DEF JournalFalls, Current
<1>5. Remembering => NothingForgotten'
  BY <1>1, NothingIsForgotten DEF ActsInv
<1> QED
  BY <1>1, <1>2, <1>3, <1>4, <1>5, ScenarioStays DEF ActsInv, NoReset, JournalFalls

\* Somebody else deletes a trade,
LEMMA TradeGoneActs ==
    ASSUME EngineInv, EngineInv', ActsInv, NEW t \in DOMAIN journal, TradeGone(t) PROVE ActsInv'
<1>1. /\ "gone" \in Faults /\ journal' = [journal EXCEPT ![t].status = "deleted"]
      /\ UNCHANGED <<market, gen, crashes, scenario, booked, lot, store, disk, dirty, op>>
  BY DEF TradeGone, book, env
<1>2. Turns
  BY <1>1, StandingGoes DEF Turns
<1>3. JournalDeletes
  BY <1>1, DeletedFalls DEF EngineInv, TypeOK
<1> QED
  BY <1>1, <1>2, <1>3, DeletingActs DEF Kept

\* or a reset does.
LEMMA ResetDeletesActs ==
    ASSUME EngineInv, EngineInv', ActsInv, NEW t \in DOMAIN journal, ResetDeletes(t) PROVE ActsInv'
<1>1. OpFacts
  BY OpTyped DEF EngineInv, TypeOK
<1>2. /\ op.at = "reset" /\ op'.at = "reset"
      /\ journal' = [journal EXCEPT ![t].status = "deleted"] \/ journal' = journal
      /\ UNCHANGED <<market, gen, crashes, scenario, booked, lot, store, disk, dirty>>
  BY <1>1 DEF ResetDeletes, book, env, OpFacts, ResetStages, ResetOps
<1>3. JournalDeletes
  BY <1>2, DeletedFalls, JournalStays DEF EngineInv, TypeOK
<1>4. ~Kept
  BY <1>2 DEF Kept, ActsInv, NoReset, ResetStages
<1>5. HeldFrom /\ TakesFrom /\ WorkFrom /\ PassFrom /\ BookFrom /\ StageFrom
  BY <1>2 DEF HeldFrom, TakesFrom, WorkFrom, PassFrom, BookFrom, StageFrom, Uses, InConfig, Decided,
              ConfigStages
<1>6. OwedFrom
  BY <1>2 DEF OwedFrom, Uses, Obligations, Retried, RetryStages
<1>7. HereFrom /\ LeaveFrom
  BY <1>2 DEF HereFrom, LeaveFrom, Here, InConfig, ConfigStages
<1>8. Turns
  BY <1>2, <1>5, <1>6, <1>7 DEF Turns, ResetStages
<1> QED
  BY <1>2, <1>3, <1>4, <1>8, DeletingActs


\* A reset begins with nothing done yet.
LEMMA ResetBeginsActs == ASSUME EngineInv, EngineInv', ActsInv, BeginReset PROVE ActsInv'
<1>1. /\ UNCHANGED <<journal, market, gen, crashes, scenario>>
      /\ HeldFrom /\ TakesFrom /\ WorkFrom /\ PassFrom /\ OwedFrom /\ BookFrom /\ StageFrom
      /\ HereFrom /\ LeaveFrom
      /\ gen < scenario.resets
  BY BeginResetActs
<1>2. JournalFalls /\ JournalDeletes
  BY <1>1, JournalStays
<1>3. gen \in Nat
  BY DEF EngineInv, TypeOK, WorldTypeOK
<1>4. NoReset'
  BY <1>1, <1>3 DEF NoReset
<1>5. Listed => OneOpenAtATime' /\ OneOfAPrediction'
  BY <1>1, <1>2, OnlyOneOpen, OnlyOneOfAPrediction DEF ActsInv
<1>6. Unbroken => FreshIsFresh'
  BY <1>1, <1>2, OnlyTheFresh DEF ActsInv
<1>7. NoneIsGone' = NoneIsGone /\ (\A u \in DOMAIN journal' : Current(u)' <=> Current(u))
  BY <1>1 DEF NoneIsGone, Stands, Current
<1>8. Remembering => NothingForgotten'
  BY <1>1, <1>2, NothingIsForgotten DEF ActsInv
<1> QED
  BY <1>1, <1>4, <1>5, <1>6, <1>7, <1>8, ScenarioStays DEF ActsInv

\* It empties the book when every trade is deleted: the new generation has none of them.
LEMMA ResetBookActs == ASSUME EngineInv, EngineInv', ActsInv, ResetBook PROVE ActsInv'
<1>1. OpFacts /\ WorldFacts
  BY OpTyped, WorldTyped DEF EngineInv, TypeOK
<1>2. /\ op.at = "reset" /\ op.left = {} /\ ~op.failed /\ op'.at = "resetstore"
      /\ booked' = {} /\ lot' = [k \in Keys |-> NoTrade]
      /\ UNCHANGED <<journal, market, crashes, scenario, store, disk, dirty>>
  BY <1>1 DEF ResetBook, GoTo, Book!NewGeneration, env, OpFacts, InConfig, ResetOps, ResetStages
<1>3. \A t \in DOMAIN journal : ~Stands(t)
  BY <1>2 DEF EngineInv, ResetIsWhole, Stands
<1>4. /\ HeldFrom /\ WorkFrom /\ PassFrom
      /\ JournalFalls /\ JournalDeletes
  BY <1>2, JournalStays DEF HeldFrom, WorkFrom, PassFrom, InConfig, ConfigStages, Decided
<1>5. Listed => OneOpenAtATime' /\ OneOfAPrediction'
  BY <1>2, <1>4, OnlyOneOpen, OnlyOneOfAPrediction DEF ActsInv
<1>6. OldIsDeleted'
  BY <1>2, <1>3 DEF OldIsDeleted, Stands
<1>7. UsedIsCurrent'
  BY <1>2 DEF UsedIsCurrent
<1>8. scenario.resets # 0 /\ scenario'.resets # 0
  BY <1>2 DEF ActsInv, NoReset, ResetStages
<1>9. ASSUME NothingForgotten PROVE NothingForgotten'
  <2>1. OneOfAGeneration /\ NewestIsHere /\ NewBookIsEmpty
    BY <1>9 DEF NothingForgotten
  <2>2. \A t \in DOMAIN journal : journal[t].gen < gen' /\ journal[t].gen =< gen'
    <3>1. \A t \in DOMAIN journal : journal[t].gen \in Nat
      BY <1>1 DEF WorldFacts, Records
    <3>2. gen \in Nat /\ gen' = gen + 1
      BY DEF ResetBook, EngineInv, TypeOK, WorldTypeOK
    <3> QED
      BY <2>1, <3>1, <3>2 DEF NewBookIsEmpty
  <2>3. \A t \in DOMAIN journal' : ~Current(t)' /\ ~IsOpen(t)' /\ journal'[t].gen =< gen'
    <3>1. \A t \in DOMAIN journal : journal[t].gen # gen'
      <4>1. gen' \in Nat /\ \A t \in DOMAIN journal : journal[t].gen \in Nat
        BY <1>1, WorldTyped DEF ResetBook, EngineInv, TypeOK, WorldTypeOK, WorldFacts, Records
      <4> QED
        BY <2>2, <4>1
    <3> QED
      BY <1>2, <1>3, <2>2, <3>1 DEF Current, IsOpen, Stands
  <2>4. OpenIsHere' /\ OneOfAGeneration' /\ NewBookIsEmpty'
    BY <1>2, <2>1, <2>3 DEF OpenIsHere, OneOfAGeneration, NewBookIsEmpty
  <2>5. NewestIsHere'
    BY <1>2, <2>1, <2>3 DEF NewestIsHere
  <2>6. DecisionIsHere' /\ ClearedIsClosed'
    BY <1>2 DEF DecisionIsHere, ClearedIsClosed, Decided, ConfigStages
  <2> QED
    BY <1>2, <2>4, <2>5, <2>6 DEF NothingForgotten
<1> QED
  BY <1>2, <1>5, <1>6, <1>7, <1>8, <1>9, ScenarioStays DEF ActsInv, NoReset, FreshIsFresh, Kept

\* And the store last: written, it has nothing of the old book.
LEMMA ResetStoreActs == ASSUME EngineInv, EngineInv', ActsInv, ResetStore PROVE ActsInv'
<1>1. OpFacts /\ WorldFacts /\ StoreFacts(store)
  BY OpTyped, WorldTyped, StoreTyped DEF EngineInv, TypeOK, StoreTypeOK
<1>2. /\ op.at = "resetstore" /\ op'.at = "idle"
      /\ UNCHANGED <<journal, market, crashes, scenario, booked, lot, gen>>
  BY <1>1 DEF ResetStore, Idle, book, env
<1> DEFINE new == [Empty EXCEPT !.enabled = store.enabled]
<1>3. Save(new)
  BY DEF ResetStore
<1>4. OwedIn(new) = {} /\ \A k \in Keys : new.held[k] = NoTrade
  BY DEF Empty, OwedIn
<1> HIDE DEF new
<1>5. store' \in {store, new} /\ disk' \in {disk, new}
  BY <1>3, SaveDoes
<1>6. /\ HeldFrom /\ WorkFrom /\ PassFrom
      /\ JournalFalls /\ JournalDeletes
  <2>1. HeldFrom
    BY <1>4, <1>5 DEF HeldFrom
  <2>2. WorkFrom /\ PassFrom
    BY <1>2 DEF WorkFrom, PassFrom, InConfig, ConfigStages, Decided
  <2> QED
    BY <1>2, <2>1, <2>2, JournalStays
<1>7. Listed => OneOpenAtATime' /\ OneOfAPrediction'
  BY <1>2, <1>6, OnlyOneOpen, OnlyOneOfAPrediction DEF ActsInv
<1>8. ASSUME Unbroken PROVE FreshIsFresh'
  <2>1. FreshIsFresh
    BY <1>8 DEF ActsInv
  <2>2. store' = new /\ disk' = new
    BY <1>3, <1>8 DEF Save, Unbroken
  <2>3. booked' = {} /\ \A k \in Keys : lot'[k] = NoTrade
    BY <1>2, <2>1 DEF FreshIsFresh, UsedIsCurrent
  <2>4. Obligations' = {}
    BY <1>2, <1>4, <2>2 DEF Obligations, Retried, RetryStages, OwedIn
  <2>5. ASSUME NEW t \in DOMAIN journal, Uses(t)' PROVE FALSE
    <3>1. t # NoTrade
      BY <1>1 DEF WorldFacts
    <3> QED
      BY <1>2, <1>4, <2>2, <2>3, <2>4, <2>5, <3>1 DEF Uses, InConfig, ConfigStages
  <2>6. UsedIsCurrent'
    BY <1>2, <2>5 DEF UsedIsCurrent
  <2>7. OldIsDeleted'
    BY <1>2, <2>1 DEF FreshIsFresh, OldIsDeleted, Stands, Current
  <2> QED
    BY <2>6, <2>7 DEF FreshIsFresh
<1>9. NoneIsGone' = NoneIsGone /\ (\A u \in DOMAIN journal' : Current(u)' <=> Current(u))
  BY <1>2 DEF NoneIsGone, Stands, Current
<1>10. ASSUME NothingForgotten PROVE NothingForgotten'
  <2>1. \A t \in DOMAIN journal : ~IsOpen(t) /\ ~Current(t)
    BY <1>2, <1>10 DEF NothingForgotten, NewBookIsEmpty
  <2>2. \A t \in DOMAIN journal' : ~IsOpen(t)' /\ ~Current(t)'
    BY <1>2, <2>1 DEF IsOpen, Current
  <2>3. OpenIsHere' /\ OneOfAGeneration' /\ NewBookIsEmpty'
    BY <1>2, <1>10, <2>2 DEF NothingForgotten, OpenIsHere, OneOfAGeneration, NewBookIsEmpty
  <2>4. NewestIsHere'
    BY <1>2, <1>10, <2>2 DEF NothingForgotten, NewestIsHere
  <2>5. DecisionIsHere' /\ ClearedIsClosed'
    BY <1>2 DEF DecisionIsHere, ClearedIsClosed, Decided, ConfigStages
  <2> QED
    BY <1>2, <2>3, <2>4, <2>5 DEF NothingForgotten
<1> QED
  BY <1>2, <1>7, <1>8, <1>9, <1>10, ScenarioStays DEF ActsInv, NoReset, ResetStages

\* A stopped process holds and works on nothing; its disk stays as it was.
LEMMA CrashActs == ASSUME EngineInv, EngineInv', ActsInv, Crash PROVE ActsInv'
<1>1. OpFacts /\ WorldFacts
  BY OpTyped, WorldTyped DEF EngineInv, TypeOK
<1>2. /\ op'.at = "down" /\ store' = Empty /\ disk' = disk
      /\ crashes < scenario.crashes /\ crashes' = crashes + 1
      /\ UNCHANGED <<journal, market, scenario, booked, lot, gen>>
  BY DEF Crash, Down, book
<1>3. \A k \in Keys : store'.held[k] = NoTrade
  BY <1>2 DEF Empty
<1>4. /\ HeldFrom /\ WorkFrom /\ PassFrom
      /\ JournalFalls /\ JournalDeletes
  BY <1>2, <1>3, JournalStays DEF HeldFrom, WorkFrom, PassFrom, InConfig, ConfigStages, Decided
<1>5. Listed => OneOpenAtATime' /\ OneOfAPrediction'
  BY <1>2, <1>4, OnlyOneOpen, OnlyOneOfAPrediction DEF ActsInv
<1>6. crashes' \in Nat /\ ~Unbroken /\ ~Remembering
  BY <1>2 DEF ActsInv, Unbroken, Remembering
<1>7. NoneIsGone' = NoneIsGone /\ (\A u \in DOMAIN journal' : Current(u)' <=> Current(u))
  BY <1>2 DEF NoneIsGone, Stands, Current
<1> QED
  BY <1>2, <1>5, <1>6, <1>7, ScenarioStays DEF ActsInv, NoReset, ResetStages
-----------------------------------------------------------------------------
(***************************************************************************)
(* The invariant.                                                          *)
(***************************************************************************)
\* There is no trade at the start.
LEMMA InitActs == Init => ActsInv
<1> SUFFICES ASSUME Init PROVE ActsInv
  OBVIOUS
<1>1. /\ DOMAIN journal = {} /\ gen = 0 /\ op.at = "idle" /\ crashes = 0
  BY EmptySeq DEF Init, Idle
<1>2. OneOpenAtATime /\ OneOfAPrediction
  BY <1>1
     DEF OneOpenAtATime, OneOpen, HeldIsOnly, WorkIsOnly, OnlyOpen, NoneOpen, InConfig, ConfigStages,
              OneOfAPrediction, OneOnABar, NewestStands, DecisionIsNewest, Decided
<1>3. NoneIsGone /\ FreshIsFresh /\ NoReset /\ crashes \in Nat
  BY <1>1 DEF NoneIsGone, FreshIsFresh, OldIsDeleted, UsedIsCurrent, NoReset, ResetStages
<1>4. NothingForgotten
  BY <1>1
     DEF NothingForgotten, OpenIsHere, OneOfAGeneration, NewestIsHere, DecisionIsHere, ClearedIsClosed,
              NewBookIsEmpty, Decided, ConfigStages
<1> QED
  BY <1>1, <1>2, <1>3, <1>4 DEF ActsInv

\* Every step keeps it.
LEMMA NextActs == ASSUME EngineInv, EngineInv', ActsInv, [Next]_vars PROVE ActsInv'
<1>1. CASE Phase0
  <2>1. Goes
    BY <1>1, BeginTickGoes, RetryBooksGoes, RetryAlreadyBookedGoes, RetryFailsGoes, RetryResolvesGoes,
       ReconcileGoes
       DEF Phase0
  <2> QED
    BY <2>1, GoesActs
<1>2. CASE Phase1
  <2>1. Goes
    BY <1>2, MarkBarGoes, MarkUnavailableGoes, EndMarksGoes DEF Phase1
  <2> QED
    BY <2>1, GoesActs
<1>3. CASE Phase2
  <2>1. Goes \/ JournalCloses \/ JournalCreates \/ \E k \in Keys : Adopt(k) \/ DecideAsIs(k)
    BY <1>3, PredictGoes, CatchUpBooksGoes, CaughtUpGoes, CatchUpRefusedGoes, NothingToCatchUpGoes,
       RefuseGoes, MoveGoes, JournalRefusesCloseGoes, JournalHasNoTradeGoes, BookExitGoes,
       ExitRefusedGoes, ClearGoes, JournalRefusesOpenGoes, SaveOpenGoes, IntendGoes, BookEntryGoes,
       EntryResolvesGoes, EntryRefusedGoes, RecordGoes, EndTickGoes
       DEF Phase2
  <2> QED
    BY <2>1, GoesActs, JournalClosesActs, JournalCreatesActs, AdoptActs, DecideAsIsActs
<1>4. CASE Operator
  <2>1. Goes \/ BeginReset \/ ResetBook \/ ResetStore \/ \E t \in DOMAIN journal : ResetDeletes(t)
    BY <1>4, ResetAbortsGoes, SetConfigsGoes DEF Operator
  <2> QED
    BY <2>1, GoesActs, ResetBeginsActs, ResetBookActs, ResetStoreActs, ResetDeletesActs
<1>5. CASE World
  <2>1. Goes \/ Crash \/ (\E k \in Keys : NewBar(k)) \/ \E t \in DOMAIN journal : TradeGone(t)
    BY <1>5, RestartGoes DEF World
  <2> QED
    BY <2>1, GoesActs, CrashActs, NewBarActs, TradeGoneActs
<1>6. CASE UNCHANGED vars
  <2>1. UNCHANGED <<journal, booked, lot, gen, store, disk, dirty, market, op, crashes, scenario>>
    BY <1>6 DEF vars
  <2>2. Goes
    BY <2>1, StandingGoes DEF Goes, Turns
  <2> QED
    BY <2>2, GoesActs
<1> QED
  BY <1>1, <1>2, <1>3, <1>4, <1>5, <1>6 DEF Next

\* The invariant holds in every behaviour.
LEMMA ActsIsInvariant == Spec => [](EngineInv /\ ActsInv)
<1>1. EngineInv /\ ActsInv /\ [Next]_vars => EngineInv' /\ ActsInv'
  BY NextKeeps, NextActs
<1> QED
  BY <1>1, InitKeeps, InitActs, PTL DEF Spec

\* A behaviour is one scenario.
LEMMA OneScenario == ASSUME [Next]_vars PROVE scenario' = scenario
<1>1. CASE Phase0
  BY <1>1
     DEF Phase0, BeginTick, RetryBooks, RetryAlreadyBooked, RetryFails, RetryResolves, Reconcile, env
<1>2. CASE Phase1
  BY <1>2 DEF Phase1, MarkBar, MarkUnavailable, EndMarks, env
<1>3. CASE Phase2
  BY <1>3 DEF Phase2, Adopt, DecideAsIs, Predict, CatchUpBooks, CaughtUp, CatchUpRefused,
     NothingToCatchUp, Refuse, Move, JournalCloses, JournalRefusesClose, JournalHasNoTrade, BookExit,
     ExitRefused, Clear, JournalCreates, JournalRefusesOpen, SaveOpen, Intend, BookEntry, EntryResolves,
     EntryRefused, Record, EndTick, env
<1>4. CASE Operator
  BY <1>4 DEF Operator, BeginReset, ResetDeletes, ResetBook, ResetAborts, ResetStore, SetConfigs, env
<1>5. CASE World
  BY <1>5 DEF World, NewBar, TradeGone, Crash, Restart, env
<1> QED
  BY <1>1, <1>2, <1>3, <1>4, <1>5 DEF Next, vars
-----------------------------------------------------------------------------
(***************************************************************************)
(* The theorems.                                                           *)
(***************************************************************************)
\* One open trade of a config, and one that stands of a prediction of it.
ActsOnceAtATime ==
    \A t, u \in DOMAIN journal :
        /\ journal[t].key = journal[u].key
        /\ \/ IsOpen(t) /\ IsOpen(u)
           \/ journal[t].on = journal[u].on /\ Stands(t) /\ Stands(u)
        => t = u

\* Whatever else fails, wherever crashes and resets fall and whoever deletes trades: as long as the
\* journal answers the engine that asks it for open trades (reconcile.go:adoptOrphan), a config has
\* one open trade at most, and a prediction one trade that stands. When it does not answer, the
\* engine opens a position beside the trade it could not see.
THEOREM EngineActsOnceAtATime == Spec /\ Listed => []ActsOnceAtATime
<1>1. EngineInv /\ ActsInv /\ Listed => ActsOnceAtATime
  BY DEF ActsInv, OneOpenAtATime, OneOpen, OneOfAPrediction, OneOnABar, ActsOnceAtATime
<1>2. Listed /\ [Next]_vars => Listed'
  BY OneScenario, ScenarioStays
<1> QED
  BY <1>1, <1>2, ActsIsInvariant, PTL DEF Spec

\* "Acting twice on one bar is a defect" (docs/PAPER_EXECUTION_CONTRACT.md:227): a config never has
\* two open trades, and no prediction of it opens a second trade of a generation,
\*  - through any crashes, lost answers, failed saves and refused fills, as long as the journal answers
\*    when it is asked for open trades and its trades are deleted by nobody, a reset included (Kept): a forgotten trade
\*    that was deleted is not there to be found, so its prediction may be acted on again; and
\*  - through any resets, deletions, refusals and lists that are not answered, as long as the engine
\*    has nothing to be told by the journal: its process goes on, its saves succeed and the answers to
\*    what it creates arrive (Remembering).
THEOREM EngineActsOnce == Spec /\ (Kept \/ Remembering) => []ActsOnce
<1>1. EngineInv /\ ActsInv /\ Kept => ActsOnce
  BY DEF ActsInv, Kept, OneOpenAtATime, OneOpen, OneOfAPrediction, OneOnABar, NoneIsGone, ActsOnce
<1>2. EngineInv /\ ActsInv /\ Remembering => ActsOnce
  <2> SUFFICES ASSUME EngineInv, NothingForgotten PROVE ActsOnce
    BY DEF ActsInv
  <2>1. \A t \in DOMAIN journal : journal[t].key \in Keys
    BY WorldTyped DEF EngineInv, TypeOK, WorldFacts
  <2> QED
    BY <2>1 DEF NothingForgotten, OpenIsHere, OneOfAGeneration, ActsOnce
<1>3. (Kept \/ Remembering) /\ [Next]_vars => (Kept \/ Remembering)'
  BY OneScenario, ScenarioStays
<1> QED
  BY <1>1, <1>2, <1>3, ActsIsInvariant, PTL DEF Spec

\* The book of a new generation has no leg of an older trade (handlers.go:507), and no change of the
\* configs disables one that holds something: in every scenario without a reset, and in those whose
\* saves succeed and whose process is not stopped, whatever the journal and the ledger do. Stopped
\* between the book and the store, a reset leaves what was owed to the old book, and the next pass
\* books it into the new one.
THEOREM EngineOperatorIsObeyed == Spec /\ (Unbroken \/ scenario.resets = 0) => []OperatorIsObeyed
<1>1. EngineInv /\ ActsInv /\ (Unbroken \/ scenario.resets = 0) => FreshBookStaysFresh
  <2> SUFFICES ASSUME EngineInv, ActsInv, Unbroken \/ scenario.resets = 0, NEW leg \in booked
               PROVE  Current(leg[1])
    BY DEF FreshBookStaysFresh
  <2>1. leg[1] \in DOMAIN journal /\ leg[2] \in Kinds /\ leg = <<leg[1], leg[2]>>
    BY WorldTyped DEF EngineInv, TypeOK, WorldFacts
  <2>2. Uses(leg[1])
    BY <2>1 DEF Uses
  <2> QED
    BY <2>1, <2>2 DEF ActsInv, FreshIsFresh, UsedIsCurrent
<1>2. (Unbroken \/ scenario.resets = 0) /\ [Next]_vars => (Unbroken \/ scenario.resets = 0)'
  BY OneScenario, ScenarioStays
<1>3. FreshBookStaysFresh /\ HeldIsEnabled <=> OperatorIsObeyed
  BY DEF OperatorIsObeyed
<1> QED
  BY <1>1, <1>2, <1>3, ActsIsInvariant, EngineHeldIsEnabled, PTL DEF Spec
=============================================================================
