-------------------------- MODULE PaperEngineSteps ---------------------------
(***************************************************************************)
(* The inductive invariant of PaperEngine, and that every step keeps it,   *)
(* for every set of configs, every bound and every scenario: any number of *)
(* crashes, resets and changes of the configs, and any of the faults in    *)
(* any order. PaperEngineProofs draws the theorems from it.                *)
(*                                                                         *)
(* EngineInv says, beside the types, that a config holds, owes and works   *)
(* on its own trades (Keyed); that only a durable store reaches the stages *)
(* that book (Durable); that a config found in agreement has its lot where *)
(* its position says, at each stage of its move (Agreement); that an entry *)
(* once booked has its lot or an exit (Booked); that an exit that is owed  *)
(* is its config's only one and still finds its lot (ExitsOwed); that a    *)
(* reset empties the book when no trade is left (ResetIsWhole); and that   *)
(* what holds or owes anything is enabled (Enabled).                       *)
(***************************************************************************)
EXTENDS PaperEngine, SequenceTheorems, TLAPS

Kinds == Book!OpenKinds \cup Book!CloseKinds
Legs == [trade : Nat, key : Keys, kind : Kinds]
Records == [key : Keys, side : Signals, kind : Book!OpenKinds, on : Nat, gen : Nat,
            status : {"open", "closed", "deleted"}]
Stores == [held : [Keys -> Nat], cursor : [Keys -> Nat], owed : Seq(Legs), enabled : SUBSET Keys]
Verdicts == [ok : BOOLEAN, checked : BOOLEAN]

RetryStages == {"retry", "retried"}
ResetStages == {"reset", "resetstore"}
\* The stages of one config's decision, and those that only a durable store reaches.
ConfigStages == {"predict", "catchup", "caughtup", "move", "close", "exit", "clear", "open", "opened",
                 "intend", "entry", "entered", "record"}
DurableStages == {"catchup", "caughtup", "close", "exit", "open", "opened", "intend", "entry", "entered"}
InConfig == op.at \in ConfigStages

RetryOps == [at : RetryStages, left : Seq(Legs)]
MarkOps == [at : {"mark"}, left : SUBSET Keys, sync : [Keys -> Verdicts], bars : [Keys -> Nat]]
DecideOps == [at : {"decide"}, sync : [Keys -> Verdicts], bars : [Keys -> Nat]]
ConfigOps == [at : ConfigStages, sync : [Keys -> Verdicts], bars : [Keys -> Nat], key : Keys, st : Nat,
              target : Signals, on : Nat, flip : BOOLEAN, gone : BOOLEAN, adv : BOOLEAN]
ResetOps == [at : ResetStages, failed : BOOLEAN, left : SUBSET Nat]

WorldTypeOK ==
    /\ journal \in Seq(Records)
    /\ booked \subseteq (DOMAIN journal) \X Kinds
    /\ lot \in [Keys -> Nat] /\ gen \in Nat
    /\ market \in [Keys -> [bar : Nat, signal : Signals]]
    /\ scenario \in Scenarios

StoreTypeOK == store \in Stores /\ disk \in Stores /\ dirty \in BOOLEAN

\* What op holds at each stage.
OpTypeOK ==
    \/ op = Idle
    \/ op = Down
    \/ op \in RetryOps
    \/ op \in MarkOps
    \/ op \in DecideOps
    \/ op \in ConfigOps
    \/ op \in ResetOps

TypeOK == WorldTypeOK /\ StoreTypeOK /\ OpTypeOK

Owns(k, t) == t # NoTrade => t \in DOMAIN journal /\ journal[t].key = k
OwedIn(s) == {s.owed[i] : i \in DOMAIN s.owed}
IsKeyed(p) == p.trade \in DOMAIN journal /\ p.key = journal[p.trade].key
Retried == IF op.at \in RetryStages THEN {op.left[i] : i \in DOMAIN op.left} ELSE {}
Obligations == OwedIn(store) \cup OwedIn(disk) \cup Retried

\* What a config holds, what it is owed and what it works on are its own trades.
HoldingsAreOwn == \A k \in Keys : Owns(k, store.held[k]) /\ Owns(k, disk.held[k]) /\ Owns(k, lot[k])
ObligationsAreOwn == \A p \in Obligations : IsKeyed(p)
WorkIsOwn ==
    /\ InConfig => Owns(op.key, op.st)
    /\ op.at \in {"caughtup", "close", "exit", "opened", "intend", "entry", "entered"} => op.st # NoTrade
    /\ op.at = "retried" => op.left # <<>>

Keyed == HoldingsAreOwn /\ ObligationsAreOwn /\ WorkIsOwn

\* A store without an error is what is on the disk.
Durable ==
    /\ op.at # "down" /\ ~dirty => disk = store
    /\ op.at \in DurableStages => ~dirty

Settled(k, t) == store.held[k] = t /\ \A p \in OwedIn(store) : p.key # k
Awaits(k) == \/ op.at = "mark"
             \/ op.at = "decide" /\ op.bars[k] > 0
             \/ InConfig /\ op.bars[k] > 0 /\ k # op.key

\* A verdict stays true until its config is decided, and through the decision.
AwaitingAgrees == \A k \in Keys : Awaits(k) /\ op.sync[k].ok => Settled(k, lot[k])
DecidingAgrees ==
    op.at \in {"predict", "catchup"} /\ ~dirty /\ op.sync[op.key].ok =>
        Settled(op.key, op.st) /\ (lot[op.key] = op.st \/ CatchesUp)
CaughtUpAgrees == op.at = "caughtup" => lot[op.key] = op.st
MovingAgrees ==
    op.at = "move" /\ ~dirty /\ op.sync[op.key].ok => Settled(op.key, op.st) /\ lot[op.key] = op.st
ActingAgrees ==
    op.at = "close" \/ (op.at = "open" /\ ~op.flip) => Settled(op.key, op.st) /\ lot[op.key] = op.st
OpeningIsFlat == op.at = "open" => op.st = NoTrade /\ store.held[op.key] = NoTrade
ExitingAgrees == op.at = "exit" => Settled(op.key, op.st) /\ lot[op.key] = op.st /\ ~IsOpen(op.st)

Agreement ==
    /\ AwaitingAgrees /\ DecidingAgrees /\ CaughtUpAgrees /\ MovingAgrees
    /\ ActingAgrees /\ OpeningIsFlat /\ ExitingAgrees

HasExit(t) == \E kind \in Book!CloseKinds : <<t, kind>> \in booked
NoneOpen(k) == \A t \in DOMAIN journal : journal[t].key = k => ~IsOpen(t)

\* A trade whose entry is booked has its lot, or an exit; and an exit follows the journal.
EntriesStand ==
    \A t \in DOMAIN journal, kind \in Book!OpenKinds :
        <<t, kind>> \in booked => lot[journal[t].key] = t \/ HasExit(t)
ExitsFollow == \A t \in DOMAIN journal : IsOpen(t) => ~HasExit(t)

Booked == EntriesStand /\ ExitsFollow

\* An exit that is owed, on whichever store, is its config's only one; and until it is booked the
\* lot of its config is the trade that was closed, or the config has no open trade at all.
OneExitOwed ==
    \A p, q \in Obligations :
        p.kind \in Book!CloseKinds /\ q.kind \in Book!CloseKinds /\ p.key = q.key => p = q
ExitsFindTheirLot ==
    \A p \in Obligations : p.kind \in Book!CloseKinds =>
        /\ ~IsOpen(p.trade)
        /\ HasBooked(p) \/ lot[p.key] = p.trade \/ NoneOpen(p.key)

\* While a position is cleared and the next one opened, an exit that is owed has its lot.
FlipsFindTheirLot ==
    op.at \in {"clear", "open"} =>
        \A p \in Obligations :
            p.kind \in Book!CloseKinds /\ p.key = op.key => HasBooked(p) \/ lot[p.key] = p.trade

ExitsOwed == OneExitOwed /\ ExitsFindTheirLot /\ FlipsFindTheirLot

\* A reset empties the book only when no trade is left.
ResetIsWhole ==
    op.at = "reset" /\ ~op.failed =>
        \A t \in DOMAIN journal : journal[t].status # "deleted" => t \in op.left

\* A config with a position, an obligation or a lot is enabled, in memory and on disk.
DiskEnables ==
    /\ \A k \in Keys : lot[k] # NoTrade \/ disk.held[k] # NoTrade => k \in disk.enabled
    /\ \A p \in OwedIn(disk) : p.key \in disk.enabled
MemoryEnables ==
    op.at # "down" =>
        /\ \A k \in Keys : store.held[k] # NoTrade \/ lot[k] # NoTrade => k \in store.enabled \cap disk.enabled
        /\ \A p \in OwedIn(store) \cup Retried : p.key \in store.enabled \cap disk.enabled
PassIsEnabled ==
    /\ op.at = "mark" => op.left \subseteq store.enabled
    /\ op.at \in {"mark", "decide"} \cup ConfigStages => \A k \in Keys : op.bars[k] > 0 => k \in store.enabled
    /\ InConfig => op.key \in store.enabled

Enabled == DiskEnables /\ MemoryEnables /\ PassIsEnabled

EngineInv ==
    /\ TypeOK /\ Keyed /\ Durable /\ Agreement /\ Booked /\ ExitsOwed /\ ResetIsWhole /\ Enabled
-----------------------------------------------------------------------------
(***************************************************************************)
(* What the types say, field by field.                                     *)
(***************************************************************************)
WorldFacts ==
    /\ Len(journal) \in Nat /\ DOMAIN journal = 1 .. Len(journal) /\ NoTrade \notin DOMAIN journal
    /\ \A t \in DOMAIN journal :
          /\ t \in Nat /\ journal[t] \in Records /\ journal[t].key \in Keys
          /\ journal[t].kind \in Book!OpenKinds
          /\ journal[t].status \in {"open", "closed", "deleted"}
    /\ \A leg \in booked : leg[1] \in DOMAIN journal /\ leg[2] \in Kinds /\ leg = <<leg[1], leg[2]>>
    /\ \A k \in Keys : lot[k] \in Nat
    /\ scenario.configs \subseteq Keys

StoreFacts(s) ==
    /\ s.enabled \subseteq Keys
    /\ \A k \in Keys : s.held[k] \in Nat
    /\ \A p \in OwedIn(s) : p \in Legs /\ p.trade \in Nat /\ p.key \in Keys /\ p.kind \in Kinds

OpFacts ==
    /\ op.at \in {"idle", "down", "mark", "decide"} \cup RetryStages \cup ConfigStages \cup ResetStages
    /\ op.at = "idle" => op = Idle
    /\ op.at = "down" => op = Down
    /\ op.at \in RetryStages => op \in RetryOps /\ op.left \in Seq(Legs)
    /\ op.at = "mark" => op \in MarkOps /\ op.left \subseteq Keys
    /\ op.at = "decide" => op \in DecideOps
    /\ InConfig =>
          /\ op \in ConfigOps /\ op.key \in Keys /\ op.st \in Nat /\ op.target \in Signals
          /\ op.on \in Nat
          /\ op.flip \in BOOLEAN /\ op.gone \in BOOLEAN /\ op.adv \in BOOLEAN
    /\ op.at \in {"mark", "decide"} \cup ConfigStages =>
          /\ op.sync \in [Keys -> Verdicts] /\ op.bars \in [Keys -> Nat]
          /\ \A k \in Keys : op.bars[k] \in Nat /\ op.sync[k].ok \in BOOLEAN /\ op.sync[k].checked \in BOOLEAN
    /\ op.at \in ResetStages => op \in ResetOps /\ op.left \subseteq Nat /\ op.failed \in BOOLEAN

\* The types of the journal, the book and the scenario.
LEMMA WorldTyped == WorldTypeOK => WorldFacts
<1> SUFFICES ASSUME WorldTypeOK PROVE WorldFacts
  OBVIOUS
<1>1. Len(journal) \in Nat /\ DOMAIN journal = 1 .. Len(journal)
  BY DEF WorldTypeOK
<1>2. \A t \in DOMAIN journal : journal[t] \in Records
  BY <1>1, ElementOfSeq DEF WorldTypeOK
<1>3. scenario.configs \subseteq Keys
  BY ScenarioAssumption DEF WorldTypeOK, Scenario
<1>4. \A leg \in booked : leg[1] \in DOMAIN journal /\ leg[2] \in Kinds /\ leg = <<leg[1], leg[2]>>
  BY DEF WorldTypeOK
<1> QED
  BY <1>1, <1>2, <1>3, <1>4 DEF WorldFacts, WorldTypeOK, Records, NoTrade

\* The types of a store.
LEMMA StoreTyped == ASSUME NEW s \in Stores PROVE StoreFacts(s)
<1>1. s.owed \in Seq(Legs) /\ s.enabled \subseteq Keys /\ s.held \in [Keys -> Nat]
  BY DEF Stores
<1>2. DOMAIN s.owed = 1 .. Len(s.owed) /\ \A i \in DOMAIN s.owed : s.owed[i] \in Legs
  BY <1>1, ElementOfSeq
<1>3. \A p \in OwedIn(s) : p \in Legs
  BY <1>2 DEF OwedIn
<1> QED
  BY <1>1, <1>3 DEF StoreFacts, Legs

\* What op holds, by its stage.
LEMMA OpTyped == OpTypeOK => OpFacts
<1> SUFFICES ASSUME OpTypeOK PROVE OpFacts
  OBVIOUS
<1> USE DEF OpFacts, InConfig, RetryStages, ConfigStages, ResetStages
<1>1. CASE op = Idle
  BY <1>1 DEF Idle
<1>2. CASE op = Down
  BY <1>2 DEF Down
<1>3. CASE op \in RetryOps
  BY <1>3 DEF RetryOps
<1>4. CASE op \in MarkOps
  BY <1>4 DEF MarkOps, Verdicts
<1>5. CASE op \in DecideOps
  BY <1>5 DEF DecideOps, Verdicts
<1>6. CASE op \in ConfigOps
  BY <1>6 DEF ConfigOps, Verdicts
<1>7. CASE op \in ResetOps
  BY <1>7 DEF ResetOps
<1> QED
  BY <1>1, <1>2, <1>3, <1>4, <1>5, <1>6, <1>7 DEF OpTypeOK

\* The same after a step.
LEMMA TypedAfter ==
    ASSUME WorldTypeOK', StoreTypeOK', OpTypeOK'
    PROVE  WorldFacts' /\ StoreFacts(store') /\ StoreFacts(disk') /\ OpFacts'
<1>1. WorldFacts'
  BY WorldTyped, PTL
<1>2. OpFacts'
  BY OpTyped, PTL
<1>3. StoreFacts(store') /\ StoreFacts(disk')
  BY StoreTyped DEF StoreTypeOK
<1> QED
  BY <1>1, <1>2, <1>3
-----------------------------------------------------------------------------
(***************************************************************************)
(* What the operations on the store and the book do.                       *)
(***************************************************************************)
\* A save that gives no error has written what it was given, in memory and on disk; one that does
\* leaves each of them either as it was or as it was given.
LEMMA SaveDoes ==
    ASSUME NEW s, Save(s)
    PROVE  /\ dirty' \in BOOLEAN
           /\ store' \in {store, s} /\ disk' \in {disk, s}
           /\ (store' = s => disk' = s \/ store' = store)
           /\ ~dirty' => store' = s /\ disk' = s
           /\ s = store => store' = store /\ disk' \in {disk, store}
BY DEF Save

\* An obligation written down is there, beside the others.
LEMMA OwingOwes ==
    ASSUME store \in Stores, NEW p \in Legs
    PROVE  /\ Owing(p) \in Stores
           /\ Owing(p).held = store.held /\ Owing(p).cursor = store.cursor
           /\ Owing(p).enabled = store.enabled
           /\ OwedIn(Owing(p)) = OwedIn(store) \cup {p}
<1>1. CASE IsOwed(store, p)
  BY <1>1 DEF Owing, IsOwed, OwedIn
<1>2. CASE ~IsOwed(store, p)
  <2> DEFINE new == Append(store.owed, p)
  <2>1. store.owed \in Seq(Legs)
    BY DEF Stores
  <2>2. /\ new \in Seq(Legs) /\ Len(new) = Len(store.owed) + 1 /\ Len(store.owed) \in Nat
        /\ \A i \in 1 .. Len(store.owed) : new[i] = store.owed[i]
        /\ new[Len(store.owed) + 1] = p
    BY <2>1, AppendProperties
  <2>3. DOMAIN new = 1 .. Len(store.owed) + 1 /\ DOMAIN store.owed = 1 .. Len(store.owed)
    BY <2>1, <2>2
  <2>4. Owing(p) = [store EXCEPT !.owed = new]
    BY <1>2 DEF Owing
  <2> HIDE DEF new
  <2>5. /\ Owing(p).owed = new /\ Owing(p) \in Stores
        /\ Owing(p).held = store.held /\ Owing(p).cursor = store.cursor
        /\ Owing(p).enabled = store.enabled
    BY <2>2, <2>4 DEF Stores
  <2>6. {new[i] : i \in DOMAIN new} = {store.owed[i] : i \in DOMAIN store.owed} \cup {p}
    BY <2>2, <2>3
  <2> QED
    BY <2>5, <2>6 DEF OwedIn
<1> QED BY <1>1, <1>2

\* Clearing an obligation clears no other kind, and invents none.
LEMMA SettlingOwes ==
    ASSUME store \in Stores, NEW p
    PROVE  /\ Settling(p) \in Stores
           /\ Settling(p).held = store.held /\ Settling(p).cursor = store.cursor
           /\ Settling(p).enabled = store.enabled
           /\ OwedIn(Settling(p)) \subseteq OwedIn(store)
<1>1. CASE ~IsOwed(store, p)
  BY <1>1 DEF Settling
<1>2. CASE IsOwed(store, p)
  <2> DEFINE owed == store.owed
             n == CHOOSE i \in DOMAIN owed : owed[i] = p
             new == Without(owed, n)
  <2>1. owed \in Seq(Legs) /\ Len(owed) \in Nat /\ DOMAIN owed = 1 .. Len(owed)
    BY DEF Stores
  <2>2. n \in 1 .. Len(owed)
    BY <1>2, <2>1 DEF IsOwed
  <2>3. Settling(p) = [store EXCEPT !.owed = new]
    BY <1>2 DEF Settling
  <2> HIDE DEF n
  <2>4. ASSUME NEW j \in 1 .. Len(owed) - 1
        PROVE  (IF j < n THEN owed[j] ELSE owed[j + 1]) \in {owed[i] : i \in 1 .. Len(owed)} \cap Legs
    BY <2>1, <2>2, <2>4, ElementOfSeq
  <2>5. Len(owed) - 1 \in Nat
    BY <2>1, <2>2
  <2>6. /\ new \in [1 .. Len(owed) - 1 -> Legs] /\ DOMAIN new = 1 .. Len(owed) - 1
        /\ {new[j] : j \in DOMAIN new} \subseteq {owed[i] : i \in 1 .. Len(owed)}
    BY <2>4 DEF Without
  <2>7. new \in Seq(Legs)
    BY <2>5, <2>6, SeqDef
  <2> HIDE DEF new
  <2>8. /\ Settling(p).owed = new /\ Settling(p) \in Stores
        /\ Settling(p).held = store.held /\ Settling(p).cursor = store.cursor
        /\ Settling(p).enabled = store.enabled
    BY <2>3, <2>7 DEF Stores
  <2> QED
    BY <2>1, <2>6, <2>8 DEF OwedIn
<1> QED BY <1>1, <1>2

\* The state of a config is set.
LEMMA HoldingHolds ==
    ASSUME store \in Stores, NEW k \in Keys, NEW t \in Nat
    PROVE  /\ Holding(k, t) \in Stores
           /\ \A j \in Keys : Holding(k, t).held[j] = IF j = k THEN t ELSE store.held[j]
           /\ Holding(k, t).enabled = store.enabled
           /\ OwedIn(Holding(k, t)) = OwedIn(store)
BY DEF Holding, Stores, OwedIn

\* No leg of a config is owed.
LEMMA OwedForNone ==
    ASSUME NEW s, NEW k
    PROVE  OwedFor(s, k) = {} <=> \A p \in OwedIn(s) : p.key # k
BY DEF OwedFor, OwedIn

\* The first of what a pass has left to retry.
LEMMA HeadIsOwed ==
    ASSUME OpFacts, op.at \in RetryStages, op.left # <<>>
    PROVE  /\ Owed \in Legs /\ Owed \in Retried /\ Tail(op.left) \in Seq(Legs)
           /\ {Tail(op.left)[i] : i \in DOMAIN Tail(op.left)} \subseteq Retried
<1>1. op.left \in Seq(Legs)
  BY DEF OpFacts
<1>2. /\ Owed \in Legs /\ Tail(op.left) \in Seq(Legs) /\ Len(Tail(op.left)) = Len(op.left) - 1
      /\ \A i \in 1 .. Len(Tail(op.left)) : Tail(op.left)[i] = op.left[i + 1]
  BY <1>1, HeadTailProperties DEF Owed
<1>3. Len(op.left) \in Nat /\ Len(op.left) > 0 /\ DOMAIN op.left = 1 .. Len(op.left) /\ Owed = op.left[1]
  BY <1>1, EmptySeq DEF Owed
<1>4. DOMAIN Tail(op.left) = 1 .. Len(Tail(op.left))
  BY <1>2
<1>5. Owed \in {op.left[i] : i \in DOMAIN op.left}
  BY <1>3
<1>6. ASSUME NEW i \in DOMAIN Tail(op.left) PROVE Tail(op.left)[i] \in {op.left[j] : j \in DOMAIN op.left}
  BY <1>2, <1>3, <1>4, <1>6
<1> QED
  BY <1>2, <1>5, <1>6 DEF Retried

\* A leg that is booked takes its config's lot, or closes it.
LEMMA BookLegDoes ==
    ASSUME WorldTypeOK, NEW p, p.key \in Keys, p.trade \in Nat, BookLeg(p)
    PROVE  /\ gen' = gen /\ lot' \in [Keys -> Nat]
           /\ \A k \in Keys : k # p.key => lot'[k] = lot[k]
           /\ \/ /\ p.kind \in Book!OpenKinds /\ lot[p.key] = NoTrade /\ lot'[p.key] = p.trade
                 /\ booked' = booked \cup {<<p.trade, p.kind>>}
              \/ /\ p.kind \in Book!CloseKinds /\ lot[p.key] # NoTrade /\ lot'[p.key] = NoTrade
                 /\ booked' = booked \cup {<<lot[p.key], p.kind>>}
<1>1. lot \in [Keys -> Nat] /\ NoTrade \in Nat
  BY DEF WorldTypeOK, NoTrade
<1>2. CASE Book!BookOpen(p.key, p.trade, p.kind)
  BY <1>1, <1>2 DEF BookLeg, Book!BookOpen, Book!MayBookOpen
<1>3. CASE Book!BookClose(p.key, p.kind)
  BY <1>1, <1>3 DEF BookLeg, Book!BookClose, Book!MayBookClose
<1> QED
  BY <1>2, <1>3 DEF BookLeg

\* What the stages of a decision hold from one to the next.
LEMMA GoToType ==
    ASSUME op \in ConfigOps, NEW next \in ConfigStages, GoTo(next) PROVE op' \in ConfigOps
BY DEF GoTo, ConfigOps

\* A config's decision recorded keeps the shape of op.
LEMMA RecordedType ==
    ASSUME op \in ConfigOps, NEW t \in Nat, NEW adv \in BOOLEAN, Recorded(t, adv) PROVE op' \in ConfigOps
BY DEF Recorded, ConfigOps, ConfigStages

\* So does the step from the journal's answer to the save of the new trade,
LEMMA OpensType ==
    ASSUME op \in ConfigOps, NEW next \in ConfigStages, NEW t \in Nat,
           op' = [op EXCEPT !.at = next, !.st = t]
    PROVE  op' \in ConfigOps
BY DEF ConfigOps

\* and a change of what the pass knows of its config,
LEMMA VerdictType ==
    ASSUME op \in ConfigOps, NEW next \in ConfigStages, NEW v \in Verdicts,
           op' = [op EXCEPT !.at = next, !.sync[op.key] = v]
    PROVE  op' \in ConfigOps
<1>1. op.sync \in [Keys -> Verdicts] /\ op.key \in Keys
  BY DEF ConfigOps
<1> DEFINE new == [op.sync EXCEPT ![op.key] = v]
<1>2. new \in [Keys -> Verdicts] /\ op' = [op EXCEPT !.at = next, !.sync = new]
  BY <1>1
<1> HIDE DEF new
<1> QED
  BY <1>2 DEF ConfigOps

\* A verdict is one, whatever was compared.
LEMMA VerdictTyped ==
    \A s, d, k : \A checked \in BOOLEAN : Verdict(s, d, k, checked) \in Verdicts
BY Zenon DEF Verdict, Verdicts

\* and the start of a config's decision.
LEMMA DecidingType ==
    ASSUME op \in DecideOps, NEW k \in Keys, NEW t \in Nat, op' = Deciding(k, t, "predict")
    PROVE  op' \in ConfigOps
BY DEF Deciding, DecideOps, ConfigOps, ConfigStages, Signals

\* The status of a trade is set: the journal stays one, with the same trades.
LEMMA StatusIsSet ==
    ASSUME WorldTypeOK, NEW t \in DOMAIN journal, NEW s \in {"open", "closed", "deleted"},
           journal' = [journal EXCEPT ![t].status = s]
    PROVE  /\ journal' \in Seq(Records) /\ DOMAIN journal' = DOMAIN journal
           /\ \A u \in DOMAIN journal :
                 /\ journal'[u].key = journal[u].key /\ journal'[u].kind = journal[u].kind
                 /\ journal'[u].on = journal[u].on /\ journal'[u].gen = journal[u].gen
                 /\ journal'[u].side = journal[u].side
                 /\ journal'[u].status = IF u = t THEN s ELSE journal[u].status
<1>1. /\ journal \in Seq(Records) /\ t \in 1 .. Len(journal) /\ DOMAIN journal = 1 .. Len(journal)
      /\ \A u \in DOMAIN journal : journal[u] \in Records
  BY WorldTyped DEF WorldTypeOK, WorldFacts
<1> DEFINE r == [journal[t] EXCEPT !.status = s]
<1>2. /\ r \in Records /\ r.key = journal[t].key /\ r.kind = journal[t].kind /\ r.on = journal[t].on
      /\ r.gen = journal[t].gen /\ r.status = s /\ r.side = journal[t].side
  BY <1>1 DEF Records
<1>3. journal' = [journal EXCEPT ![t] = r]
  OBVIOUS
<1> HIDE DEF r
<1>4. /\ journal' \in Seq(Records) /\ Len(journal') = Len(journal)
      /\ \A u \in 1 .. Len(journal) : journal'[u] = IF u = t THEN r ELSE journal[u]
  BY <1>1, <1>2, <1>3, ExceptSeq
<1> QED
  BY <1>1, <1>2, <1>4

\* A trade is added behind the others.
LEMMA TradeIsAdded ==
    ASSUME WorldTypeOK, NEW r \in Records, journal' = Append(journal, r)
    PROVE  /\ journal' \in Seq(Records) /\ DOMAIN journal' = DOMAIN journal \cup {Len(journal) + 1}
           /\ Len(journal) + 1 \notin DOMAIN journal
           /\ journal'[Len(journal) + 1] = r /\ \A u \in DOMAIN journal : journal'[u] = journal[u]
<1>1. journal \in Seq(Records) /\ DOMAIN journal = 1 .. Len(journal) /\ Len(journal) \in Nat
  BY WorldTyped DEF WorldTypeOK, WorldFacts
<1>2. /\ journal' \in Seq(Records) /\ Len(journal') = Len(journal) + 1
      /\ \A u \in 1 .. Len(journal) : journal'[u] = journal[u]
      /\ journal'[Len(journal) + 1] = r
  BY <1>1, AppendProperties
<1>3. DOMAIN journal' = 1 .. Len(journal) + 1
  BY <1>1, <1>2
<1> QED
  BY <1>1, <1>2, <1>3
\* A leg that is booked, and whose trade the journal has closed when it is an exit, keeps the book
\* in order: every entry has its lot or its exit, and no open trade has an exit.
LEMMA LegKeepsBook ==
    ASSUME EngineInv, WorldTypeOK, WorldFacts, NEW p, p.key \in Keys, IsKeyed(p), p.kind \in Kinds,
           BookLeg(p), journal' = journal,
           p.kind \in Book!CloseKinds => ~IsOpen(lot[p.key])
    PROVE  /\ gen' = gen /\ lot' \in [Keys -> Nat] /\ booked' \subseteq (DOMAIN journal) \X Kinds
           /\ \A k \in Keys : k # p.key => lot'[k] = lot[k]
           /\ Owns(p.key, lot'[p.key]) /\ booked \subseteq booked' /\ Booked'
           /\ \/ /\ p.kind \in Book!OpenKinds /\ lot[p.key] = NoTrade /\ lot'[p.key] = p.trade
                 /\ booked' = booked \cup {<<p.trade, p.kind>>}
              \/ /\ p.kind \in Book!CloseKinds /\ lot[p.key] # NoTrade /\ lot'[p.key] = NoTrade
                 /\ booked' = booked \cup {<<lot[p.key], p.kind>>}
<1>1. /\ p.trade \in DOMAIN journal /\ p.trade \in Nat /\ p.trade # NoTrade
      /\ p.key = journal[p.trade].key
      /\ \A k \in Keys : lot[k] # NoTrade => lot[k] \in DOMAIN journal /\ journal[lot[k]].key = k
      /\ \A t \in DOMAIN journal : t # NoTrade /\ journal[t].key \in Keys
  BY DEF IsKeyed, WorldFacts, EngineInv, Keyed, HoldingsAreOwn, Owns
<1>2. /\ gen' = gen /\ lot' \in [Keys -> Nat]
      /\ \A k \in Keys : k # p.key => lot'[k] = lot[k]
      /\ \/ /\ p.kind \in Book!OpenKinds /\ lot[p.key] = NoTrade /\ lot'[p.key] = p.trade
            /\ booked' = booked \cup {<<p.trade, p.kind>>}
         \/ /\ p.kind \in Book!CloseKinds /\ lot[p.key] # NoTrade /\ lot'[p.key] = NoTrade
            /\ booked' = booked \cup {<<lot[p.key], p.kind>>}
  BY <1>1, BookLegDoes
<1>3. booked' \subseteq (DOMAIN journal) \X Kinds /\ booked \subseteq booked'
  BY <1>1, <1>2 DEF WorldTypeOK
<1>4. Owns(p.key, lot'[p.key])
  BY <1>1, <1>2 DEF Owns
<1>5. \A t \in DOMAIN journal : HasExit(t) => HasExit(t)'
  BY <1>3 DEF HasExit
<1>6. ASSUME NEW t \in DOMAIN journal, NEW kind \in Book!OpenKinds, <<t, kind>> \in booked'
      PROVE  lot'[journal[t].key] = t \/ HasExit(t)'
  <2>1. CASE <<t, kind>> \in booked
    <3>1. lot[journal[t].key] = t \/ HasExit(t)
      BY <2>1 DEF EngineInv, Booked, EntriesStand
    <3>2. CASE lot[journal[t].key] = t /\ journal[t].key = p.key
      <4>1. p.kind \in Book!CloseKinds /\ <<t, p.kind>> \in booked'
        BY <1>1, <1>2, <3>2
      <4> QED
        BY <4>1 DEF HasExit
    <3> QED
      BY <1>1, <1>2, <1>5, <3>1, <3>2
  <2>2. CASE <<t, kind>> \notin booked
    <3>1. kind \notin Book!CloseKinds
      BY DEF Book!OpenKinds, Book!CloseKinds
    <3>2. t = p.trade /\ lot'[p.key] = p.trade
      BY <1>2, <1>6, <2>2, <3>1
    <3> QED
      BY <1>1, <3>2
  <2> QED BY <2>1, <2>2
<1>7. ASSUME NEW t \in DOMAIN journal, HasExit(t)' PROVE ~IsOpen(t)
  <2>1. PICK kind \in Book!CloseKinds : <<t, kind>> \in booked'
    BY <1>7 DEF HasExit
  <2>2. kind \notin Book!OpenKinds
    BY DEF Book!OpenKinds, Book!CloseKinds
  <2>3. CASE <<t, kind>> \in booked
    BY <2>3 DEF EngineInv, Booked, ExitsFollow, HasExit
  <2>4. CASE <<t, kind>> \notin booked
    BY <1>2, <2>1, <2>2, <2>4
  <2> QED BY <2>3, <2>4
<1>8. Booked'
  <2>1. (\A t \in DOMAIN journal : IsOpen(t)' <=> IsOpen(t))
    BY DEF IsOpen
  <2>2. EntriesStand'
    BY <1>6 DEF EntriesStand
  <2>3. ExitsFollow'
    BY <1>7, <2>1 DEF ExitsFollow
  <2> QED BY <2>2, <2>3 DEF Booked
<1> QED
  BY <1>2, <1>3, <1>4, <1>8
-----------------------------------------------------------------------------
(***************************************************************************)
(* One lemma per action: what the action does, and that it keeps the       *)
(* invariant.                                                              *)
(***************************************************************************)
\* A pass starts: what it will retry is what the store owes.
LEMMA BeginTickKeeps ==
    ASSUME EngineInv, BeginTick PROVE EngineInv'
<1>1. /\ WorldFacts /\ StoreFacts(store) /\ StoreFacts(disk) /\ OpFacts
      /\ WorldTypeOK /\ StoreTypeOK /\ OpTypeOK
  BY WorldTyped, StoreTyped, OpTyped DEF EngineInv, TypeOK, StoreTypeOK
<1>2. /\ op.at = "idle"
      /\ op'.at = "retry"
      /\ op'.left = store.owed
      /\ UNCHANGED journal
      /\ UNCHANGED <<booked, lot, gen>>
      /\ UNCHANGED <<store, disk, dirty>>
      /\ UNCHANGED <<market, scenario>>
  BY <1>1 DEF BeginTick, Idle, book, env, OpFacts, InConfig, RetryOps, RetryStages
<1>6. WorldTypeOK'
  BY <1>1, <1>2 DEF WorldTypeOK
<1>7. StoreTypeOK'
  BY <1>1, <1>2 DEF StoreTypeOK
<1>8. OpTypeOK'
  <2>1. op' \in RetryOps
    <3>1. store.owed \in Seq(Legs)
      BY <1>1 DEF StoreTypeOK, Stores
    <3>2. op' = [at |-> "retry", left |-> store.owed]
      BY DEF BeginTick
    <3> QED
      BY <3>1, <3>2 DEF RetryOps, RetryStages
  <2> QED
    BY <2>1 DEF OpTypeOK
<1>9. WorldFacts' /\ StoreFacts(store') /\ StoreFacts(disk') /\ OpFacts'
  BY <1>6, <1>7, <1>8, TypedAfter
<1>r. Retried' = OwedIn(store)
  BY <1>2 DEF Retried, RetryStages, OwedIn
<1>o. Obligations' \subseteq Obligations
  BY <1>2, <1>r DEF Obligations, Retried, RetryStages
<1>10. Keyed'
  BY <1>2, <1>o
     DEF Keyed, HoldingsAreOwn, ObligationsAreOwn, WorkIsOwn, Owns, IsKeyed, InConfig, ConfigStages,
         EngineInv
<1>11. Durable'
  BY <1>2 DEF Durable, DurableStages, EngineInv
<1>12. Agreement'
  BY <1>2
     DEF Agreement, AwaitingAgrees, DecidingAgrees, CaughtUpAgrees, MovingAgrees, ActingAgrees,
         OpeningIsFlat, ExitingAgrees, Settled, Awaits, InConfig, ConfigStages, EngineInv
<1>13. Booked'
  BY <1>2 DEF Booked, EntriesStand, ExitsFollow, HasExit, IsOpen, EngineInv
<1>14. ExitsOwed'
  BY <1>2, <1>o
     DEF ExitsOwed, OneExitOwed, ExitsFindTheirLot, FlipsFindTheirLot, HasBooked, NoneOpen, IsOpen,
         EngineInv
<1>15. ResetIsWhole'
  BY <1>2 DEF ResetIsWhole, EngineInv
<1>16. Enabled'
  <2>1. DiskEnables'
    BY <1>2 DEF Enabled, DiskEnables, EngineInv
  <2>2. MemoryEnables'
    BY <1>1, <1>2, <1>r DEF MemoryEnables, EngineInv, Enabled
  <2>3. PassIsEnabled'
    BY <1>2 DEF Enabled, PassIsEnabled, InConfig, ConfigStages, EngineInv
  <2> QED
    BY <2>1, <2>2, <2>3 DEF Enabled
<1> QED
  BY <1>6, <1>7, <1>8, <1>10, <1>11, <1>12, <1>13, <1>14, <1>15, <1>16 DEF EngineInv, TypeOK

\* A retry books a leg that is owed: a close finds the lot of the trade it closes, so the config
\* ends flat and no open trade is given an exit.
LEMMA RetryBooksKeeps ==
    ASSUME EngineInv, RetryBooks PROVE EngineInv'
<1>1. /\ WorldFacts /\ StoreFacts(store) /\ StoreFacts(disk) /\ OpFacts
      /\ WorldTypeOK /\ StoreTypeOK /\ OpTypeOK
  BY WorldTyped, StoreTyped, OpTyped DEF EngineInv, TypeOK, StoreTypeOK
<1>2. /\ op.at = "retry"
      /\ op'.at = "retried"
      /\ op'.left = op.left
      /\ op.left # <<>>
      /\ ~HasBooked(Owed)
      /\ BookLeg(Owed)
      /\ UNCHANGED journal
      /\ UNCHANGED <<store, disk, dirty>>
      /\ UNCHANGED <<market, scenario>>
  BY <1>1 DEF RetryBooks, Retrying, book, env, OpFacts, InConfig, RetryOps, RetryStages
<1> DEFINE p == Owed
<1>b. /\ p.key \in Keys /\ p.key \in store.enabled \cap disk.enabled /\ IsKeyed(p) /\ p.kind \in Kinds
      /\ p.trade \in DOMAIN journal /\ (p \in Obligations \/ p.kind \in Book!OpenKinds)
      /\ gen' = gen /\ lot' \in [Keys -> Nat] /\ booked' \subseteq (DOMAIN journal) \X Kinds
      /\ \A k \in Keys : k # p.key => lot'[k] = lot[k]
      /\ Owns(p.key, lot'[p.key]) /\ booked \subseteq booked' /\ Booked'
      /\ \/ /\ p.kind \in Book!OpenKinds /\ lot[p.key] = NoTrade /\ lot'[p.key] = p.trade
            /\ booked' = booked \cup {<<p.trade, p.kind>>}
         \/ /\ p.kind \in Book!CloseKinds /\ lot[p.key] # NoTrade /\ lot'[p.key] = NoTrade
            /\ booked' = booked \cup {<<lot[p.key], p.kind>>}
  <2>1. /\ p.key \in Keys /\ p.key \in store.enabled \cap disk.enabled /\ IsKeyed(p) /\ p.kind \in Kinds
        /\ p.trade \in DOMAIN journal /\ (p \in Obligations \/ p.kind \in Book!OpenKinds)
    <3>1. p \in Legs /\ p \in Retried /\ p \in Obligations /\ op.at # "down"
      BY <1>1, <1>2, HeadIsOwed DEF RetryStages, Obligations
    <3> HIDE DEF p
    <3> QED
      BY <1>1, <3>1 DEF Legs, EngineInv, Keyed, ObligationsAreOwn, IsKeyed, Enabled, MemoryEnables
  <2>2. p.kind \in Book!CloseKinds => ~IsOpen(lot[p.key])
    <3>1. p \in Obligations /\ ~HasBooked(p) /\ IsKeyed(p) /\ p.key \in Keys
      BY <1>1, <1>2, <2>1, HeadIsOwed DEF RetryStages, Obligations
    <3> HIDE DEF p
    <3>2. ASSUME p.kind \in Book!CloseKinds, lot[p.key] # NoTrade PROVE ~IsOpen(lot[p.key])
      BY <3>1, <3>2 DEF EngineInv, Keyed, HoldingsAreOwn, Owns, ExitsOwed, ExitsFindTheirLot, NoneOpen
    <3>3. p.kind \in Book!CloseKinds => lot[p.key] # NoTrade
      <4>1. BookLeg(p)
        BY <1>2 DEF p
      <4>2. p.trade \in Nat
        BY <1>1, <2>1 DEF WorldFacts
      <4> QED
        BY <1>1, <3>1, <4>1, <4>2, BookLegDoes DEF Book!OpenKinds, Book!CloseKinds
    <3> QED
      BY <3>2, <3>3
  <2>3. BookLeg(p)
    BY <1>2
  <2> HIDE DEF p
  <2> QED
    BY <1>1, <1>2, <2>1, <2>2, <2>3, LegKeepsBook
<1> HIDE DEF p
<1>6. WorldTypeOK'
  BY <1>1, <1>2, <1>b DEF WorldTypeOK
<1>7. StoreTypeOK'
  BY <1>1, <1>2 DEF StoreTypeOK
<1>8. OpTypeOK'
  <2>1. op' \in RetryOps
    BY <1>1, <1>2 DEF RetryBooks, Retrying, OpFacts, InConfig, RetryOps, RetryStages
  <2> QED
    BY <2>1 DEF OpTypeOK
<1>9. WorldFacts' /\ StoreFacts(store') /\ StoreFacts(disk') /\ OpFacts'
  BY <1>6, <1>7, <1>8, TypedAfter
<1>o. Obligations' \subseteq Obligations
  BY <1>1, <1>2 DEF Obligations, Retried, RetryStages, ConfigStages
<1>10. Keyed'
  <2>1. HoldingsAreOwn'
    BY <1>2, <1>b DEF Keyed, HoldingsAreOwn, Owns, IsKeyed, EngineInv
  <2>2. ObligationsAreOwn'
    BY <1>2, <1>b, <1>o DEF Keyed, ObligationsAreOwn, Owns, IsKeyed, EngineInv
  <2>3. WorkIsOwn'
    BY <1>2, <1>b DEF Keyed, WorkIsOwn, InConfig, ConfigStages, EngineInv
  <2> QED
    BY <2>1, <2>2, <2>3 DEF Keyed
<1>11. Durable'
  BY <1>2, <1>b DEF Durable, DurableStages, EngineInv
<1>12. Agreement'
  BY <1>2, <1>b
     DEF Agreement, AwaitingAgrees, DecidingAgrees, CaughtUpAgrees, MovingAgrees, ActingAgrees,
         OpeningIsFlat, ExitingAgrees, Settled, Awaits, InConfig, ConfigStages, EngineInv
<1>13. Booked'
  <2>1. EntriesStand'
    BY <1>2, <1>b DEF Booked, EntriesStand, EngineInv
  <2>2. ExitsFollow'
    BY <1>2, <1>b DEF Booked, ExitsFollow, EngineInv
  <2> QED
    BY <2>1, <2>2 DEF Booked
<1>14. ExitsOwed'
  <2>1. OneExitOwed'
    BY <1>o DEF EngineInv, ExitsOwed, OneExitOwed
  <2>2. ExitsFindTheirLot'
    <3>1. ASSUME NEW q \in Obligations', q.kind \in Book!CloseKinds
          PROVE  ~IsOpen(q.trade)' /\ (HasBooked(q)' \/ lot'[q.key] = q.trade \/ NoneOpen(q.key)')
      <4>1. /\ q \in Obligations /\ ~IsOpen(q.trade) /\ q.key \in Keys /\ q.trade \in DOMAIN journal
            /\ HasBooked(q) \/ lot[q.key] = q.trade \/ NoneOpen(q.key)
        BY <1>1, <1>o, <3>1
           DEF EngineInv, ExitsOwed, ExitsFindTheirLot, Keyed, ObligationsAreOwn, IsKeyed, WorldFacts
      <4>2. (HasBooked(q) => HasBooked(q)') /\ (NoneOpen(q.key) => NoneOpen(q.key)') /\ ~IsOpen(q.trade)'
        BY <1>2, <1>b, <4>1 DEF HasBooked, NoneOpen, IsOpen
      <4>3. CASE lot[q.key] = q.trade /\ q.key = p.key
        <5>1. CASE p.kind \in Book!OpenKinds
          BY <1>1, <1>b, <4>1, <4>3, <5>1 DEF WorldFacts, Book!OpenKinds, Book!CloseKinds
        <5>2. CASE p.kind \in Book!CloseKinds
          <6>1. p = q
            BY <1>b, <3>1, <4>1, <4>3, <5>2
               DEF EngineInv, ExitsOwed, OneExitOwed, Book!OpenKinds, Book!CloseKinds
          <6>2. <<lot[p.key], p.kind>> \in booked'
            BY <1>b, <5>2 DEF Book!OpenKinds, Book!CloseKinds
          <6>3. HasBooked(q)'
            BY <4>3, <6>1, <6>2 DEF HasBooked
          <6> QED
            BY <4>2, <6>3
        <5> QED
          BY <1>b, <5>1, <5>2 DEF Kinds
      <4> QED
        BY <1>b, <4>1, <4>2, <4>3
    <3> QED
      BY <3>1 DEF ExitsFindTheirLot
  <2>3. FlipsFindTheirLot'
    BY <1>2, <1>b DEF ExitsOwed, FlipsFindTheirLot, EngineInv
  <2> QED
    BY <2>1, <2>2, <2>3 DEF ExitsOwed
<1>15. ResetIsWhole'
  BY <1>2, <1>b DEF ResetIsWhole, EngineInv
<1>16. Enabled'
  <2>1. DiskEnables'
    BY <1>2, <1>b DEF Enabled, DiskEnables, EngineInv
  <2>2. MemoryEnables'
    BY <1>2, <1>b DEF Enabled, MemoryEnables, Retried, RetryStages, StoreFacts, EngineInv
  <2>3. PassIsEnabled'
    BY <1>2, <1>b DEF Enabled, PassIsEnabled, InConfig, ConfigStages, EngineInv
  <2> QED
    BY <2>1, <2>2, <2>3 DEF Enabled
<1> QED
  BY <1>6, <1>7, <1>8, <1>10, <1>11, <1>12, <1>13, <1>14, <1>15, <1>16 DEF EngineInv, TypeOK

\* A retry that finds its leg booked changes nothing but the place of the pass.
LEMMA RetryAlreadyBookedKeeps ==
    ASSUME EngineInv, RetryAlreadyBooked PROVE EngineInv'
<1>1. /\ WorldFacts /\ StoreFacts(store) /\ StoreFacts(disk) /\ OpFacts
      /\ WorldTypeOK /\ StoreTypeOK /\ OpTypeOK
  BY WorldTyped, StoreTyped, OpTyped DEF EngineInv, TypeOK, StoreTypeOK
<1>2. /\ op.at = "retry"
      /\ op'.at = "retried"
      /\ op'.left = op.left
      /\ op.left # <<>>
      /\ HasBooked(Owed)
      /\ UNCHANGED journal
      /\ UNCHANGED <<booked, lot, gen>>
      /\ UNCHANGED <<store, disk, dirty>>
      /\ UNCHANGED <<market, scenario>>
  BY <1>1 DEF RetryAlreadyBooked, Retrying, book, env, OpFacts, InConfig, RetryOps, RetryStages
<1>6. WorldTypeOK'
  BY <1>1, <1>2 DEF WorldTypeOK
<1>7. StoreTypeOK'
  BY <1>1, <1>2 DEF StoreTypeOK
<1>8. OpTypeOK'
  <2>1. op' \in RetryOps
    BY <1>1, <1>2 DEF RetryAlreadyBooked, Retrying, OpFacts, InConfig, RetryOps, RetryStages
  <2> QED
    BY <2>1 DEF OpTypeOK
<1>9. WorldFacts' /\ StoreFacts(store') /\ StoreFacts(disk') /\ OpFacts'
  BY <1>6, <1>7, <1>8, TypedAfter
<1>o. Obligations' \subseteq Obligations
  BY <1>1, <1>2 DEF Obligations, Retried, RetryStages, ConfigStages
<1>10. Keyed'
  BY <1>2, <1>o
     DEF Keyed, HoldingsAreOwn, ObligationsAreOwn, WorkIsOwn, Owns, IsKeyed, InConfig, ConfigStages,
         EngineInv
<1>11. Durable'
  BY <1>2 DEF Durable, DurableStages, EngineInv
<1>12. Agreement'
  BY <1>2
     DEF Agreement, AwaitingAgrees, DecidingAgrees, CaughtUpAgrees, MovingAgrees, ActingAgrees,
         OpeningIsFlat, ExitingAgrees, Settled, Awaits, InConfig, ConfigStages, EngineInv
<1>13. Booked'
  BY <1>2 DEF Booked, EntriesStand, ExitsFollow, HasExit, IsOpen, EngineInv
<1>14. ExitsOwed'
  BY <1>2, <1>o
     DEF ExitsOwed, OneExitOwed, ExitsFindTheirLot, FlipsFindTheirLot, HasBooked, NoneOpen, IsOpen,
         EngineInv
<1>15. ResetIsWhole'
  BY <1>2 DEF ResetIsWhole, EngineInv
<1>16. Enabled'
  BY <1>2
     DEF Enabled, DiskEnables, MemoryEnables, PassIsEnabled, InConfig, ConfigStages, Retried,
         RetryStages, StoreFacts, EngineInv
<1> QED
  BY <1>6, <1>7, <1>8, <1>10, <1>11, <1>12, <1>13, <1>14, <1>15, <1>16 DEF EngineInv, TypeOK

\* A retry that fails leaves its leg owed.
LEMMA RetryFailsKeeps ==
    ASSUME EngineInv, RetryFails PROVE EngineInv'
<1>1. /\ WorldFacts /\ StoreFacts(store) /\ StoreFacts(disk) /\ OpFacts
      /\ WorldTypeOK /\ StoreTypeOK /\ OpTypeOK
  BY WorldTyped, StoreTyped, OpTyped DEF EngineInv, TypeOK, StoreTypeOK
<1>2. /\ op.at = "retry"
      /\ op'.at = "retry"
      /\ op.left # <<>>
      /\ op'.left = Tail(op.left)
      /\ UNCHANGED journal
      /\ UNCHANGED <<booked, lot, gen>>
      /\ UNCHANGED <<market, scenario>>
  BY <1>1 DEF RetryFails, Retrying, book, env, OpFacts, InConfig, RetryOps, RetryStages
<1> DEFINE new == store
<1>3. Save(new)
  BY DEF RetryFails
<1>4. /\ new \in Stores /\ new = store
  BY <1>3 DEF StoreTypeOK, EngineInv, TypeOK
<1> HIDE DEF new
<1>5. /\ store' \in {store, new} /\ disk' \in {disk, new} /\ dirty' \in BOOLEAN
      /\ store' = new => disk' = new \/ store' = store
      /\ ~dirty' => store' = new /\ disk' = new
  BY <1>3, SaveDoes
<1>6. WorldTypeOK'
  BY <1>1, <1>2 DEF WorldTypeOK
<1>7. StoreTypeOK'
  BY <1>1, <1>2, <1>4, <1>5 DEF StoreTypeOK
<1>8. OpTypeOK'
  <2>1. op' \in RetryOps
    <3>1. op \in RetryOps /\ Tail(op.left) \in Seq(Legs)
      BY <1>1, <1>2, HeadIsOwed DEF OpFacts, RetryStages
    <3>2. op' = [op EXCEPT !.left = Tail(op.left)]
      BY DEF RetryFails
    <3> QED
      BY <3>1, <3>2 DEF RetryOps
  <2> QED
    BY <2>1 DEF OpTypeOK
<1>9. WorldFacts' /\ StoreFacts(store') /\ StoreFacts(disk') /\ OpFacts'
  BY <1>6, <1>7, <1>8, TypedAfter
<1>o. Obligations' \subseteq Obligations
  BY <1>1, <1>2, <1>4, <1>5, HeadIsOwed DEF Obligations, Retried, RetryStages, ConfigStages
<1>10. Keyed'
  BY <1>2, <1>4, <1>5, <1>o
     DEF Keyed, HoldingsAreOwn, ObligationsAreOwn, WorkIsOwn, Owns, IsKeyed, InConfig, ConfigStages,
         EngineInv
<1>11. Durable'
  BY <1>2, <1>5 DEF Durable, DurableStages, EngineInv
<1>12. Agreement'
  BY <1>2
     DEF Agreement, AwaitingAgrees, DecidingAgrees, CaughtUpAgrees, MovingAgrees, ActingAgrees,
         OpeningIsFlat, ExitingAgrees, Settled, Awaits, InConfig, ConfigStages, EngineInv
<1>13. Booked'
  BY <1>2 DEF Booked, EntriesStand, ExitsFollow, HasExit, IsOpen, EngineInv
<1>14. ExitsOwed'
  BY <1>2, <1>o
     DEF ExitsOwed, OneExitOwed, ExitsFindTheirLot, FlipsFindTheirLot, HasBooked, NoneOpen, IsOpen,
         EngineInv
<1>15. ResetIsWhole'
  BY <1>2 DEF ResetIsWhole, EngineInv
<1>16. Enabled'
  BY <1>2, <1>4, <1>5, <1>9
     DEF Enabled, DiskEnables, MemoryEnables, PassIsEnabled, InConfig, ConfigStages, Retried,
         RetryStages, StoreFacts, OpFacts, EngineInv
<1> QED
  BY <1>6, <1>7, <1>8, <1>10, <1>11, <1>12, <1>13, <1>14, <1>15, <1>16 DEF EngineInv, TypeOK

\* A booked leg is cleared, or its clearing is not saved: nothing new is owed.
LEMMA RetryResolvesKeeps ==
    ASSUME EngineInv, RetryResolves PROVE EngineInv'
<1>1. /\ WorldFacts /\ StoreFacts(store) /\ StoreFacts(disk) /\ OpFacts
      /\ WorldTypeOK /\ StoreTypeOK /\ OpTypeOK
  BY WorldTyped, StoreTyped, OpTyped DEF EngineInv, TypeOK, StoreTypeOK
<1>2. /\ op.at = "retried"
      /\ op'.at = "retry"
      /\ op'.left = Tail(op.left)
      /\ UNCHANGED journal
      /\ UNCHANGED <<booked, lot, gen>>
      /\ UNCHANGED <<market, scenario>>
  BY <1>1 DEF RetryResolves, book, env, OpFacts, InConfig, RetryOps, RetryStages
<1> DEFINE new == Settling(Owed)
<1>3. Save(new)
  BY DEF RetryResolves
<1>4. /\ new \in Stores /\ new.held = store.held /\ new.enabled = store.enabled
      /\ OwedIn(new) \subseteq OwedIn(store)
  BY SettlingOwes DEF EngineInv, TypeOK, StoreTypeOK
<1> HIDE DEF new
<1>5. /\ store' \in {store, new} /\ disk' \in {disk, new} /\ dirty' \in BOOLEAN
      /\ store' = new => disk' = new \/ store' = store
      /\ ~dirty' => store' = new /\ disk' = new
  BY <1>3, SaveDoes
<1>6. WorldTypeOK'
  BY <1>1, <1>2 DEF WorldTypeOK
<1>7. StoreTypeOK'
  BY <1>1, <1>2, <1>4, <1>5 DEF StoreTypeOK
<1>8. OpTypeOK'
  <2>1. op' \in RetryOps
    <3>1. Tail(op.left) \in Seq(Legs)
      BY <1>1, <1>2, HeadIsOwed DEF RetryStages, EngineInv, Keyed, WorkIsOwn
    <3>2. op' = [at |-> "retry", left |-> Tail(op.left)]
      BY DEF RetryResolves
    <3> QED
      BY <3>1, <3>2 DEF RetryOps, RetryStages
  <2> QED
    BY <2>1 DEF OpTypeOK
<1>9. WorldFacts' /\ StoreFacts(store') /\ StoreFacts(disk') /\ OpFacts'
  BY <1>6, <1>7, <1>8, TypedAfter
<1>o. Obligations' \subseteq Obligations
  BY <1>1, <1>2, <1>4, <1>5, HeadIsOwed DEF Obligations, Retried, RetryStages, ConfigStages
<1>10. Keyed'
  BY <1>2, <1>4, <1>5, <1>o
     DEF Keyed, HoldingsAreOwn, ObligationsAreOwn, WorkIsOwn, Owns, IsKeyed, InConfig, ConfigStages,
         EngineInv
<1>11. Durable'
  BY <1>2, <1>5 DEF Durable, DurableStages, EngineInv
<1>12. Agreement'
  BY <1>2
     DEF Agreement, AwaitingAgrees, DecidingAgrees, CaughtUpAgrees, MovingAgrees, ActingAgrees,
         OpeningIsFlat, ExitingAgrees, Settled, Awaits, InConfig, ConfigStages, EngineInv
<1>13. Booked'
  BY <1>2 DEF Booked, EntriesStand, ExitsFollow, HasExit, IsOpen, EngineInv
<1>14. ExitsOwed'
  BY <1>2, <1>o
     DEF ExitsOwed, OneExitOwed, ExitsFindTheirLot, FlipsFindTheirLot, HasBooked, NoneOpen, IsOpen,
         EngineInv
<1>15. ResetIsWhole'
  BY <1>2 DEF ResetIsWhole, EngineInv
<1>16. Enabled'
  BY <1>2, <1>4, <1>5, <1>9
     DEF Enabled, DiskEnables, MemoryEnables, PassIsEnabled, InConfig, ConfigStages, Retried,
         RetryStages, StoreFacts, OpFacts, EngineInv
<1> QED
  BY <1>6, <1>7, <1>8, <1>10, <1>11, <1>12, <1>13, <1>14, <1>15, <1>16 DEF EngineInv, TypeOK

\* The verdicts of a pass are computed from the held trades and the book, after the retries: a config
\* found in order has its lot in agreement with what it holds.
LEMMA ReconcileKeeps ==
    ASSUME EngineInv, Reconcile PROVE EngineInv'
<1>1. /\ WorldFacts /\ StoreFacts(store) /\ StoreFacts(disk) /\ OpFacts
      /\ WorldTypeOK /\ StoreTypeOK /\ OpTypeOK
  BY WorldTyped, StoreTyped, OpTyped DEF EngineInv, TypeOK, StoreTypeOK
<1>2. /\ op.at = "retry"
      /\ op.left = <<>>
      /\ op'.at = "mark"
      /\ op'.left = store.enabled
      /\ \A k \in Keys : op'.bars[k] = 0
      /\ \A k \in Keys : op'.sync[k].ok => ~dirty /\ Agree(store, k)
      /\ UNCHANGED journal
      /\ UNCHANGED <<booked, lot, gen>>
      /\ UNCHANGED <<store, disk, dirty>>
      /\ UNCHANGED <<market, scenario>>
  <2>1. PICK checked \in BOOLEAN :
          op' = [at |-> "mark", left |-> store.enabled, sync |-> [k \in Keys |-> Verdict(store, dirty, k, checked)],
                 bars |-> [k \in Keys |-> 0]]
    BY DEF Reconcile, JournalAnswers
  <2>2. /\ op'.at = "mark" /\ op'.left = store.enabled /\ op'.bars = [k \in Keys |-> 0]
        /\ op'.sync = [k \in Keys |-> Verdict(store, dirty, k, checked)]
    BY <2>1
  <2>3. op.at = "retry" /\ op.left = <<>> /\ UNCHANGED <<journal, booked, lot, gen, store, disk, dirty, market, scenario>>
    BY DEF Reconcile, book, env
  <2>4. ASSUME NEW k \in Keys, op'.sync[k].ok PROVE ~dirty /\ Agree(store, k)
    <3>1. op'.sync[k] = Verdict(store, dirty, k, checked)
      BY <2>2
    <3>2. Verdict(store, dirty, k, checked).ok = (checked /\ ~dirty /\ Agree(store, k))
      BY DEF Verdict
    <3> QED
      BY <2>4, <3>1, <3>2
  <2> QED
    BY <2>2, <2>3, <2>4
<1>6. WorldTypeOK'
  BY <1>1, <1>2 DEF WorldTypeOK
<1>7. StoreTypeOK'
  BY <1>1, <1>2 DEF StoreTypeOK
<1>8. OpTypeOK'
  <2>1. op' \in MarkOps
    <3>1. PICK checked \in BOOLEAN :
            op' = [at |-> "mark", left |-> store.enabled, sync |-> [k \in Keys |-> Verdict(store, dirty, k, checked)],
                   bars |-> [k \in Keys |-> 0]]
      BY DEF Reconcile, JournalAnswers
    <3> DEFINE sync == [k \in Keys |-> Verdict(store, dirty, k, checked)]
               bars == [k \in Keys |-> 0]
    <3>2. sync \in [Keys -> Verdicts]
      BY VerdictTyped
    <3>3. bars \in [Keys -> Nat] /\ store.enabled \subseteq Keys
      BY <1>1 DEF StoreFacts
    <3>4. op' = [at |-> "mark", left |-> store.enabled, sync |-> sync, bars |-> bars]
      BY <3>1
    <3> HIDE DEF sync, bars
    <3> QED
      BY <3>2, <3>3, <3>4 DEF MarkOps
  <2> QED
    BY <2>1 DEF OpTypeOK
<1>9. WorldFacts' /\ StoreFacts(store') /\ StoreFacts(disk') /\ OpFacts'
  BY <1>6, <1>7, <1>8, TypedAfter
<1>o. Obligations' \subseteq Obligations
  BY <1>1, <1>2 DEF Obligations, Retried, RetryStages, ConfigStages
<1>10. Keyed'
  BY <1>2, <1>o
     DEF Keyed, HoldingsAreOwn, ObligationsAreOwn, WorkIsOwn, Owns, IsKeyed, InConfig, ConfigStages,
         EngineInv
<1>11. Durable'
  BY <1>2 DEF Durable, DurableStages, EngineInv
<1>12. Agreement'
  <2>1. AwaitingAgrees'
    BY <1>1, <1>2, OwedForNone DEF AwaitingAgrees, Agree, Settled
  <2>2. DecidingAgrees'
    BY <1>2 DEF Agreement, DecidingAgrees, EngineInv
  <2>3. CaughtUpAgrees'
    BY <1>2 DEF Agreement, CaughtUpAgrees, EngineInv
  <2>4. MovingAgrees'
    BY <1>2 DEF Agreement, MovingAgrees, EngineInv
  <2>5. ActingAgrees'
    BY <1>2 DEF Agreement, ActingAgrees, EngineInv
  <2>6. OpeningIsFlat'
    BY <1>2 DEF Agreement, OpeningIsFlat, EngineInv
  <2>7. ExitingAgrees'
    BY <1>2 DEF Agreement, ExitingAgrees, EngineInv
  <2> QED
    BY <2>1, <2>2, <2>3, <2>4, <2>5, <2>6, <2>7 DEF Agreement
<1>13. Booked'
  BY <1>2 DEF Booked, EntriesStand, ExitsFollow, HasExit, IsOpen, EngineInv
<1>14. ExitsOwed'
  BY <1>2, <1>o
     DEF ExitsOwed, OneExitOwed, ExitsFindTheirLot, FlipsFindTheirLot, HasBooked, NoneOpen, IsOpen,
         EngineInv
<1>15. ResetIsWhole'
  BY <1>2 DEF ResetIsWhole, EngineInv
<1>16. Enabled'
  BY <1>2
     DEF Enabled, DiskEnables, MemoryEnables, PassIsEnabled, InConfig, ConfigStages, Retried,
         RetryStages, StoreFacts, EngineInv
<1> QED
  BY <1>6, <1>7, <1>8, <1>10, <1>11, <1>12, <1>13, <1>14, <1>15, <1>16 DEF EngineInv, TypeOK

\* A mark looks at one enabled config.
LEMMA MarkBarKeeps ==
    ASSUME EngineInv, NEW k \in Keys, MarkBar(k) PROVE EngineInv'
<1>1. /\ WorldFacts /\ StoreFacts(store) /\ StoreFacts(disk) /\ OpFacts
      /\ WorldTypeOK /\ StoreTypeOK /\ OpTypeOK
  BY WorldTyped, StoreTyped, OpTyped DEF EngineInv, TypeOK, StoreTypeOK
<1>2. /\ op.at = "mark"
      /\ op'.at = "mark"
      /\ k \in op.left
      /\ op'.left \subseteq op.left
      /\ op'.sync = op.sync
      /\ \A j \in Keys : j # k => op'.bars[j] = op.bars[j]
      /\ UNCHANGED journal
      /\ UNCHANGED <<booked, lot, gen>>
      /\ UNCHANGED <<store, disk, dirty>>
      /\ UNCHANGED <<market, scenario>>
  BY <1>1 DEF MarkBar, book, env, OpFacts, InConfig, MarkOps
<1>6. WorldTypeOK'
  BY <1>1, <1>2 DEF WorldTypeOK
<1>7. StoreTypeOK'
  BY <1>1, <1>2 DEF StoreTypeOK
<1>8. OpTypeOK'
  <2>1. op' \in MarkOps
    <3>1. op \in MarkOps /\ k \in Keys /\ market[k].bar \in Nat
      BY <1>1, <1>2 DEF OpFacts, WorldTypeOK
    <3> DEFINE left == op.left \ {k}
               bars == [op.bars EXCEPT ![k] = IF market[k].bar > store.cursor[k] THEN market[k].bar ELSE 0]
    <3>2. left \subseteq Keys /\ bars \in [Keys -> Nat]
      BY <3>1 DEF MarkOps
    <3>3. op' = [op EXCEPT !.left = left, !.bars = bars]
      BY DEF MarkBar
    <3> HIDE DEF left, bars
    <3> QED
      BY <3>1, <3>2, <3>3 DEF MarkOps
  <2> QED
    BY <2>1 DEF OpTypeOK
<1>9. WorldFacts' /\ StoreFacts(store') /\ StoreFacts(disk') /\ OpFacts'
  BY <1>6, <1>7, <1>8, TypedAfter
<1>o. Obligations' \subseteq Obligations
  BY <1>1, <1>2 DEF Obligations, Retried, RetryStages, ConfigStages
<1>10. Keyed'
  BY <1>2, <1>o
     DEF Keyed, HoldingsAreOwn, ObligationsAreOwn, WorkIsOwn, Owns, IsKeyed, InConfig, ConfigStages,
         EngineInv
<1>11. Durable'
  BY <1>2 DEF Durable, DurableStages, EngineInv
<1>12. Agreement'
  BY <1>2
     DEF Agreement, AwaitingAgrees, DecidingAgrees, CaughtUpAgrees, MovingAgrees, ActingAgrees,
         OpeningIsFlat, ExitingAgrees, Settled, Awaits, EngineInv
<1>13. Booked'
  BY <1>2 DEF Booked, EntriesStand, ExitsFollow, HasExit, IsOpen, EngineInv
<1>14. ExitsOwed'
  BY <1>2, <1>o
     DEF ExitsOwed, OneExitOwed, ExitsFindTheirLot, FlipsFindTheirLot, HasBooked, NoneOpen, IsOpen,
         EngineInv
<1>15. ResetIsWhole'
  BY <1>2 DEF ResetIsWhole, EngineInv
<1>16. Enabled'
  BY <1>2
     DEF Enabled, DiskEnables, MemoryEnables, PassIsEnabled, InConfig, ConfigStages, Retried,
         RetryStages, StoreFacts, EngineInv
<1> QED
  BY <1>6, <1>7, <1>8, <1>10, <1>11, <1>12, <1>13, <1>14, <1>15, <1>16 DEF EngineInv, TypeOK

\* A mark that gets no bar drops the config from the pass.
LEMMA MarkUnavailableKeeps ==
    ASSUME EngineInv, NEW k \in Keys, MarkUnavailable(k) PROVE EngineInv'
<1>1. /\ WorldFacts /\ StoreFacts(store) /\ StoreFacts(disk) /\ OpFacts
      /\ WorldTypeOK /\ StoreTypeOK /\ OpTypeOK
  BY WorldTyped, StoreTyped, OpTyped DEF EngineInv, TypeOK, StoreTypeOK
<1>2. /\ op.at = "mark"
      /\ op'.at = "mark"
      /\ op'.left \subseteq op.left
      /\ op'.sync = op.sync
      /\ op'.bars = op.bars
      /\ UNCHANGED journal
      /\ UNCHANGED <<booked, lot, gen>>
      /\ UNCHANGED <<market, scenario>>
  BY <1>1 DEF MarkUnavailable, book, env, OpFacts, InConfig, MarkOps
<1> DEFINE new == store
<1>3. Save(new)
  BY DEF MarkUnavailable
<1>4. /\ new \in Stores /\ new = store
  BY <1>3 DEF StoreTypeOK, EngineInv, TypeOK
<1> HIDE DEF new
<1>5. /\ store' \in {store, new} /\ disk' \in {disk, new} /\ dirty' \in BOOLEAN
      /\ store' = new => disk' = new \/ store' = store
      /\ ~dirty' => store' = new /\ disk' = new
  BY <1>3, SaveDoes
<1>6. WorldTypeOK'
  BY <1>1, <1>2 DEF WorldTypeOK
<1>7. StoreTypeOK'
  BY <1>1, <1>2, <1>4, <1>5 DEF StoreTypeOK
<1>8. OpTypeOK'
  <2>1. op' \in MarkOps
    BY <1>1, <1>2 DEF MarkUnavailable, OpFacts, InConfig, MarkOps
  <2> QED
    BY <2>1 DEF OpTypeOK
<1>9. WorldFacts' /\ StoreFacts(store') /\ StoreFacts(disk') /\ OpFacts'
  BY <1>6, <1>7, <1>8, TypedAfter
<1>o. Obligations' \subseteq Obligations
  BY <1>1, <1>2, <1>4, <1>5 DEF Obligations, Retried, RetryStages, ConfigStages
<1>10. Keyed'
  BY <1>2, <1>4, <1>5, <1>o
     DEF Keyed, HoldingsAreOwn, ObligationsAreOwn, WorkIsOwn, Owns, IsKeyed, InConfig, ConfigStages,
         EngineInv
<1>11. Durable'
  BY <1>2, <1>5 DEF Durable, DurableStages, EngineInv
<1>12. Agreement'
  BY <1>2, <1>4, <1>5
     DEF Agreement, AwaitingAgrees, DecidingAgrees, CaughtUpAgrees, MovingAgrees, ActingAgrees,
         OpeningIsFlat, ExitingAgrees, Settled, Awaits, EngineInv
<1>13. Booked'
  BY <1>2 DEF Booked, EntriesStand, ExitsFollow, HasExit, IsOpen, EngineInv
<1>14. ExitsOwed'
  BY <1>2, <1>o
     DEF ExitsOwed, OneExitOwed, ExitsFindTheirLot, FlipsFindTheirLot, HasBooked, NoneOpen, IsOpen,
         EngineInv
<1>15. ResetIsWhole'
  BY <1>2 DEF ResetIsWhole, EngineInv
<1>16. Enabled'
  BY <1>2, <1>4, <1>5
     DEF Enabled, DiskEnables, MemoryEnables, PassIsEnabled, InConfig, ConfigStages, Retried,
         RetryStages, StoreFacts, EngineInv
<1> QED
  BY <1>6, <1>7, <1>8, <1>10, <1>11, <1>12, <1>13, <1>14, <1>15, <1>16 DEF EngineInv, TypeOK

\* The marks are over; the verdicts stand.
LEMMA EndMarksKeeps ==
    ASSUME EngineInv, EndMarks PROVE EngineInv'
<1>1. /\ WorldFacts /\ StoreFacts(store) /\ StoreFacts(disk) /\ OpFacts
      /\ WorldTypeOK /\ StoreTypeOK /\ OpTypeOK
  BY WorldTyped, StoreTyped, OpTyped DEF EngineInv, TypeOK, StoreTypeOK
<1>2. /\ op.at = "mark"
      /\ op'.at = "decide"
      /\ op'.sync = op.sync
      /\ op'.bars = op.bars
      /\ UNCHANGED journal
      /\ UNCHANGED <<booked, lot, gen>>
      /\ UNCHANGED <<store, disk, dirty>>
      /\ UNCHANGED <<market, scenario>>
  BY <1>1 DEF EndMarks, book, env, OpFacts, InConfig, DecideOps
<1>6. WorldTypeOK'
  BY <1>1, <1>2 DEF WorldTypeOK
<1>7. StoreTypeOK'
  BY <1>1, <1>2 DEF StoreTypeOK
<1>8. OpTypeOK'
  <2>1. op' \in DecideOps
    BY <1>1, <1>2 DEF EndMarks, OpFacts, InConfig, DecideOps
  <2> QED
    BY <2>1 DEF OpTypeOK
<1>9. WorldFacts' /\ StoreFacts(store') /\ StoreFacts(disk') /\ OpFacts'
  BY <1>6, <1>7, <1>8, TypedAfter
<1>o. Obligations' \subseteq Obligations
  BY <1>1, <1>2 DEF Obligations, Retried, RetryStages, ConfigStages
<1>10. Keyed'
  BY <1>2, <1>o
     DEF Keyed, HoldingsAreOwn, ObligationsAreOwn, WorkIsOwn, Owns, IsKeyed, InConfig, ConfigStages,
         EngineInv
<1>11. Durable'
  BY <1>2 DEF Durable, DurableStages, EngineInv
<1>12. Agreement'
  BY <1>2
     DEF Agreement, AwaitingAgrees, DecidingAgrees, CaughtUpAgrees, MovingAgrees, ActingAgrees,
         OpeningIsFlat, ExitingAgrees, Settled, Awaits, EngineInv
<1>13. Booked'
  BY <1>2 DEF Booked, EntriesStand, ExitsFollow, HasExit, IsOpen, EngineInv
<1>14. ExitsOwed'
  BY <1>2, <1>o
     DEF ExitsOwed, OneExitOwed, ExitsFindTheirLot, FlipsFindTheirLot, HasBooked, NoneOpen, IsOpen,
         EngineInv
<1>15. ResetIsWhole'
  BY <1>2 DEF ResetIsWhole, EngineInv
<1>16. Enabled'
  BY <1>2
     DEF Enabled, DiskEnables, MemoryEnables, PassIsEnabled, InConfig, ConfigStages, Retried,
         RetryStages, StoreFacts, EngineInv
<1> QED
  BY <1>6, <1>7, <1>8, <1>10, <1>11, <1>12, <1>13, <1>14, <1>15, <1>16 DEF EngineInv, TypeOK

\* A forgotten open trade is adopted: it is the config's own, and the book decides if it may act on it.
LEMMA AdoptKeeps ==
    ASSUME EngineInv, NEW k \in Keys, Adopt(k) PROVE EngineInv'
<1>1. /\ WorldFacts /\ StoreFacts(store) /\ StoreFacts(disk) /\ OpFacts
      /\ WorldTypeOK /\ StoreTypeOK /\ OpTypeOK
  BY WorldTyped, StoreTyped, OpTyped DEF EngineInv, TypeOK, StoreTypeOK
<1>2. /\ op.at = "decide"
      /\ op'.at = "predict"
      /\ op'.key = k
      /\ op.bars[k] > 0
      /\ op'.bars = op.bars
      /\ op'.sync = op.sync
      /\ store.held[k] = NoTrade
      /\ \E t \in Orphans(k) : Save(Holding(k, t)) /\ op'.st = IF dirty' THEN NoTrade ELSE t
      /\ UNCHANGED journal
      /\ UNCHANGED <<booked, lot, gen>>
      /\ UNCHANGED <<market, scenario>>
  BY <1>1 DEF Adopt, Deciding, book, env, OpFacts, InConfig, ConfigOps, ConfigStages
<1>p. PICK t \in Orphans(k) : Save(Holding(k, t)) /\ op'.st = IF dirty' THEN NoTrade ELSE t
  BY <1>2
<1> DEFINE new == Holding(k, t)
<1>3. Save(new)
  BY <1>p DEF Adopt
<1>4. /\ new \in Stores /\ OwedIn(new) = OwedIn(store) /\ new.enabled = store.enabled
      /\ \A j \in Keys : new.held[j] = IF j = k THEN t ELSE store.held[j]
  BY <1>1, <1>2, HoldingHolds, <1>p
     DEF EngineInv, TypeOK, StoreTypeOK, OpFacts, InConfig, ConfigStages, WorldFacts, NoTrade,
         Orphans
<1> HIDE DEF new
<1>5. /\ store' \in {store, new} /\ disk' \in {disk, new} /\ dirty' \in BOOLEAN
      /\ store' = new => disk' = new \/ store' = store
      /\ ~dirty' => store' = new /\ disk' = new
  BY <1>3, SaveDoes
<1>6. WorldTypeOK'
  BY <1>1, <1>2 DEF WorldTypeOK
<1>7. StoreTypeOK'
  BY <1>1, <1>2, <1>4, <1>5 DEF StoreTypeOK
<1>8. OpTypeOK'
  <2>1. op' \in ConfigOps
    <3>1. op \in DecideOps
      BY <1>1, <1>2 DEF OpFacts
    <3>2. PICK u \in Orphans(k) : op' = Deciding(k, IF dirty' THEN NoTrade ELSE u, "predict")
      BY DEF Adopt
    <3>3. (IF dirty' THEN NoTrade ELSE u) \in Nat
      BY <1>1, <3>2 DEF Orphans, WorldFacts, NoTrade
    <3> QED
      BY <3>1, <3>2, <3>3, DecidingType
  <2> QED
    BY <2>1 DEF OpTypeOK
<1>9. WorldFacts' /\ StoreFacts(store') /\ StoreFacts(disk') /\ OpFacts'
  BY <1>6, <1>7, <1>8, TypedAfter
<1>o. Obligations' \subseteq Obligations
  BY <1>1, <1>2, <1>4, <1>5 DEF Obligations, Retried, RetryStages, ConfigStages
<1>t. /\ t \in DOMAIN journal /\ journal[t].key = k /\ IsOpen(t) /\ t # NoTrade /\ t \in Nat
      /\ op'.st \in {NoTrade, t} /\ (~dirty' => op'.st = t)
  BY <1>1, <1>p DEF Orphans, WorldFacts
<1>10. Keyed'
  <2>1. HoldingsAreOwn'
    BY <1>2, <1>p, <1>4, <1>5, <1>t DEF Keyed, HoldingsAreOwn, Owns, IsKeyed, EngineInv
  <2>2. ObligationsAreOwn'
    BY <1>2, <1>p, <1>o, <1>t DEF Keyed, ObligationsAreOwn, Owns, IsKeyed, EngineInv
  <2>3. WorkIsOwn'
    BY <1>2, <1>p, <1>t DEF Keyed, WorkIsOwn, Owns, IsKeyed, EngineInv
  <2> QED
    BY <2>1, <2>2, <2>3 DEF Keyed
<1>11. Durable'
  BY <1>2, <1>p, <1>5, <1>t DEF Durable, DurableStages, EngineInv
<1>12. Agreement'
  <2>1. AwaitingAgrees'
    BY <1>2, <1>p, <1>4, <1>5, <1>t DEF Agreement, AwaitingAgrees, Settled, Awaits, EngineInv
  <2>2. DecidingAgrees'
    <3>1. ASSUME ~dirty', op.sync[k].ok PROVE Settled(k, t)' /\ CatchesUp'
      <4>1. Settled(k, lot[k]) /\ lot[k] = NoTrade
        BY <1>2, <3>1 DEF EngineInv, Agreement, AwaitingAgrees, Awaits, Settled
      <4>2. ~HasBooked(EntryLeg(t))
        BY <1>1, <1>t, <4>1
           DEF EngineInv, Booked, EntriesStand, ExitsFollow, HasBooked, EntryLeg, WorldFacts
      <4>3. ~HasBooked(EntryLeg(op.st))'
        BY <1>2, <1>t, <3>1, <4>2 DEF HasBooked, EntryLeg
      <4>4. CatchesUp'
        BY <1>2, <1>t, <3>1, <4>1, <4>3 DEF CatchesUp
      <4>5. Settled(k, t)'
        BY <1>4, <1>5, <3>1, <4>1 DEF Settled
      <4> QED
        BY <4>4, <4>5
    <3> QED
      BY <1>2, <1>t, <3>1 DEF DecidingAgrees
  <2>3. CaughtUpAgrees'
    BY <1>2, <1>p, <1>t DEF Agreement, CaughtUpAgrees, EngineInv
  <2>4. MovingAgrees'
    BY <1>2, <1>p, <1>t DEF Agreement, MovingAgrees, EngineInv
  <2>5. ActingAgrees'
    BY <1>2, <1>p, <1>t DEF Agreement, ActingAgrees, EngineInv
  <2>6. OpeningIsFlat'
    BY <1>2, <1>p, <1>t DEF Agreement, OpeningIsFlat, EngineInv
  <2>7. ExitingAgrees'
    BY <1>2, <1>p, <1>t DEF Agreement, ExitingAgrees, EngineInv
  <2> QED
    BY <2>1, <2>2, <2>3, <2>4, <2>5, <2>6, <2>7 DEF Agreement
<1>13. Booked'
  BY <1>2, <1>p, <1>t DEF Booked, EntriesStand, ExitsFollow, HasExit, IsOpen, EngineInv
<1>14. ExitsOwed'
  BY <1>2, <1>p, <1>o, <1>t
     DEF ExitsOwed, OneExitOwed, ExitsFindTheirLot, FlipsFindTheirLot, HasBooked, NoneOpen, IsOpen,
         EngineInv
<1>15. ResetIsWhole'
  BY <1>2, <1>p, <1>t DEF ResetIsWhole, EngineInv
<1>16. Enabled'
  BY <1>2, <1>p, <1>4, <1>5, <1>t
     DEF Enabled, DiskEnables, MemoryEnables, PassIsEnabled, Retried, RetryStages, StoreFacts,
         EngineInv
<1> QED
  BY <1>6, <1>7, <1>8, <1>10, <1>11, <1>12, <1>13, <1>14, <1>15, <1>16 DEF EngineInv, TypeOK

\* A config decides on what it holds.
LEMMA DecideAsIsKeeps ==
    ASSUME EngineInv, NEW k \in Keys, DecideAsIs(k) PROVE EngineInv'
<1>1. /\ WorldFacts /\ StoreFacts(store) /\ StoreFacts(disk) /\ OpFacts
      /\ WorldTypeOK /\ StoreTypeOK /\ OpTypeOK
  BY WorldTyped, StoreTyped, OpTyped DEF EngineInv, TypeOK, StoreTypeOK
<1>2. /\ op.at = "decide"
      /\ op'.at = "predict"
      /\ op'.key = k
      /\ op.bars[k] > 0
      /\ op'.bars = op.bars
      /\ op'.sync = op.sync
      /\ op'.st = store.held[k]
      /\ UNCHANGED journal
      /\ UNCHANGED <<booked, lot, gen>>
      /\ UNCHANGED <<store, disk, dirty>>
      /\ UNCHANGED <<market, scenario>>
  BY <1>1 DEF DecideAsIs, Deciding, book, env, OpFacts, InConfig, ConfigOps, ConfigStages
<1>6. WorldTypeOK'
  BY <1>1, <1>2 DEF WorldTypeOK
<1>7. StoreTypeOK'
  BY <1>1, <1>2 DEF StoreTypeOK
<1>8. OpTypeOK'
  <2>1. op' \in ConfigOps
    <3>1. op \in DecideOps /\ store.held[k] \in Nat
      BY <1>1, <1>2 DEF OpFacts, StoreFacts
    <3>2. op' = Deciding(k, store.held[k], "predict")
      BY DEF DecideAsIs
    <3> QED
      BY <3>1, <3>2, DecidingType
  <2> QED
    BY <2>1 DEF OpTypeOK
<1>9. WorldFacts' /\ StoreFacts(store') /\ StoreFacts(disk') /\ OpFacts'
  BY <1>6, <1>7, <1>8, TypedAfter
<1>o. Obligations' \subseteq Obligations
  BY <1>1, <1>2 DEF Obligations, Retried, RetryStages, ConfigStages
<1>10. Keyed'
  BY <1>2, <1>o DEF Keyed, HoldingsAreOwn, ObligationsAreOwn, WorkIsOwn, Owns, IsKeyed, EngineInv
<1>11. Durable'
  BY <1>2 DEF Durable, DurableStages, EngineInv
<1>12. Agreement'
  BY <1>2
     DEF Agreement, AwaitingAgrees, DecidingAgrees, CaughtUpAgrees, MovingAgrees, ActingAgrees,
         OpeningIsFlat, ExitingAgrees, Settled, Awaits, EngineInv
<1>13. Booked'
  BY <1>2 DEF Booked, EntriesStand, ExitsFollow, HasExit, IsOpen, EngineInv
<1>14. ExitsOwed'
  BY <1>2, <1>o
     DEF ExitsOwed, OneExitOwed, ExitsFindTheirLot, FlipsFindTheirLot, HasBooked, NoneOpen, IsOpen,
         EngineInv
<1>15. ResetIsWhole'
  BY <1>2 DEF ResetIsWhole, EngineInv
<1>16. Enabled'
  BY <1>2
     DEF Enabled, DiskEnables, MemoryEnables, PassIsEnabled, Retried, RetryStages, StoreFacts,
         EngineInv
<1> QED
  BY <1>6, <1>7, <1>8, <1>10, <1>11, <1>12, <1>13, <1>14, <1>15, <1>16 DEF EngineInv, TypeOK

\* A prediction sets the target, never the holdings.
LEMMA PredictKeeps ==
    ASSUME EngineInv, Predict PROVE EngineInv'
<1>1. /\ WorldFacts /\ StoreFacts(store) /\ StoreFacts(disk) /\ OpFacts
      /\ WorldTypeOK /\ StoreTypeOK /\ OpTypeOK
  BY WorldTyped, StoreTyped, OpTyped DEF EngineInv, TypeOK, StoreTypeOK
<1>2. /\ op.at = "predict"
      /\ op'.at \in {"record", "catchup"}
      /\ op'.at = "catchup" => ~dirty
      /\ op'.key = op.key /\ op'.bars = op.bars
      /\ op'.sync = op.sync
      /\ op'.st = op.st
      /\ UNCHANGED journal
      /\ UNCHANGED <<booked, lot, gen>>
      /\ UNCHANGED <<store, disk, dirty>>
      /\ UNCHANGED <<market, scenario>>
  BY <1>1 DEF Predict, Recorded, book, env, OpFacts, InConfig, ConfigOps, ConfigStages
<1>6. WorldTypeOK'
  BY <1>1, <1>2 DEF WorldTypeOK
<1>7. StoreTypeOK'
  BY <1>1, <1>2 DEF StoreTypeOK
<1>8. OpTypeOK'
  <2>1. op' \in ConfigOps
    <3>1. op \in ConfigOps /\ op.st \in Nat /\ op.key \in Keys
      BY <1>1, <1>2 DEF OpFacts, InConfig, ConfigStages
    <3>2. CASE \E adv \in BOOLEAN : Recorded(op.st, adv)
      BY <3>1, <3>2, RecordedType
    <3>3. CASE op' = [op EXCEPT !.at = "catchup", !.target = market[op.key].signal, !.on = market[op.key].bar]
      <4>1. market[op.key].signal \in Signals /\ market[op.key].bar \in Nat
        BY <1>1, <3>1 DEF WorldTypeOK
      <4> QED
        BY <3>1, <3>3, <4>1 DEF ConfigOps, ConfigStages
    <3> QED
      BY <3>2, <3>3 DEF Predict
  <2> QED
    BY <2>1 DEF OpTypeOK
<1>9. WorldFacts' /\ StoreFacts(store') /\ StoreFacts(disk') /\ OpFacts'
  BY <1>6, <1>7, <1>8, TypedAfter
<1>o. Obligations' \subseteq Obligations
  BY <1>1, <1>2 DEF Obligations, Retried, RetryStages, ConfigStages
<1>10. Keyed'
  BY <1>2, <1>o
     DEF Keyed, HoldingsAreOwn, ObligationsAreOwn, WorkIsOwn, Owns, IsKeyed, InConfig, ConfigStages,
         EngineInv
<1>11. Durable'
  BY <1>2 DEF Durable, DurableStages, EngineInv
<1>12. Agreement'
  BY <1>2
     DEF Agreement, AwaitingAgrees, DecidingAgrees, CaughtUpAgrees, MovingAgrees, ActingAgrees,
         OpeningIsFlat, ExitingAgrees, Settled, Awaits, InConfig, ConfigStages, CatchesUp,
         HasBooked, EntryLeg, EngineInv
<1>13. Booked'
  BY <1>2 DEF Booked, EntriesStand, ExitsFollow, HasExit, IsOpen, EngineInv
<1>14. ExitsOwed'
  BY <1>2, <1>o
     DEF ExitsOwed, OneExitOwed, ExitsFindTheirLot, FlipsFindTheirLot, HasBooked, NoneOpen, IsOpen,
         EngineInv
<1>15. ResetIsWhole'
  BY <1>2 DEF ResetIsWhole, EngineInv
<1>16. Enabled'
  BY <1>2
     DEF Enabled, DiskEnables, MemoryEnables, PassIsEnabled, InConfig, ConfigStages, Retried,
         RetryStages, StoreFacts, EngineInv
<1> QED
  BY <1>6, <1>7, <1>8, <1>10, <1>11, <1>12, <1>13, <1>14, <1>15, <1>16 DEF EngineInv, TypeOK

\* The entry that was never booked is booked late, on a flat book, for the trade that is held.
LEMMA CatchUpBooksKeeps ==
    ASSUME EngineInv, CatchUpBooks PROVE EngineInv'
<1>1. /\ WorldFacts /\ StoreFacts(store) /\ StoreFacts(disk) /\ OpFacts
      /\ WorldTypeOK /\ StoreTypeOK /\ OpTypeOK
  BY WorldTyped, StoreTyped, OpTyped DEF EngineInv, TypeOK, StoreTypeOK
<1>2. /\ op.at = "catchup"
      /\ op'.at = "caughtup"
      /\ op'.key = op.key /\ op'.bars = op.bars
      /\ op'.sync = op.sync
      /\ op'.st = op.st
      /\ CatchesUp
      /\ BookLeg(EntryLeg(op.st))
      /\ UNCHANGED journal
      /\ UNCHANGED <<store, disk, dirty>>
      /\ UNCHANGED <<market, scenario>>
  BY <1>1 DEF CatchUpBooks, GoTo, book, env, OpFacts, InConfig, ConfigOps, ConfigStages
<1> DEFINE p == EntryLeg(op.st)
<1>b. /\ p.key \in Keys /\ p.key \in store.enabled \cap disk.enabled /\ IsKeyed(p) /\ p.kind \in Kinds
      /\ p.trade \in DOMAIN journal /\ (p \in Obligations \/ p.kind \in Book!OpenKinds)
      /\ gen' = gen /\ lot' \in [Keys -> Nat] /\ booked' \subseteq (DOMAIN journal) \X Kinds
      /\ \A k \in Keys : k # p.key => lot'[k] = lot[k]
      /\ Owns(p.key, lot'[p.key]) /\ booked \subseteq booked' /\ Booked'
      /\ \/ /\ p.kind \in Book!OpenKinds /\ lot[p.key] = NoTrade /\ lot'[p.key] = p.trade
            /\ booked' = booked \cup {<<p.trade, p.kind>>}
         \/ /\ p.kind \in Book!CloseKinds /\ lot[p.key] # NoTrade /\ lot'[p.key] = NoTrade
            /\ booked' = booked \cup {<<lot[p.key], p.kind>>}
  <2>1. /\ p.key \in Keys /\ p.key \in store.enabled \cap disk.enabled /\ IsKeyed(p) /\ p.kind \in Kinds
        /\ p.trade \in DOMAIN journal /\ (p \in Obligations \/ p.kind \in Book!OpenKinds)
    <3>1. op.key \in Keys /\ op.st # NoTrade /\ Owns(op.key, op.st) /\ op.key \in store.enabled /\ disk = store
      BY <1>1, <1>2
         DEF EngineInv, Keyed, WorkIsOwn, InConfig, ConfigStages, OpFacts, CatchesUp, Enabled,
             PassIsEnabled,
         Durable, DurableStages
    <3> QED
      BY <1>1, <3>1 DEF EntryLeg, IsKeyed, Owns, WorldFacts, Kinds
  <2>2. p.kind \in Book!CloseKinds => ~IsOpen(lot[p.key])
    BY <1>1, <2>1 DEF EntryLeg, IsKeyed, WorldFacts, Book!OpenKinds, Book!CloseKinds
  <2>3. BookLeg(p)
    BY <1>2
  <2> HIDE DEF p
  <2> QED
    BY <1>1, <1>2, <2>1, <2>2, <2>3, LegKeepsBook
<1>k. p = EntryLeg(op.st) /\ p.key = op.key /\ p.trade = op.st /\ p.kind \in Book!OpenKinds
  BY <1>1, <1>2, <1>b
     DEF EntryLeg, WorldFacts, EngineInv, Keyed, WorkIsOwn, Owns, InConfig, ConfigStages, CatchesUp
<1> HIDE DEF p
<1>6. WorldTypeOK'
  BY <1>1, <1>2, <1>b DEF WorldTypeOK
<1>7. StoreTypeOK'
  BY <1>1, <1>2 DEF StoreTypeOK
<1>8. OpTypeOK'
  <2>1. op' \in ConfigOps
    BY <1>1, <1>2 DEF CatchUpBooks, GoTo, OpFacts, InConfig, ConfigOps, ConfigStages
  <2> QED
    BY <2>1 DEF OpTypeOK
<1>9. WorldFacts' /\ StoreFacts(store') /\ StoreFacts(disk') /\ OpFacts'
  BY <1>6, <1>7, <1>8, TypedAfter
<1>o. Obligations' \subseteq Obligations
  BY <1>1, <1>2 DEF Obligations, Retried, RetryStages, ConfigStages
<1>10. Keyed'
  <2>1. HoldingsAreOwn'
    BY <1>2, <1>b, <1>k DEF Keyed, HoldingsAreOwn, Owns, IsKeyed, EngineInv
  <2>2. ObligationsAreOwn'
    BY <1>2, <1>b, <1>o, <1>k DEF Keyed, ObligationsAreOwn, Owns, IsKeyed, EngineInv
  <2>3. WorkIsOwn'
    BY ZenonT(30), <1>2, <1>b, <1>9, <1>k DEF Keyed, WorkIsOwn, Owns, IsKeyed, WorldFacts, EngineInv
  <2> QED
    BY <2>1, <2>2, <2>3 DEF Keyed
<1>11. Durable'
  BY <1>2, <1>b, <1>k DEF Durable, DurableStages, EngineInv
<1>12. Agreement'
  <2>1. AwaitingAgrees'
    BY <1>2, <1>b, <1>k
       DEF Agreement, AwaitingAgrees, Settled, Awaits, InConfig, ConfigStages, EngineInv
  <2>2. DecidingAgrees'
    BY <1>2, <1>b, <1>k DEF Agreement, DecidingAgrees, EngineInv
  <2>3. CaughtUpAgrees'
    BY <1>2, <1>b, <1>k DEF Agreement, CaughtUpAgrees, CatchesUp, EntryLeg, EngineInv
  <2>4. MovingAgrees'
    BY <1>2, <1>b, <1>k DEF Agreement, MovingAgrees, EngineInv
  <2>5. ActingAgrees'
    BY <1>2, <1>b, <1>k DEF Agreement, ActingAgrees, EngineInv
  <2>6. OpeningIsFlat'
    BY <1>2, <1>b, <1>k DEF Agreement, OpeningIsFlat, EngineInv
  <2>7. ExitingAgrees'
    BY <1>2, <1>b, <1>k DEF Agreement, ExitingAgrees, EngineInv
  <2> QED
    BY <2>1, <2>2, <2>3, <2>4, <2>5, <2>6, <2>7 DEF Agreement
<1>13. Booked'
  <2>1. EntriesStand'
    BY <1>2, <1>b, <1>k DEF Booked, EntriesStand, EngineInv
  <2>2. ExitsFollow'
    BY <1>2, <1>b, <1>k DEF Booked, ExitsFollow, EngineInv
  <2> QED
    BY <2>1, <2>2 DEF Booked
<1>14. ExitsOwed'
  <2>1. OneExitOwed'
    BY <1>o DEF EngineInv, ExitsOwed, OneExitOwed
  <2>2. ExitsFindTheirLot'
    <3>1. ASSUME NEW q \in Obligations', q.kind \in Book!CloseKinds
          PROVE  ~IsOpen(q.trade)' /\ (HasBooked(q)' \/ lot'[q.key] = q.trade \/ NoneOpen(q.key)')
      <4>1. /\ q \in Obligations /\ ~IsOpen(q.trade) /\ q.key \in Keys /\ q.trade \in DOMAIN journal
            /\ HasBooked(q) \/ lot[q.key] = q.trade \/ NoneOpen(q.key)
        BY <1>1, <1>o, <3>1
           DEF EngineInv, ExitsOwed, ExitsFindTheirLot, Keyed, ObligationsAreOwn, IsKeyed, WorldFacts
      <4>2. (HasBooked(q) => HasBooked(q)') /\ (NoneOpen(q.key) => NoneOpen(q.key)') /\ ~IsOpen(q.trade)'
        BY <1>2, <1>b, <4>1 DEF HasBooked, NoneOpen, IsOpen
      <4>3. CASE lot[q.key] = q.trade /\ q.key = p.key
        BY <1>1, <1>b, <1>k, <4>1, <4>3 DEF WorldFacts, Book!OpenKinds, Book!CloseKinds
      <4> QED
        BY <1>b, <4>1, <4>2, <4>3
    <3> QED
      BY <3>1 DEF ExitsFindTheirLot
  <2>3. FlipsFindTheirLot'
    BY <1>2, <1>b, <1>k DEF ExitsOwed, FlipsFindTheirLot, EngineInv
  <2> QED
    BY <2>1, <2>2, <2>3 DEF ExitsOwed
<1>15. ResetIsWhole'
  BY <1>2, <1>b, <1>k DEF ResetIsWhole, EngineInv
<1>16. Enabled'
  BY <1>2, <1>b, <1>k
     DEF Enabled, DiskEnables, MemoryEnables, PassIsEnabled, InConfig, ConfigStages, Retried,
         RetryStages, StoreFacts, EngineInv
<1> QED
  BY <1>6, <1>7, <1>8, <1>10, <1>11, <1>12, <1>13, <1>14, <1>15, <1>16 DEF EngineInv, TypeOK

\* After a late entry the lot is the held trade's, and the config agrees.
LEMMA CaughtUpKeeps ==
    ASSUME EngineInv, CaughtUp PROVE EngineInv'
<1>1. /\ WorldFacts /\ StoreFacts(store) /\ StoreFacts(disk) /\ OpFacts
      /\ WorldTypeOK /\ StoreTypeOK /\ OpTypeOK
  BY WorldTyped, StoreTyped, OpTyped DEF EngineInv, TypeOK, StoreTypeOK
<1>2. /\ op.at = "caughtup"
      /\ op'.at = "move"
      /\ op'.key = op.key /\ op'.bars = op.bars
      /\ op'.st = op.st
      /\ \A k \in Keys : k # op.key => op'.sync[k] = op.sync[k]
      /\ op'.sync[op.key].ok => ~dirty' /\ Agree(store', op.key)
      /\ UNCHANGED journal
      /\ UNCHANGED <<booked, lot, gen>>
      /\ UNCHANGED <<market, scenario>>
  <2>1. PICK checked \in BOOLEAN :
          op' = [op EXCEPT !.at = "move", !.sync[op.key] = Verdict(store', dirty', op.key, checked)]
    BY DEF CaughtUp, JournalAnswers
  <2>2. /\ op.at = "caughtup" /\ op \in ConfigOps /\ op.sync \in [Keys -> Verdicts] /\ op.key \in Keys
        /\ UNCHANGED <<journal, booked, lot, gen, market, scenario>>
    BY <1>1 DEF CaughtUp, book, env, OpFacts, InConfig, ConfigStages
  <2> DEFINE new == [op.sync EXCEPT ![op.key] = Verdict(store', dirty', op.key, checked)]
  <2>3. op' = [op EXCEPT !.at = "move", !.sync = new]
    BY <2>1
  <2>4. (\A k \in Keys : k # op.key => new[k] = op.sync[k]) /\ (new[op.key].ok => ~dirty' /\ Agree(store', op.key))
    BY <2>2 DEF Verdict
  <2> HIDE DEF new
  <2>5. op'.at = "move" /\ op'.sync = new /\ op'.key = op.key /\ op'.bars = op.bars /\ op'.st = op.st
    BY <2>2, <2>3 DEF ConfigOps
  <2> QED
    BY <2>2, <2>4, <2>5
<1> DEFINE new == Settling(EntryLeg(op.st))
<1>3. Save(new)
  BY DEF CaughtUp
<1>4. /\ new \in Stores /\ new.held = store.held /\ new.enabled = store.enabled
      /\ OwedIn(new) \subseteq OwedIn(store)
  BY SettlingOwes DEF EngineInv, TypeOK, StoreTypeOK
<1> HIDE DEF new
<1>5. /\ store' \in {store, new} /\ disk' \in {disk, new} /\ dirty' \in BOOLEAN
      /\ store' = new => disk' = new \/ store' = store
      /\ ~dirty' => store' = new /\ disk' = new
  BY <1>3, SaveDoes
<1>6. WorldTypeOK'
  BY <1>1, <1>2 DEF WorldTypeOK
<1>7. StoreTypeOK'
  BY <1>1, <1>2, <1>4, <1>5 DEF StoreTypeOK
<1>8. OpTypeOK'
  <2>1. op' \in ConfigOps
    <3>1. op \in ConfigOps
      BY <1>1, <1>2 DEF OpFacts, InConfig, ConfigStages
    <3>2. PICK checked \in BOOLEAN :
            op' = [op EXCEPT !.at = "move", !.sync[op.key] = Verdict(store', dirty', op.key, checked)]
      BY DEF CaughtUp, JournalAnswers
    <3>3. Verdict(store', dirty', op.key, checked) \in Verdicts
      BY VerdictTyped
    <3> HIDE DEF Verdict
    <3> QED
      BY <3>1, <3>2, <3>3, VerdictType DEF ConfigStages
  <2> QED
    BY <2>1 DEF OpTypeOK
<1>9. WorldFacts' /\ StoreFacts(store') /\ StoreFacts(disk') /\ OpFacts'
  BY <1>6, <1>7, <1>8, TypedAfter
<1>o. Obligations' \subseteq Obligations
  BY <1>1, <1>2, <1>4, <1>5 DEF Obligations, Retried, RetryStages, ConfigStages
<1>10. Keyed'
  BY <1>2, <1>4, <1>5, <1>o
     DEF Keyed, HoldingsAreOwn, ObligationsAreOwn, WorkIsOwn, Owns, IsKeyed, InConfig, ConfigStages,
         EngineInv
<1>11. Durable'
  BY <1>2, <1>5 DEF Durable, DurableStages, EngineInv
<1>12. Agreement'
  <2>1. AwaitingAgrees'
    BY <1>2, <1>4, <1>5
       DEF Agreement, AwaitingAgrees, Settled, Awaits, InConfig, ConfigStages, EngineInv
  <2>2. DecidingAgrees'
    BY <1>2 DEF Agreement, DecidingAgrees, EngineInv
  <2>3. CaughtUpAgrees'
    BY <1>2 DEF Agreement, CaughtUpAgrees, EngineInv
  <2>4. MovingAgrees'
    BY <1>1, <1>2, OwedForNone DEF MovingAgrees, Agree, Settled, EngineInv, Agreement, CaughtUpAgrees
  <2>5. ActingAgrees'
    BY <1>2 DEF Agreement, ActingAgrees, EngineInv
  <2>6. OpeningIsFlat'
    BY <1>2 DEF Agreement, OpeningIsFlat, EngineInv
  <2>7. ExitingAgrees'
    BY <1>2 DEF Agreement, ExitingAgrees, EngineInv
  <2> QED
    BY <2>1, <2>2, <2>3, <2>4, <2>5, <2>6, <2>7 DEF Agreement
<1>13. Booked'
  BY <1>2 DEF Booked, EntriesStand, ExitsFollow, HasExit, IsOpen, EngineInv
<1>14. ExitsOwed'
  BY <1>2, <1>o
     DEF ExitsOwed, OneExitOwed, ExitsFindTheirLot, FlipsFindTheirLot, HasBooked, NoneOpen, IsOpen,
         EngineInv
<1>15. ResetIsWhole'
  BY <1>2 DEF ResetIsWhole, EngineInv
<1>16. Enabled'
  BY <1>2, <1>4, <1>5
     DEF Enabled, DiskEnables, MemoryEnables, PassIsEnabled, InConfig, ConfigStages, Retried,
         RetryStages, StoreFacts, EngineInv
<1> QED
  BY <1>6, <1>7, <1>8, <1>10, <1>11, <1>12, <1>13, <1>14, <1>15, <1>16 DEF EngineInv, TypeOK

\* A late entry that is refused withdraws the config's agreement, unless it was booked unknowingly.
LEMMA CatchUpRefusedKeeps ==
    ASSUME EngineInv, CatchUpRefused PROVE EngineInv'
<1>1. /\ WorldFacts /\ StoreFacts(store) /\ StoreFacts(disk) /\ OpFacts
      /\ WorldTypeOK /\ StoreTypeOK /\ OpTypeOK
  BY WorldTyped, StoreTyped, OpTyped DEF EngineInv, TypeOK, StoreTypeOK
<1>2. /\ op.at = "catchup"
      /\ op'.at = "move"
      /\ op'.key = op.key /\ op'.bars = op.bars
      /\ op'.st = op.st
      /\ CatchesUp
      /\ \A k \in Keys : k # op.key => op'.sync[k] = op.sync[k]
      /\ op'.sync[op.key].ok => dirty' /\ op.sync[op.key].ok
      /\ UNCHANGED journal
      /\ UNCHANGED <<booked, lot, gen>>
      /\ UNCHANGED <<market, scenario>>
  <2>1. /\ op' = [op EXCEPT !.at = "move", !.sync[op.key].ok = @ /\ dirty']
        /\ op.at = "catchup" /\ CatchesUp
        /\ UNCHANGED <<journal, booked, lot, gen, market, scenario>>
    <3>1. EntryLeg(op.st).key = op.key
      BY <1>1
         DEF CatchUpRefused, CatchesUp, EntryLeg, EngineInv, Keyed, WorkIsOwn, Owns, InConfig,
             ConfigStages
    <3>2. op' = [op EXCEPT !.at = "move", !.sync[EntryLeg(op.st).key].ok = @ /\ dirty']
      BY DEF CatchUpRefused, Owe
    <3>3. op.at = "catchup" /\ CatchesUp /\ UNCHANGED <<journal, booked, lot, gen, market, scenario>>
      BY DEF CatchUpRefused, book, env
    <3> QED
      BY <3>1, <3>2, <3>3
  <2>2. op \in ConfigOps /\ op.sync \in [Keys -> Verdicts] /\ op.key \in Keys /\ op.sync[op.key] \in Verdicts
    BY <1>1, <2>1 DEF OpFacts, InConfig, ConfigStages
  <2> DEFINE v == [op.sync[op.key] EXCEPT !.ok = @ /\ dirty']
             new == [op.sync EXCEPT ![op.key] = v]
  <2>3. op' = [op EXCEPT !.at = "move", !.sync = new]
    BY <2>1
  <2>4. (\A k \in Keys : k # op.key => new[k] = op.sync[k]) /\ new[op.key] = v
    BY <2>2
  <2>5. v.ok => dirty' /\ op.sync[op.key].ok
    <3>1. v = [ok |-> (op.sync[op.key].ok /\ dirty'), checked |-> op.sync[op.key].checked]
      BY <2>2 DEF Verdicts
    <3> QED
      BY <3>1
  <2> HIDE DEF new, v
  <2>6. op'.at = "move" /\ op'.sync = new /\ op'.key = op.key /\ op'.bars = op.bars /\ op'.st = op.st
    BY <2>2, <2>3 DEF ConfigOps
  <2> QED
    BY <2>1, <2>2, <2>4, <2>5, <2>6
<1> DEFINE p == EntryLeg(op.st)
<1>p. /\ p = EntryLeg(op.st) /\ p \in Legs /\ IsKeyed(p) /\ p.key = op.key /\ p.trade = op.st
      /\ p.trade # NoTrade
      /\ p.kind \in Book!OpenKinds /\ p.kind \notin Book!CloseKinds /\ op.key \in Keys
      /\ op.key \in store.enabled /\ disk = store
  <2>1. op.key \in Keys /\ op.st # NoTrade /\ Owns(op.key, op.st) /\ op.key \in store.enabled /\ disk = store
    BY <1>1, <1>2
       DEF EngineInv, Keyed, WorkIsOwn, InConfig, ConfigStages, OpFacts, CatchesUp, Enabled,
           PassIsEnabled,
       Durable, DurableStages
  <2>2. p \in Legs /\ p.key = op.key /\ p.trade = op.st /\ p.kind \in Book!OpenKinds
    BY <1>1, <2>1 DEF EntryLeg, Owns, WorldFacts, Kinds, Legs
  <2>3. p.kind \notin Book!CloseKinds
    BY <2>2 DEF Book!OpenKinds, Book!CloseKinds
  <2> HIDE DEF p
  <2> QED
    BY <2>1, <2>2, <2>3 DEF IsKeyed, Owns, p
<1> HIDE DEF p
<1> DEFINE new == Owing(p)
<1>3. Save(new)
  BY <1>p DEF CatchUpRefused, Owe
<1>4. /\ new \in Stores /\ new.held = store.held /\ new.enabled = store.enabled
      /\ OwedIn(new) = OwedIn(store) \cup {p}
  BY <1>1, <1>p, OwingOwes DEF StoreTypeOK
<1> HIDE DEF new
<1>5. /\ store' \in {store, new} /\ disk' \in {disk, new} /\ dirty' \in BOOLEAN
      /\ store' = new => disk' = new \/ store' = store
      /\ ~dirty' => store' = new /\ disk' = new
  BY <1>3, SaveDoes
<1>6. WorldTypeOK'
  BY <1>1, <1>2 DEF WorldTypeOK
<1>7. StoreTypeOK'
  BY <1>1, <1>2, <1>4, <1>5 DEF StoreTypeOK
<1>8. OpTypeOK'
  <2>1. op' \in ConfigOps
    <3>1. op \in ConfigOps /\ op.sync[op.key] \in Verdicts /\ p.key = op.key
      BY <1>1, <1>2, <1>p DEF OpFacts, InConfig, ConfigStages
    <3> DEFINE v == [op.sync[op.key] EXCEPT !.ok = @ /\ dirty']
    <3>2. v = [ok |-> op.sync[op.key].ok /\ dirty', checked |-> op.sync[op.key].checked]
      BY <3>1 DEF Verdicts
    <3>3. v \in Verdicts
      BY <3>1, <3>2 DEF Verdicts
    <3>4. op' = [op EXCEPT !.at = "move", !.sync[p.key] = [op.sync[p.key] EXCEPT !.ok = @ /\ dirty']]
      BY <1>p DEF CatchUpRefused, Owe
    <3>5. op' = [op EXCEPT !.at = "move", !.sync[op.key] = v]
      BY <3>1, <3>4
    <3> HIDE DEF v
    <3> QED
      BY <3>1, <3>3, <3>5, VerdictType DEF ConfigStages
  <2> QED
    BY <2>1 DEF OpTypeOK
<1>9. WorldFacts' /\ StoreFacts(store') /\ StoreFacts(disk') /\ OpFacts'
  BY <1>6, <1>7, <1>8, TypedAfter
<1>o. Obligations' \subseteq Obligations \cup {p}
  BY <1>2, <1>4, <1>5 DEF Obligations, Retried, RetryStages, ConfigStages
<1>10. Keyed'
  BY <1>2, <1>p, <1>4, <1>5, <1>o
     DEF Keyed, HoldingsAreOwn, ObligationsAreOwn, WorkIsOwn, Owns, IsKeyed, InConfig, ConfigStages,
         EngineInv
<1>11. Durable'
  BY <1>2, <1>p, <1>5 DEF Durable, DurableStages, EngineInv
<1>12. Agreement'
  <2>1. AwaitingAgrees'
    BY <1>2, <1>p, <1>4, <1>5
       DEF Agreement, AwaitingAgrees, Settled, Awaits, InConfig, ConfigStages, EngineInv
  <2>2. DecidingAgrees'
    BY <1>2 DEF DecidingAgrees
  <2>3. CaughtUpAgrees'
    BY <1>2, <1>p DEF Agreement, CaughtUpAgrees, EngineInv
  <2>4. MovingAgrees'
    BY <1>2, <1>p DEF Agreement, MovingAgrees, EngineInv
  <2>5. ActingAgrees'
    BY <1>2, <1>p DEF Agreement, ActingAgrees, EngineInv
  <2>6. OpeningIsFlat'
    BY <1>2, <1>p DEF Agreement, OpeningIsFlat, EngineInv
  <2>7. ExitingAgrees'
    BY <1>2, <1>p DEF Agreement, ExitingAgrees, EngineInv
  <2> QED
    BY <2>1, <2>2, <2>3, <2>4, <2>5, <2>6, <2>7 DEF Agreement
<1>13. Booked'
  BY <1>2, <1>p DEF Booked, EntriesStand, ExitsFollow, HasExit, IsOpen, EngineInv
<1>14. ExitsOwed'
  BY <1>2, <1>p, <1>o
     DEF ExitsOwed, OneExitOwed, ExitsFindTheirLot, FlipsFindTheirLot, HasBooked, NoneOpen, IsOpen,
         EngineInv
<1>15. ResetIsWhole'
  BY <1>2, <1>p DEF ResetIsWhole, EngineInv
<1>16. Enabled'
  BY <1>2, <1>p, <1>4, <1>5
     DEF Enabled, DiskEnables, MemoryEnables, PassIsEnabled, InConfig, ConfigStages, Retried,
         RetryStages, StoreFacts, EngineInv
<1> QED
  BY <1>6, <1>7, <1>8, <1>10, <1>11, <1>12, <1>13, <1>14, <1>15, <1>16 DEF EngineInv, TypeOK

\* A config that agrees has no entry to catch up.
LEMMA NothingToCatchUpKeeps ==
    ASSUME EngineInv, NothingToCatchUp PROVE EngineInv'
<1>1. /\ WorldFacts /\ StoreFacts(store) /\ StoreFacts(disk) /\ OpFacts
      /\ WorldTypeOK /\ StoreTypeOK /\ OpTypeOK
  BY WorldTyped, StoreTyped, OpTyped DEF EngineInv, TypeOK, StoreTypeOK
<1>2. /\ op.at = "catchup"
      /\ op'.at = "move"
      /\ op'.key = op.key /\ op'.bars = op.bars
      /\ op'.sync = op.sync
      /\ op'.st = op.st
      /\ ~CatchesUp
      /\ UNCHANGED journal
      /\ UNCHANGED <<booked, lot, gen>>
      /\ UNCHANGED <<store, disk, dirty>>
      /\ UNCHANGED <<market, scenario>>
  BY <1>1 DEF NothingToCatchUp, GoTo, book, env, OpFacts, InConfig, ConfigOps, ConfigStages
<1>6. WorldTypeOK'
  BY <1>1, <1>2 DEF WorldTypeOK
<1>7. StoreTypeOK'
  BY <1>1, <1>2 DEF StoreTypeOK
<1>8. OpTypeOK'
  <2>1. op' \in ConfigOps
    BY <1>1, <1>2 DEF NothingToCatchUp, GoTo, OpFacts, InConfig, ConfigOps, ConfigStages
  <2> QED
    BY <2>1 DEF OpTypeOK
<1>9. WorldFacts' /\ StoreFacts(store') /\ StoreFacts(disk') /\ OpFacts'
  BY <1>6, <1>7, <1>8, TypedAfter
<1>o. Obligations' \subseteq Obligations
  BY <1>1, <1>2 DEF Obligations, Retried, RetryStages, ConfigStages
<1>10. Keyed'
  BY <1>2, <1>o
     DEF Keyed, HoldingsAreOwn, ObligationsAreOwn, WorkIsOwn, Owns, IsKeyed, InConfig, ConfigStages,
         EngineInv
<1>11. Durable'
  BY <1>2 DEF Durable, DurableStages, EngineInv
<1>12. Agreement'
  BY <1>2
     DEF Agreement, AwaitingAgrees, DecidingAgrees, CaughtUpAgrees, MovingAgrees, ActingAgrees,
         OpeningIsFlat, ExitingAgrees, Settled, Awaits, InConfig, ConfigStages, EngineInv
<1>13. Booked'
  BY <1>2 DEF Booked, EntriesStand, ExitsFollow, HasExit, IsOpen, EngineInv
<1>14. ExitsOwed'
  BY <1>2, <1>o
     DEF ExitsOwed, OneExitOwed, ExitsFindTheirLot, FlipsFindTheirLot, HasBooked, NoneOpen, IsOpen,
         EngineInv
<1>15. ResetIsWhole'
  BY <1>2 DEF ResetIsWhole, EngineInv
<1>16. Enabled'
  BY <1>2
     DEF Enabled, DiskEnables, MemoryEnables, PassIsEnabled, InConfig, ConfigStages, Retried,
         RetryStages, StoreFacts, EngineInv
<1> QED
  BY <1>6, <1>7, <1>8, <1>10, <1>11, <1>12, <1>13, <1>14, <1>15, <1>16 DEF EngineInv, TypeOK

\* A config that may not move records its bar and stops.
LEMMA RefuseKeeps ==
    ASSUME EngineInv, Refuse PROVE EngineInv'
<1>1. /\ WorldFacts /\ StoreFacts(store) /\ StoreFacts(disk) /\ OpFacts
      /\ WorldTypeOK /\ StoreTypeOK /\ OpTypeOK
  BY WorldTyped, StoreTyped, OpTyped DEF EngineInv, TypeOK, StoreTypeOK
<1>2. /\ op.at = "move"
      /\ op'.at = "record"
      /\ op'.key = op.key /\ op'.bars = op.bars
      /\ op'.sync = op.sync
      /\ op'.st = op.st
      /\ UNCHANGED journal
      /\ UNCHANGED <<booked, lot, gen>>
      /\ UNCHANGED <<store, disk, dirty>>
      /\ UNCHANGED <<market, scenario>>
  BY <1>1 DEF Refuse, Recorded, book, env, OpFacts, InConfig, ConfigOps, ConfigStages
<1>6. WorldTypeOK'
  BY <1>1, <1>2 DEF WorldTypeOK
<1>7. StoreTypeOK'
  BY <1>1, <1>2 DEF StoreTypeOK
<1>8. OpTypeOK'
  <2>1. op' \in ConfigOps
    BY <1>1, <1>2 DEF Refuse, Recorded, OpFacts, InConfig, ConfigOps, ConfigStages
  <2> QED
    BY <2>1 DEF OpTypeOK
<1>9. WorldFacts' /\ StoreFacts(store') /\ StoreFacts(disk') /\ OpFacts'
  BY <1>6, <1>7, <1>8, TypedAfter
<1>o. Obligations' \subseteq Obligations
  BY <1>1, <1>2 DEF Obligations, Retried, RetryStages, ConfigStages
<1>10. Keyed'
  BY <1>2, <1>o
     DEF Keyed, HoldingsAreOwn, ObligationsAreOwn, WorkIsOwn, Owns, IsKeyed, InConfig, ConfigStages,
         EngineInv
<1>11. Durable'
  BY <1>2 DEF Durable, DurableStages, EngineInv
<1>12. Agreement'
  BY <1>2
     DEF Agreement, AwaitingAgrees, DecidingAgrees, CaughtUpAgrees, MovingAgrees, ActingAgrees,
         OpeningIsFlat, ExitingAgrees, Settled, Awaits, InConfig, ConfigStages, EngineInv
<1>13. Booked'
  BY <1>2 DEF Booked, EntriesStand, ExitsFollow, HasExit, IsOpen, EngineInv
<1>14. ExitsOwed'
  BY <1>2, <1>o
     DEF ExitsOwed, OneExitOwed, ExitsFindTheirLot, FlipsFindTheirLot, HasBooked, NoneOpen, IsOpen,
         EngineInv
<1>15. ResetIsWhole'
  BY <1>2 DEF ResetIsWhole, EngineInv
<1>16. Enabled'
  BY <1>2
     DEF Enabled, DiskEnables, MemoryEnables, PassIsEnabled, InConfig, ConfigStages, Retried,
         RetryStages, StoreFacts, EngineInv
<1> QED
  BY <1>6, <1>7, <1>8, <1>10, <1>11, <1>12, <1>13, <1>14, <1>15, <1>16 DEF EngineInv, TypeOK

\* A config moves only in agreement: from here until it ends its move its lot is the trade it acts on.
LEMMA MoveKeeps ==
    ASSUME EngineInv, Move PROVE EngineInv'
<1>1. /\ WorldFacts /\ StoreFacts(store) /\ StoreFacts(disk) /\ OpFacts
      /\ WorldTypeOK /\ StoreTypeOK /\ OpTypeOK
  BY WorldTyped, StoreTyped, OpTyped DEF EngineInv, TypeOK, StoreTypeOK
<1>2. /\ op.at = "move"
      /\ MayMove
      /\ op'.at = IF op.st = NoTrade THEN "open" ELSE "close"
      /\ op'.key = op.key /\ op'.bars = op.bars
      /\ op'.sync = op.sync
      /\ op'.st = op.st
      /\ op'.flip = (op.st # NoTrade /\ op.target # "flat")
      /\ UNCHANGED journal
      /\ UNCHANGED <<booked, lot, gen>>
      /\ UNCHANGED <<store, disk, dirty>>
      /\ UNCHANGED <<market, scenario>>
  BY <1>1 DEF Move, book, env, OpFacts, InConfig, ConfigOps, ConfigStages
<1>6. WorldTypeOK'
  BY <1>1, <1>2 DEF WorldTypeOK
<1>7. StoreTypeOK'
  BY <1>1, <1>2 DEF StoreTypeOK
<1>8. OpTypeOK'
  <2>1. op' \in ConfigOps
    BY <1>1, <1>2 DEF Move, OpFacts, InConfig, ConfigOps, ConfigStages
  <2> QED
    BY <2>1 DEF OpTypeOK
<1>9. WorldFacts' /\ StoreFacts(store') /\ StoreFacts(disk') /\ OpFacts'
  BY <1>6, <1>7, <1>8, TypedAfter
<1>o. Obligations' \subseteq Obligations
  BY <1>1, <1>2 DEF Obligations, Retried, RetryStages, ConfigStages
<1>10. Keyed'
  BY <1>2, <1>o
     DEF Keyed, HoldingsAreOwn, ObligationsAreOwn, WorkIsOwn, Owns, IsKeyed, InConfig, ConfigStages,
         EngineInv
<1>11. Durable'
  BY <1>2 DEF Durable, DurableStages, EngineInv, MayMove
<1>12. Agreement'
  BY <1>2
     DEF Agreement, AwaitingAgrees, DecidingAgrees, CaughtUpAgrees, MovingAgrees, ActingAgrees,
         OpeningIsFlat, ExitingAgrees, Settled, Awaits, InConfig, ConfigStages, EngineInv, MayMove
<1>13. Booked'
  BY <1>2 DEF Booked, EntriesStand, ExitsFollow, HasExit, IsOpen, EngineInv
<1>14. ExitsOwed'
  <2>1. OneExitOwed'
    BY <1>2, <1>o DEF ExitsOwed, OneExitOwed, EngineInv
  <2>2. ExitsFindTheirLot'
    BY <1>2, <1>o DEF ExitsOwed, ExitsFindTheirLot, HasBooked, NoneOpen, IsOpen, EngineInv
  <2>3. FlipsFindTheirLot'
    <3>1. CASE op.st = NoTrade
      <4>1. Settled(op.key, op.st) /\ disk = store /\ op'.key = op.key
        BY <1>2, <3>1 DEF MayMove, EngineInv, Agreement, MovingAgrees, Durable
      <4>2. \A p \in Obligations' : p \in OwedIn(store)
        BY <1>2, <4>1 DEF Obligations, Retried, RetryStages
      <4> QED
        BY <4>1, <4>2 DEF FlipsFindTheirLot, Settled
    <3>2. CASE op.st # NoTrade
      BY <1>2, <3>2 DEF FlipsFindTheirLot
    <3> QED BY <3>1, <3>2
  <2> QED
    BY <2>1, <2>2, <2>3 DEF ExitsOwed
<1>15. ResetIsWhole'
  BY <1>2 DEF ResetIsWhole, EngineInv
<1>16. Enabled'
  BY <1>2
     DEF Enabled, DiskEnables, MemoryEnables, PassIsEnabled, InConfig, ConfigStages, Retried,
         RetryStages, StoreFacts, EngineInv
<1> QED
  BY <1>6, <1>7, <1>8, <1>10, <1>11, <1>12, <1>13, <1>14, <1>15, <1>16 DEF EngineInv, TypeOK

\* The journal closes the trade that the config holds; the exit is not owed yet, and the lot waits.
LEMMA JournalClosesKeeps ==
    ASSUME EngineInv, JournalCloses PROVE EngineInv'
<1>1. /\ WorldFacts /\ StoreFacts(store) /\ StoreFacts(disk) /\ OpFacts
      /\ WorldTypeOK /\ StoreTypeOK /\ OpTypeOK
  BY WorldTyped, StoreTyped, OpTyped DEF EngineInv, TypeOK, StoreTypeOK
<1>2. /\ op.at = "close"
      /\ IsOpen(op.st)
      /\ op'.at \in {"exit", "record"}
      /\ op'.key = op.key /\ op'.bars = op.bars
      /\ op'.sync = op.sync
      /\ op'.st = op.st
      /\ journal' = [journal EXCEPT ![op.st].status = "closed"]
      /\ UNCHANGED <<booked, lot, gen>>
      /\ UNCHANGED <<store, disk, dirty>>
      /\ UNCHANGED <<market, scenario>>
  BY <1>1 DEF JournalCloses, Recorded, GoTo, book, env, OpFacts, InConfig, ConfigOps, ConfigStages
<1>a. /\ journal' \in Seq(Records) /\ DOMAIN journal' = DOMAIN journal
      /\ \A u \in DOMAIN journal :
            /\ journal'[u].key = journal[u].key /\ journal'[u].kind = journal[u].kind
            /\ journal'[u].status = IF u = op.st THEN "closed" ELSE journal[u].status
  BY <1>1, <1>2, StatusIsSet
     DEF EngineInv, Keyed, HoldingsAreOwn, WorkIsOwn, Owns, InConfig, ConfigStages, NoTrade
<1>6. WorldTypeOK'
  BY <1>1, <1>2, <1>a DEF WorldTypeOK
<1>7. StoreTypeOK'
  BY <1>1, <1>2 DEF StoreTypeOK
<1>8. OpTypeOK'
  <2>1. op' \in ConfigOps
    BY <1>1, <1>2 DEF JournalCloses, Recorded, GoTo, OpFacts, InConfig, ConfigOps, ConfigStages
  <2> QED
    BY <2>1 DEF OpTypeOK
<1>9. WorldFacts' /\ StoreFacts(store') /\ StoreFacts(disk') /\ OpFacts'
  BY <1>6, <1>7, <1>8, TypedAfter
<1>o. Obligations' \subseteq Obligations
  BY <1>1, <1>2 DEF Obligations, Retried, RetryStages, ConfigStages
<1>10. Keyed'
  BY <1>2, <1>a, <1>o
     DEF Keyed, HoldingsAreOwn, ObligationsAreOwn, WorkIsOwn, Owns, IsKeyed, InConfig, ConfigStages,
         EngineInv
<1>11. Durable'
  BY <1>2, <1>a DEF Durable, DurableStages, EngineInv
<1>12. Agreement'
  <2>1. AwaitingAgrees'
    BY <1>2, <1>a
       DEF Agreement, AwaitingAgrees, Settled, Awaits, InConfig, ConfigStages, EngineInv,
           HoldingsAreOwn, Keyed, WorkIsOwn
  <2>2. DecidingAgrees'
    BY <1>2, <1>a DEF Agreement, DecidingAgrees, EngineInv, HoldingsAreOwn, Keyed, WorkIsOwn
  <2>3. CaughtUpAgrees'
    BY <1>2, <1>a DEF Agreement, CaughtUpAgrees, EngineInv, HoldingsAreOwn, Keyed, WorkIsOwn
  <2>4. MovingAgrees'
    BY <1>2, <1>a DEF Agreement, MovingAgrees, EngineInv, HoldingsAreOwn, Keyed, WorkIsOwn
  <2>5. ActingAgrees'
    BY <1>2, <1>a DEF Agreement, ActingAgrees, EngineInv, HoldingsAreOwn, Keyed, WorkIsOwn
  <2>6. OpeningIsFlat'
    BY <1>2, <1>a DEF Agreement, OpeningIsFlat, EngineInv, HoldingsAreOwn, Keyed, WorkIsOwn
  <2>7. ExitingAgrees'
    <3>1. op.st \in DOMAIN journal /\ Settled(op.key, op.st) /\ lot[op.key] = op.st
      BY <1>2 DEF EngineInv, Keyed, WorkIsOwn, Owns, InConfig, ConfigStages, Agreement, ActingAgrees
    <3>2. op'.st = op.st /\ op'.key = op.key /\ store' = store /\ lot' = lot
      BY <1>2
    <3>3. journal'[op.st].status = "closed"
      BY <1>a, <3>1
    <3> QED
      BY <3>1, <3>2, <3>3 DEF ExitingAgrees, IsOpen, Settled
  <2> QED
    BY <2>1, <2>2, <2>3, <2>4, <2>5, <2>6, <2>7 DEF Agreement
<1>13. Booked'
  <2>1. EntriesStand'
    <3>1. \A u \in DOMAIN journal : HasExit(u)' <=> HasExit(u)
      BY <1>2 DEF HasExit
    <3> QED
      BY <1>2, <1>a, <3>1 DEF EntriesStand, EngineInv, Booked
  <2>2. ExitsFollow'
    BY <1>2, <1>a DEF Booked, ExitsFollow, HasExit, IsOpen, EngineInv
  <2> QED
    BY <2>1, <2>2 DEF Booked
<1>14. ExitsOwed'
  BY <1>2, <1>a, <1>o
     DEF ExitsOwed, OneExitOwed, ExitsFindTheirLot, FlipsFindTheirLot, HasBooked, NoneOpen, IsOpen,
         EngineInv
<1>15. ResetIsWhole'
  BY <1>2, <1>a DEF ResetIsWhole, EngineInv
<1>16. Enabled'
  BY <1>2, <1>a
     DEF Enabled, DiskEnables, MemoryEnables, PassIsEnabled, InConfig, ConfigStages, Retried,
         RetryStages, StoreFacts, EngineInv
<1> QED
  BY <1>6, <1>7, <1>8, <1>10, <1>11, <1>12, <1>13, <1>14, <1>15, <1>16 DEF EngineInv, TypeOK

\* A close that the journal refuses ends the move before anything changed.
LEMMA JournalRefusesCloseKeeps ==
    ASSUME EngineInv, JournalRefusesClose PROVE EngineInv'
<1>1. /\ WorldFacts /\ StoreFacts(store) /\ StoreFacts(disk) /\ OpFacts
      /\ WorldTypeOK /\ StoreTypeOK /\ OpTypeOK
  BY WorldTyped, StoreTyped, OpTyped DEF EngineInv, TypeOK, StoreTypeOK
<1>2. /\ op.at = "close"
      /\ op'.at = "record"
      /\ op'.key = op.key /\ op'.bars = op.bars
      /\ op'.sync = op.sync
      /\ op'.st = op.st
      /\ UNCHANGED journal
      /\ UNCHANGED <<booked, lot, gen>>
      /\ UNCHANGED <<store, disk, dirty>>
      /\ UNCHANGED <<market, scenario>>
  BY <1>1 DEF JournalRefusesClose, Recorded, book, env, OpFacts, InConfig, ConfigOps, ConfigStages
<1>6. WorldTypeOK'
  BY <1>1, <1>2 DEF WorldTypeOK
<1>7. StoreTypeOK'
  BY <1>1, <1>2 DEF StoreTypeOK
<1>8. OpTypeOK'
  <2>1. op' \in ConfigOps
    BY <1>1, <1>2 DEF JournalRefusesClose, Recorded, OpFacts, InConfig, ConfigOps, ConfigStages
  <2> QED
    BY <2>1 DEF OpTypeOK
<1>9. WorldFacts' /\ StoreFacts(store') /\ StoreFacts(disk') /\ OpFacts'
  BY <1>6, <1>7, <1>8, TypedAfter
<1>o. Obligations' \subseteq Obligations
  BY <1>1, <1>2 DEF Obligations, Retried, RetryStages, ConfigStages
<1>10. Keyed'
  BY <1>2, <1>o
     DEF Keyed, HoldingsAreOwn, ObligationsAreOwn, WorkIsOwn, Owns, IsKeyed, InConfig, ConfigStages,
         EngineInv
<1>11. Durable'
  BY <1>2 DEF Durable, DurableStages, EngineInv
<1>12. Agreement'
  BY <1>2
     DEF Agreement, AwaitingAgrees, DecidingAgrees, CaughtUpAgrees, MovingAgrees, ActingAgrees,
         OpeningIsFlat, ExitingAgrees, Settled, Awaits, InConfig, ConfigStages, EngineInv
<1>13. Booked'
  BY <1>2 DEF Booked, EntriesStand, ExitsFollow, HasExit, IsOpen, EngineInv
<1>14. ExitsOwed'
  BY <1>2, <1>o
     DEF ExitsOwed, OneExitOwed, ExitsFindTheirLot, FlipsFindTheirLot, HasBooked, NoneOpen, IsOpen,
         EngineInv
<1>15. ResetIsWhole'
  BY <1>2 DEF ResetIsWhole, EngineInv
<1>16. Enabled'
  BY <1>2
     DEF Enabled, DiskEnables, MemoryEnables, PassIsEnabled, InConfig, ConfigStages, Retried,
         RetryStages, StoreFacts, EngineInv
<1> QED
  BY <1>6, <1>7, <1>8, <1>10, <1>11, <1>12, <1>13, <1>14, <1>15, <1>16 DEF EngineInv, TypeOK

\* A trade that the journal no longer has is treated as closed, and its lot still waits for the exit.
LEMMA JournalHasNoTradeKeeps ==
    ASSUME EngineInv, JournalHasNoTrade PROVE EngineInv'
<1>1. /\ WorldFacts /\ StoreFacts(store) /\ StoreFacts(disk) /\ OpFacts
      /\ WorldTypeOK /\ StoreTypeOK /\ OpTypeOK
  BY WorldTyped, StoreTyped, OpTyped DEF EngineInv, TypeOK, StoreTypeOK
<1>2. /\ op.at = "close"
      /\ op'.at = "exit"
      /\ op'.key = op.key /\ op'.bars = op.bars
      /\ op'.sync = op.sync
      /\ op'.st = op.st
      /\ ~IsOpen(op.st)
      /\ UNCHANGED journal
      /\ UNCHANGED <<booked, lot, gen>>
      /\ UNCHANGED <<store, disk, dirty>>
      /\ UNCHANGED <<market, scenario>>
  BY <1>1 DEF JournalHasNoTrade, IsOpen, book, env, OpFacts, InConfig, ConfigOps, ConfigStages
<1>6. WorldTypeOK'
  BY <1>1, <1>2 DEF WorldTypeOK
<1>7. StoreTypeOK'
  BY <1>1, <1>2 DEF StoreTypeOK
<1>8. OpTypeOK'
  <2>1. op' \in ConfigOps
    BY <1>1, <1>2 DEF JournalHasNoTrade, IsOpen, OpFacts, InConfig, ConfigOps, ConfigStages
  <2> QED
    BY <2>1 DEF OpTypeOK
<1>9. WorldFacts' /\ StoreFacts(store') /\ StoreFacts(disk') /\ OpFacts'
  BY <1>6, <1>7, <1>8, TypedAfter
<1>o. Obligations' \subseteq Obligations
  BY <1>1, <1>2 DEF Obligations, Retried, RetryStages, ConfigStages
<1>10. Keyed'
  BY <1>2, <1>o
     DEF Keyed, HoldingsAreOwn, ObligationsAreOwn, WorkIsOwn, Owns, IsKeyed, InConfig, ConfigStages,
         EngineInv
<1>11. Durable'
  BY <1>2 DEF Durable, DurableStages, EngineInv
<1>12. Agreement'
  BY <1>2
     DEF Agreement, AwaitingAgrees, DecidingAgrees, CaughtUpAgrees, MovingAgrees, ActingAgrees,
         OpeningIsFlat, ExitingAgrees, Settled, Awaits, InConfig, ConfigStages, EngineInv, IsOpen
<1>13. Booked'
  BY <1>2 DEF Booked, EntriesStand, ExitsFollow, HasExit, IsOpen, EngineInv
<1>14. ExitsOwed'
  BY <1>2, <1>o
     DEF ExitsOwed, OneExitOwed, ExitsFindTheirLot, FlipsFindTheirLot, HasBooked, NoneOpen, IsOpen,
         EngineInv
<1>15. ResetIsWhole'
  BY <1>2 DEF ResetIsWhole, EngineInv
<1>16. Enabled'
  BY <1>2
     DEF Enabled, DiskEnables, MemoryEnables, PassIsEnabled, InConfig, ConfigStages, Retried,
         RetryStages, StoreFacts, EngineInv
<1> QED
  BY <1>6, <1>7, <1>8, <1>10, <1>11, <1>12, <1>13, <1>14, <1>15, <1>16 DEF EngineInv, TypeOK

\* The exit is booked on the config's lot, which is the trade the journal closed: no open trade gets
\* an exit.
LEMMA BookExitKeeps ==
    ASSUME EngineInv, BookExit PROVE EngineInv'
<1>1. /\ WorldFacts /\ StoreFacts(store) /\ StoreFacts(disk) /\ OpFacts
      /\ WorldTypeOK /\ StoreTypeOK /\ OpTypeOK
  BY WorldTyped, StoreTyped, OpTyped DEF EngineInv, TypeOK, StoreTypeOK
<1>2. /\ op.at = "exit"
      /\ op'.at = "clear"
      /\ op'.key = op.key /\ op'.bars = op.bars
      /\ op'.sync = op.sync
      /\ op'.st = op.st
      /\ op'.gone = op.gone
      /\ op'.flip = op.flip
      /\ IF NoExitToBook THEN UNCHANGED <<booked, lot, gen>> ELSE BookLeg(ExitLeg(lot[op.key]))
      /\ UNCHANGED journal
      /\ UNCHANGED <<store, disk, dirty>>
      /\ UNCHANGED <<market, scenario>>
  BY <1>1 DEF BookExit, GoTo, book, env, OpFacts, InConfig, ConfigOps, ConfigStages
<1> DEFINE p == ExitLeg(lot[op.key])
<1>b. /\ op.key \in Keys /\ op.key \in store.enabled \cap disk.enabled /\ gen' = gen
      /\ lot' \in [Keys -> Nat] /\ booked' \subseteq (DOMAIN journal) \X Kinds
      /\ \A k \in Keys : k # op.key => lot'[k] = lot[k]
      /\ Owns(op.key, lot'[op.key]) /\ booked \subseteq booked' /\ Booked'
      /\ \A q \in Obligations : q.key # op.key
  <2>1. /\ op.key \in Keys /\ disk = store /\ Settled(op.key, op.st) /\ op.key \in store.enabled
        /\ lot[op.key] = op.st /\ ~IsOpen(op.st) /\ op.st # NoTrade /\ Owns(op.key, op.st)
    BY <1>1, <1>2
       DEF EngineInv, Keyed, WorkIsOwn, InConfig, ConfigStages, OpFacts, Durable, DurableStages,
       Agreement, ExitingAgrees, Enabled, PassIsEnabled
  <2>2. \A q \in Obligations : q.key # op.key
    BY <1>2, <2>1 DEF Obligations, Retried, RetryStages, Settled
  <2>3. p.key = op.key /\ p.trade = op.st /\ p.kind \in Book!CloseKinds /\ p.kind \in Kinds
    BY <2>1 DEF ExitLeg, Book!CloseKinds, Kinds
  <2>4. CASE NoExitToBook
    <3>1. booked' = booked /\ lot' = lot /\ gen' = gen
      BY <1>2, <2>4
    <3>2. Booked'
      BY <1>2, <3>1 DEF EngineInv, Booked, EntriesStand, ExitsFollow, HasExit, IsOpen
    <3>3. lot \in [Keys -> Nat] /\ booked \subseteq (DOMAIN journal) \X Kinds
      BY <1>1 DEF WorldTypeOK
    <3> QED
      BY <2>1, <2>2, <3>1, <3>2, <3>3
  <2>5. CASE ~NoExitToBook
    <3>1. BookLeg(p)
      BY <1>2, <2>5
    <3>2. IsKeyed(p)
      BY <2>1, <2>3 DEF IsKeyed, Owns
    <3> HIDE DEF p
    <3>3. ~IsOpen(lot[p.key]) /\ p.key \in Keys
      BY <2>1, <2>3
    <3> QED
      BY <1>1, <1>2, <2>1, <2>2, <2>3, <3>1, <3>2, <3>3, LegKeepsBook
  <2> QED BY <2>4, <2>5
<1> HIDE DEF p
<1>6. WorldTypeOK'
  BY <1>1, <1>2, <1>b DEF WorldTypeOK
<1>7. StoreTypeOK'
  BY <1>1, <1>2 DEF StoreTypeOK
<1>8. OpTypeOK'
  <2>1. op' \in ConfigOps
    BY <1>1, <1>2 DEF BookExit, GoTo, book, OpFacts, InConfig, ConfigOps, ConfigStages
  <2> QED
    BY <2>1 DEF OpTypeOK
<1>9. WorldFacts' /\ StoreFacts(store') /\ StoreFacts(disk') /\ OpFacts'
  BY <1>6, <1>7, <1>8, TypedAfter
<1>o. Obligations' \subseteq Obligations
  BY <1>1, <1>2 DEF Obligations, Retried, RetryStages, ConfigStages
<1>10. Keyed'
  <2>1. HoldingsAreOwn'
    BY <1>2, <1>b DEF Keyed, HoldingsAreOwn, Owns, IsKeyed, EngineInv
  <2>2. ObligationsAreOwn'
    BY <1>2, <1>b, <1>o DEF Keyed, ObligationsAreOwn, Owns, IsKeyed, EngineInv
  <2>3. WorkIsOwn'
    BY <1>2, <1>b DEF Keyed, WorkIsOwn, Owns, IsKeyed, InConfig, ConfigStages, EngineInv
  <2> QED
    BY <2>1, <2>2, <2>3 DEF Keyed
<1>11. Durable'
  BY <1>2, <1>b DEF Durable, DurableStages, EngineInv
<1>12. Agreement'
  BY <1>2, <1>b
     DEF Agreement, AwaitingAgrees, DecidingAgrees, CaughtUpAgrees, MovingAgrees, ActingAgrees,
         OpeningIsFlat, ExitingAgrees, Settled, Awaits, InConfig, ConfigStages, EngineInv
<1>13. Booked'
  <2>1. EntriesStand'
    BY <1>2, <1>b DEF Booked, EntriesStand, EngineInv
  <2>2. ExitsFollow'
    BY <1>2, <1>b DEF Booked, ExitsFollow, EngineInv
  <2> QED
    BY <2>1, <2>2 DEF Booked
<1>14. ExitsOwed'
  <2>1. OneExitOwed'
    BY <1>o DEF EngineInv, ExitsOwed, OneExitOwed
  <2>2. ExitsFindTheirLot'
    <3>1. ASSUME NEW q \in Obligations', q.kind \in Book!CloseKinds
          PROVE  ~IsOpen(q.trade)' /\ (HasBooked(q)' \/ lot'[q.key] = q.trade \/ NoneOpen(q.key)')
      <4>1. /\ q \in Obligations /\ ~IsOpen(q.trade) /\ q.key \in Keys /\ q.trade \in DOMAIN journal
            /\ HasBooked(q) \/ lot[q.key] = q.trade \/ NoneOpen(q.key)
        BY <1>1, <1>o, <3>1
           DEF EngineInv, ExitsOwed, ExitsFindTheirLot, Keyed, ObligationsAreOwn, IsKeyed, WorldFacts
      <4>2. (HasBooked(q) => HasBooked(q)') /\ (NoneOpen(q.key) => NoneOpen(q.key)') /\ ~IsOpen(q.trade)'
        BY <1>2, <1>b, <4>1 DEF HasBooked, NoneOpen, IsOpen
      <4>3. CASE lot[q.key] = q.trade /\ q.key = op.key
        BY <1>b, <4>1, <4>3
      <4> QED
        BY <1>b, <4>1, <4>2, <4>3
    <3> QED
      BY <3>1 DEF ExitsFindTheirLot
  <2>3. FlipsFindTheirLot'
    BY <1>2, <1>b, <1>o DEF FlipsFindTheirLot
  <2> QED
    BY <2>1, <2>2, <2>3 DEF ExitsOwed
<1>15. ResetIsWhole'
  BY <1>2, <1>b DEF ResetIsWhole, EngineInv
<1>16. Enabled'
  BY <1>2, <1>b
     DEF Enabled, DiskEnables, MemoryEnables, PassIsEnabled, InConfig, ConfigStages, Retried,
         RetryStages, StoreFacts, EngineInv
<1> QED
  BY <1>6, <1>7, <1>8, <1>10, <1>11, <1>12, <1>13, <1>14, <1>15, <1>16 DEF EngineInv, TypeOK

\* An exit that is refused is owed: it is its config's only one, and its lot is still there. The
\* config no longer agrees.
LEMMA ExitRefusedKeeps ==
    ASSUME EngineInv, ExitRefused PROVE EngineInv'
<1>1. /\ WorldFacts /\ StoreFacts(store) /\ StoreFacts(disk) /\ OpFacts
      /\ WorldTypeOK /\ StoreTypeOK /\ OpTypeOK
  BY WorldTyped, StoreTyped, OpTyped DEF EngineInv, TypeOK, StoreTypeOK
<1>2. /\ op.at = "exit"
      /\ op'.at = "clear"
      /\ op'.key = op.key /\ op'.bars = op.bars
      /\ op'.st = op.st
      /\ ~NoExitToBook
      /\ \A k \in Keys : k # op.key => op'.sync[k] = op.sync[k]
      /\ UNCHANGED journal
      /\ UNCHANGED <<booked, lot, gen>>
      /\ UNCHANGED <<market, scenario>>
  <2>1. /\ op' = [op EXCEPT !.at = "clear", !.sync[op.key].ok = @ /\ dirty']
        /\ op.at = "exit" /\ ~NoExitToBook
        /\ UNCHANGED <<journal, booked, lot, gen, market, scenario>>
    BY DEF ExitRefused, Owe, ExitLeg, book, env
  <2>2. op \in ConfigOps /\ op.sync \in [Keys -> Verdicts] /\ op.key \in Keys /\ op.sync[op.key] \in Verdicts
    BY <1>1, <2>1 DEF OpFacts, InConfig, ConfigStages
  <2> DEFINE v == [op.sync[op.key] EXCEPT !.ok = @ /\ dirty']
             new == [op.sync EXCEPT ![op.key] = v]
  <2>3. op' = [op EXCEPT !.at = "clear", !.sync = new]
    BY <2>1
  <2>4. (\A k \in Keys : k # op.key => new[k] = op.sync[k]) /\ new[op.key] = v
    BY <2>2
  <2>5. v.ok => dirty' /\ op.sync[op.key].ok
    <3>1. v = [ok |-> (op.sync[op.key].ok /\ dirty'), checked |-> op.sync[op.key].checked]
      BY <2>2 DEF Verdicts
    <3> QED
      BY <3>1
  <2> HIDE DEF new, v
  <2>6. op'.at = "clear" /\ op'.sync = new /\ op'.key = op.key /\ op'.bars = op.bars /\ op'.st = op.st
    BY <2>2, <2>3 DEF ConfigOps
  <2> QED
    BY <2>1, <2>2, <2>4, <2>5, <2>6
<1> DEFINE p == ExitLeg(lot[op.key])
<1>p. /\ p \in Legs /\ IsKeyed(p) /\ p.key = op.key /\ p.trade = lot[op.key] /\ lot[op.key] # NoTrade
      /\ p.kind \in Book!CloseKinds /\ op.key \in Keys /\ op.key \in store.enabled /\ disk = store
      /\ p = ExitLeg(lot[op.key])
      /\ ~IsOpen(p.trade) /\ \A q \in Obligations : q.key # op.key
  <2>1. /\ op.key \in Keys /\ op.key \in store.enabled /\ disk = store /\ Settled(op.key, op.st)
        /\ lot[op.key] = op.st /\ ~IsOpen(op.st) /\ op.st # NoTrade /\ Owns(op.key, op.st)
    BY <1>1, <1>2
       DEF EngineInv, Keyed, WorkIsOwn, InConfig, ConfigStages, OpFacts, Enabled, PassIsEnabled,
       Durable, DurableStages, Agreement, ExitingAgrees
  <2>2. \A q \in Obligations : q.key # op.key
    BY <1>2, <2>1 DEF Obligations, Retried, RetryStages, Settled
  <2>3. p.key = op.key /\ p.trade = lot[op.key] /\ p.kind \in Book!CloseKinds /\ p \in Legs
    BY <1>1, <2>1 DEF ExitLeg, Legs, Kinds, Book!CloseKinds, Owns, WorldFacts
  <2> HIDE DEF p
  <2> QED
    BY <2>1, <2>2, <2>3 DEF IsKeyed, Owns, p
<1> HIDE DEF p
<1> DEFINE new == Owing(p)
<1>3. Save(new)
  BY <1>p DEF ExitRefused, Owe
<1>4. /\ new \in Stores /\ new.held = store.held /\ new.enabled = store.enabled
      /\ OwedIn(new) = OwedIn(store) \cup {p}
  BY <1>1, <1>p, OwingOwes DEF StoreTypeOK
<1> HIDE DEF new
<1>5. /\ store' \in {store, new} /\ disk' \in {disk, new} /\ dirty' \in BOOLEAN
      /\ store' = new => disk' = new \/ store' = store
      /\ ~dirty' => store' = new /\ disk' = new
  BY <1>3, SaveDoes
<1>6. WorldTypeOK'
  BY <1>1, <1>2 DEF WorldTypeOK
<1>7. StoreTypeOK'
  BY <1>1, <1>2, <1>4, <1>5 DEF StoreTypeOK
<1>8. OpTypeOK'
  <2>1. op' \in ConfigOps
    <3>1. op \in ConfigOps /\ op.sync[op.key] \in Verdicts /\ p.key = op.key
      BY <1>1, <1>2, <1>p DEF OpFacts, InConfig, ConfigStages
    <3> DEFINE v == [op.sync[op.key] EXCEPT !.ok = @ /\ dirty']
    <3>2. v = [ok |-> op.sync[op.key].ok /\ dirty', checked |-> op.sync[op.key].checked]
      BY <3>1 DEF Verdicts
    <3>3. v \in Verdicts
      BY <3>1, <3>2 DEF Verdicts
    <3>4. op' = [op EXCEPT !.at = "clear", !.sync[p.key] = [op.sync[p.key] EXCEPT !.ok = @ /\ dirty']]
      BY <1>p DEF ExitRefused, Owe
    <3>5. op' = [op EXCEPT !.at = "clear", !.sync[op.key] = v]
      BY <3>1, <3>4
    <3> HIDE DEF v
    <3> QED
      BY <3>1, <3>3, <3>5, VerdictType DEF ConfigStages
  <2> QED
    BY <2>1 DEF OpTypeOK
<1>9. WorldFacts' /\ StoreFacts(store') /\ StoreFacts(disk') /\ OpFacts'
  BY <1>6, <1>7, <1>8, TypedAfter
<1>o. Obligations' \subseteq Obligations \cup {p}
  BY <1>2, <1>4, <1>5 DEF Obligations, Retried, RetryStages, ConfigStages
<1>10. Keyed'
  BY <1>2, <1>p, <1>4, <1>5, <1>o
     DEF Keyed, HoldingsAreOwn, ObligationsAreOwn, WorkIsOwn, Owns, IsKeyed, InConfig, ConfigStages,
         EngineInv
<1>11. Durable'
  BY <1>2, <1>p, <1>5 DEF Durable, DurableStages, EngineInv
<1>12. Agreement'
  BY <1>2, <1>p, <1>4, <1>5
     DEF Agreement, AwaitingAgrees, DecidingAgrees, CaughtUpAgrees, MovingAgrees, ActingAgrees,
         OpeningIsFlat, ExitingAgrees, Settled, Awaits, InConfig, ConfigStages, EngineInv
<1>13. Booked'
  BY <1>2, <1>p DEF Booked, EntriesStand, ExitsFollow, HasExit, IsOpen, EngineInv
<1>14. ExitsOwed'
  BY <1>2, <1>p, <1>o
     DEF ExitsOwed, OneExitOwed, ExitsFindTheirLot, FlipsFindTheirLot, HasBooked, NoneOpen, IsOpen,
         EngineInv
<1>15. ResetIsWhole'
  BY <1>2, <1>p DEF ResetIsWhole, EngineInv
<1>16. Enabled'
  BY <1>2, <1>p, <1>4, <1>5
     DEF Enabled, DiskEnables, MemoryEnables, PassIsEnabled, InConfig, ConfigStages, Retried,
         RetryStages, StoreFacts, EngineInv
<1> QED
  BY <1>6, <1>7, <1>8, <1>10, <1>11, <1>12, <1>13, <1>14, <1>15, <1>16 DEF EngineInv, TypeOK

\* The position is cleared. A flip goes on to open with a lot that is free, or whose exit is owed.
LEMMA ClearKeeps ==
    ASSUME EngineInv, Clear PROVE EngineInv'
<1>1. /\ WorldFacts /\ StoreFacts(store) /\ StoreFacts(disk) /\ OpFacts
      /\ WorldTypeOK /\ StoreTypeOK /\ OpTypeOK
  BY WorldTyped, StoreTyped, OpTyped DEF EngineInv, TypeOK, StoreTypeOK
<1>2. /\ op.at = "clear"
      /\ op'.at \in {"open", "record"}
      /\ op'.key = op.key /\ op'.bars = op.bars
      /\ op'.sync = op.sync
      /\ op'.st = NoTrade
      /\ op'.at = "open" => op.flip /\ op'.flip /\ ~dirty'
      /\ UNCHANGED journal
      /\ UNCHANGED <<booked, lot, gen>>
      /\ UNCHANGED <<market, scenario>>
  BY <1>1 DEF Clear, Recorded, book, env, OpFacts, InConfig, ConfigOps, ConfigStages
<1> DEFINE new == Holding(op.key, NoTrade)
<1>3. Save(new)
  BY DEF Clear
<1>4. /\ new \in Stores /\ OwedIn(new) = OwedIn(store) /\ new.enabled = store.enabled
      /\ \A j \in Keys : new.held[j] = IF j = op.key THEN NoTrade ELSE store.held[j]
  BY <1>1, <1>2, HoldingHolds
     DEF EngineInv, TypeOK, StoreTypeOK, OpFacts, InConfig, ConfigStages, WorldFacts, NoTrade
<1> HIDE DEF new
<1>5. /\ store' \in {store, new} /\ disk' \in {disk, new} /\ dirty' \in BOOLEAN
      /\ store' = new => disk' = new \/ store' = store
      /\ ~dirty' => store' = new /\ disk' = new
  BY <1>3, SaveDoes
<1>6. WorldTypeOK'
  BY <1>1, <1>2 DEF WorldTypeOK
<1>7. StoreTypeOK'
  BY <1>1, <1>2, <1>4, <1>5 DEF StoreTypeOK
<1>8. OpTypeOK'
  <2>1. op' \in ConfigOps
    <3>1. op \in ConfigOps /\ NoTrade \in Nat
      BY <1>1, <1>2 DEF OpFacts, InConfig, ConfigStages, NoTrade
    <3>2. \/ \E adv \in BOOLEAN : Recorded(NoTrade, adv)
          \/ op' = [op EXCEPT !.at = "open", !.st = NoTrade]
      BY DEF Clear
    <3> QED
      BY <3>1, <3>2, RecordedType, OpensType DEF ConfigStages
  <2> QED
    BY <2>1 DEF OpTypeOK
<1>9. WorldFacts' /\ StoreFacts(store') /\ StoreFacts(disk') /\ OpFacts'
  BY <1>6, <1>7, <1>8, TypedAfter
<1>o. Obligations' \subseteq Obligations
  BY <1>1, <1>2, <1>4, <1>5 DEF Obligations, Retried, RetryStages, ConfigStages
<1>10. Keyed'
  <2>1. HoldingsAreOwn'
    BY <1>2, <1>4, <1>5 DEF Keyed, HoldingsAreOwn, Owns, IsKeyed, EngineInv
  <2>2. ObligationsAreOwn'
    BY <1>2, <1>o DEF Keyed, ObligationsAreOwn, Owns, IsKeyed, EngineInv
  <2>3. WorkIsOwn'
    BY <1>2 DEF Keyed, WorkIsOwn, Owns, IsKeyed, EngineInv
  <2> QED
    BY <2>1, <2>2, <2>3 DEF Keyed
<1>11. Durable'
  BY <1>2, <1>5 DEF Durable, DurableStages, EngineInv
<1>12. Agreement'
  BY <1>2, <1>4, <1>5, <1>9
     DEF Agreement, AwaitingAgrees, DecidingAgrees, CaughtUpAgrees, MovingAgrees, ActingAgrees,
         OpeningIsFlat, ExitingAgrees, Settled, Awaits, InConfig, ConfigStages, OpFacts, EngineInv
<1>13. Booked'
  BY <1>2 DEF Booked, EntriesStand, ExitsFollow, HasExit, IsOpen, EngineInv
<1>14. ExitsOwed'
  BY <1>2, <1>o
     DEF ExitsOwed, OneExitOwed, ExitsFindTheirLot, FlipsFindTheirLot, HasBooked, NoneOpen, IsOpen,
         EngineInv
<1>15. ResetIsWhole'
  BY <1>2 DEF ResetIsWhole, EngineInv
<1>16. Enabled'
  BY <1>2, <1>4, <1>5
     DEF Enabled, DiskEnables, MemoryEnables, PassIsEnabled, InConfig, ConfigStages, Retried,
         RetryStages, StoreFacts, EngineInv
<1> QED
  BY <1>6, <1>7, <1>8, <1>10, <1>11, <1>12, <1>13, <1>14, <1>15, <1>16 DEF EngineInv, TypeOK

\* The journal opens a trade. An exit that its config owes has been booked or has its lot, so that
\* the new trade cannot be taken for the one it closes.
LEMMA JournalCreatesKeeps ==
    ASSUME EngineInv, JournalCreates PROVE EngineInv'
<1>1. /\ WorldFacts /\ StoreFacts(store) /\ StoreFacts(disk) /\ OpFacts
      /\ WorldTypeOK /\ StoreTypeOK /\ OpTypeOK
  BY WorldTyped, StoreTyped, OpTyped DEF EngineInv, TypeOK, StoreTypeOK
<1>2. /\ op.at = "open"
      /\ op'.at \in {"opened", "record"}
      /\ op'.key = op.key /\ op'.bars = op.bars
      /\ op'.sync = op.sync
      /\ op'.at = "opened" => op'.st = Len(journal) + 1
      /\ op'.at = "record" => op'.st = NoTrade
      /\ journal' = Append(journal, NewTrade)
      /\ UNCHANGED <<booked, lot, gen>>
      /\ UNCHANGED <<store, disk, dirty>>
      /\ UNCHANGED <<market, scenario>>
  <2>1. /\ op.at = "open" /\ journal' = Append(journal, NewTrade)
        /\ UNCHANGED <<booked, lot, gen, store, disk, dirty, market, scenario>>
        /\ \/ op' = [op EXCEPT !.at = "opened", !.st = Len(journal')]
           \/ op' = [op EXCEPT !.at = "record", !.st = NoTrade, !.adv = FALSE]
    BY DEF JournalCreates, Recorded, book, env
  <2>2. op \in ConfigOps
    BY <1>1, <2>1 DEF OpFacts, InConfig, ConfigStages
  <2>3. Len(journal') = Len(journal) + 1
    BY <2>1 DEF EngineInv, TypeOK, WorldTypeOK
  <2> QED
    BY <2>1, <2>2, <2>3 DEF ConfigOps
<1>a. /\ journal' \in Seq(Records) /\ DOMAIN journal' = DOMAIN journal \cup {Len(journal) + 1}
      /\ Len(journal) + 1 \notin DOMAIN journal /\ NewTrade \in Records
      /\ journal'[Len(journal) + 1] = NewTrade /\ \A u \in DOMAIN journal : journal'[u] = journal[u]
  <2>1. NewTrade \in Records
    BY <1>1, <1>2
       DEF NewTrade, EntryKind, Records, OpFacts, InConfig, ConfigStages, WorldTypeOK, Book!OpenKinds
  <2> QED
    BY <1>1, <1>2, <2>1, TradeIsAdded
<1>6. WorldTypeOK'
  BY <1>1, <1>2, <1>a DEF WorldTypeOK
<1>7. StoreTypeOK'
  BY <1>1, <1>2 DEF StoreTypeOK
<1>8. OpTypeOK'
  <2>1. op' \in ConfigOps
    <3>1. op \in ConfigOps /\ NoTrade \in Nat
      BY <1>1, <1>2 DEF OpFacts, InConfig, ConfigStages, NoTrade
    <3>2. Len(journal') \in Nat
      BY <1>a
    <3>3. Recorded(NoTrade, FALSE) \/ op' = [op EXCEPT !.at = "opened", !.st = Len(journal')]
      BY DEF JournalCreates
    <3> QED
      BY <3>1, <3>2, <3>3, RecordedType, OpensType DEF ConfigStages
  <2> QED
    BY <2>1 DEF OpTypeOK
<1>9. WorldFacts' /\ StoreFacts(store') /\ StoreFacts(disk') /\ OpFacts'
  BY <1>6, <1>7, <1>8, TypedAfter
<1>o. Obligations' \subseteq Obligations
  BY <1>1, <1>2 DEF Obligations, Retried, RetryStages, ConfigStages
<1>10. Keyed'
  BY <1>2, <1>a, <1>9, <1>o
     DEF Keyed, HoldingsAreOwn, ObligationsAreOwn, WorkIsOwn, Owns, IsKeyed, WorldFacts, EngineInv,
         NewTrade
<1>11. Durable'
  BY <1>2, <1>a DEF Durable, DurableStages, EngineInv
<1>12. Agreement'
  BY <1>2, <1>a
     DEF Agreement, AwaitingAgrees, DecidingAgrees, CaughtUpAgrees, MovingAgrees, ActingAgrees,
         OpeningIsFlat, ExitingAgrees, Settled, Awaits, InConfig, ConfigStages, EngineInv
<1>13. Booked'
  BY <1>1, <1>2, <1>a DEF Booked, EntriesStand, ExitsFollow, HasExit, IsOpen, WorldFacts, EngineInv
<1>14. ExitsOwed'
  <2>1. OneExitOwed'
    BY <1>2, <1>a, <1>o DEF ExitsOwed, OneExitOwed, EngineInv
  <2>2. ExitsFindTheirLot'
    <3>1. ASSUME NEW p \in Obligations', p.kind \in Book!CloseKinds
          PROVE  ~IsOpen(p.trade)' /\ (HasBooked(p)' \/ lot'[p.key] = p.trade \/ NoneOpen(p.key)')
      <4>1. /\ p \in Obligations /\ ~IsOpen(p.trade) /\ p.trade \in DOMAIN journal
            /\ HasBooked(p) \/ lot[p.key] = p.trade \/ NoneOpen(p.key)
            /\ p.key = op.key => HasBooked(p) \/ lot[p.key] = p.trade
        BY <1>2, <1>o, <3>1
           DEF EngineInv, ExitsOwed, ExitsFindTheirLot, FlipsFindTheirLot, Keyed, ObligationsAreOwn,
               IsKeyed
      <4>2. ~IsOpen(p.trade)' /\ (HasBooked(p) => HasBooked(p)') /\ lot' = lot
        BY <1>2, <1>a, <4>1 DEF IsOpen, HasBooked
      <4>3. p.key # op.key /\ NoneOpen(p.key) => NoneOpen(p.key)'
        BY <1>a DEF NoneOpen, IsOpen, NewTrade
      <4> QED
        BY <4>1, <4>2, <4>3
    <3> QED
      BY <3>1 DEF ExitsFindTheirLot
  <2>3. FlipsFindTheirLot'
    BY <1>2, <1>a DEF ExitsOwed, FlipsFindTheirLot, EngineInv
  <2> QED
    BY <2>1, <2>2, <2>3 DEF ExitsOwed
<1>15. ResetIsWhole'
  BY <1>2, <1>a DEF ResetIsWhole, EngineInv
<1>16. Enabled'
  BY <1>2, <1>a
     DEF Enabled, DiskEnables, MemoryEnables, PassIsEnabled, InConfig, ConfigStages, Retried,
         RetryStages, StoreFacts, EngineInv
<1> QED
  BY <1>6, <1>7, <1>8, <1>10, <1>11, <1>12, <1>13, <1>14, <1>15, <1>16 DEF EngineInv, TypeOK

\* A create that is refused ends the move with a flat config.
LEMMA JournalRefusesOpenKeeps ==
    ASSUME EngineInv, JournalRefusesOpen PROVE EngineInv'
<1>1. /\ WorldFacts /\ StoreFacts(store) /\ StoreFacts(disk) /\ OpFacts
      /\ WorldTypeOK /\ StoreTypeOK /\ OpTypeOK
  BY WorldTyped, StoreTyped, OpTyped DEF EngineInv, TypeOK, StoreTypeOK
<1>2. /\ op.at = "open"
      /\ op'.at = "record"
      /\ op'.key = op.key /\ op'.bars = op.bars
      /\ op'.sync = op.sync
      /\ op'.st = NoTrade
      /\ UNCHANGED journal
      /\ UNCHANGED <<booked, lot, gen>>
      /\ UNCHANGED <<store, disk, dirty>>
      /\ UNCHANGED <<market, scenario>>
  BY <1>1 DEF JournalRefusesOpen, Recorded, book, env, OpFacts, InConfig, ConfigOps, ConfigStages
<1>6. WorldTypeOK'
  BY <1>1, <1>2 DEF WorldTypeOK
<1>7. StoreTypeOK'
  BY <1>1, <1>2 DEF StoreTypeOK
<1>8. OpTypeOK'
  <2>1. op' \in ConfigOps
    <3>1. op \in ConfigOps /\ NoTrade \in Nat
      BY <1>1, <1>2 DEF OpFacts, InConfig, ConfigStages, NoTrade
    <3> QED
      BY <3>1, RecordedType DEF JournalRefusesOpen
  <2> QED
    BY <2>1 DEF OpTypeOK
<1>9. WorldFacts' /\ StoreFacts(store') /\ StoreFacts(disk') /\ OpFacts'
  BY <1>6, <1>7, <1>8, TypedAfter
<1>o. Obligations' \subseteq Obligations
  BY <1>1, <1>2 DEF Obligations, Retried, RetryStages, ConfigStages
<1>10. Keyed'
  BY <1>2, <1>o DEF Keyed, HoldingsAreOwn, ObligationsAreOwn, WorkIsOwn, Owns, IsKeyed, EngineInv
<1>11. Durable'
  BY <1>2 DEF Durable, DurableStages, EngineInv
<1>12. Agreement'
  BY <1>2
     DEF Agreement, AwaitingAgrees, DecidingAgrees, CaughtUpAgrees, MovingAgrees, ActingAgrees,
         OpeningIsFlat, ExitingAgrees, Settled, Awaits, InConfig, ConfigStages, EngineInv
<1>13. Booked'
  BY <1>2 DEF Booked, EntriesStand, ExitsFollow, HasExit, IsOpen, EngineInv
<1>14. ExitsOwed'
  BY <1>2, <1>o
     DEF ExitsOwed, OneExitOwed, ExitsFindTheirLot, FlipsFindTheirLot, HasBooked, NoneOpen, IsOpen,
         EngineInv
<1>15. ResetIsWhole'
  BY <1>2 DEF ResetIsWhole, EngineInv
<1>16. Enabled'
  BY <1>2
     DEF Enabled, DiskEnables, MemoryEnables, PassIsEnabled, InConfig, ConfigStages, Retried,
         RetryStages, StoreFacts, EngineInv
<1> QED
  BY <1>6, <1>7, <1>8, <1>10, <1>11, <1>12, <1>13, <1>14, <1>15, <1>16 DEF EngineInv, TypeOK

\* The new trade is saved as held, or forgotten: the lot is still free.
LEMMA SaveOpenKeeps ==
    ASSUME EngineInv, SaveOpen PROVE EngineInv'
<1>1. /\ WorldFacts /\ StoreFacts(store) /\ StoreFacts(disk) /\ OpFacts
      /\ WorldTypeOK /\ StoreTypeOK /\ OpTypeOK
  BY WorldTyped, StoreTyped, OpTyped DEF EngineInv, TypeOK, StoreTypeOK
<1>2. /\ op.at = "opened"
      /\ op'.at \in {"record", "intend"}
      /\ op'.key = op.key /\ op'.bars = op.bars
      /\ op'.sync = op.sync
      /\ op'.st = op.st
      /\ op'.at = "intend" => ~dirty'
      /\ UNCHANGED journal
      /\ UNCHANGED <<booked, lot, gen>>
      /\ UNCHANGED <<market, scenario>>
  BY <1>1 DEF SaveOpen, Recorded, GoTo, book, env, OpFacts, InConfig, ConfigOps, ConfigStages
<1> DEFINE new == Holding(op.key, op.st)
<1>3. Save(new)
  BY DEF SaveOpen
<1>4. /\ new \in Stores /\ OwedIn(new) = OwedIn(store) /\ new.enabled = store.enabled
      /\ \A j \in Keys : new.held[j] = IF j = op.key THEN op.st ELSE store.held[j]
  BY <1>1, <1>2, HoldingHolds
     DEF EngineInv, TypeOK, StoreTypeOK, OpFacts, InConfig, ConfigStages, WorldFacts, NoTrade
<1> HIDE DEF new
<1>5. /\ store' \in {store, new} /\ disk' \in {disk, new} /\ dirty' \in BOOLEAN
      /\ store' = new => disk' = new \/ store' = store
      /\ ~dirty' => store' = new /\ disk' = new
  BY <1>3, SaveDoes
<1>6. WorldTypeOK'
  BY <1>1, <1>2 DEF WorldTypeOK
<1>7. StoreTypeOK'
  BY <1>1, <1>2, <1>4, <1>5 DEF StoreTypeOK
<1>8. OpTypeOK'
  <2>1. op' \in ConfigOps
    BY ZenonT(30), <1>1, <1>2 DEF SaveOpen, Recorded, GoTo, OpFacts, InConfig, ConfigOps, ConfigStages
  <2> QED
    BY <2>1 DEF OpTypeOK
<1>9. WorldFacts' /\ StoreFacts(store') /\ StoreFacts(disk') /\ OpFacts'
  BY <1>6, <1>7, <1>8, TypedAfter
<1>o. Obligations' \subseteq Obligations
  BY <1>1, <1>2, <1>4, <1>5 DEF Obligations, Retried, RetryStages, ConfigStages
<1>10. Keyed'
  <2>1. HoldingsAreOwn'
    BY <1>2, <1>4, <1>5
       DEF Keyed, HoldingsAreOwn, ObligationsAreOwn, WorkIsOwn, Owns, IsKeyed, InConfig,
           ConfigStages, EngineInv
  <2>2. ObligationsAreOwn'
    BY <1>2, <1>o DEF Keyed, ObligationsAreOwn, Owns, IsKeyed, EngineInv
  <2>3. WorkIsOwn'
    BY <1>2 DEF Keyed, WorkIsOwn, Owns, IsKeyed, InConfig, ConfigStages, EngineInv
  <2> QED
    BY <2>1, <2>2, <2>3 DEF Keyed
<1>11. Durable'
  BY <1>2, <1>5 DEF Durable, DurableStages, EngineInv
<1>12. Agreement'
  BY <1>2, <1>4, <1>5
     DEF Agreement, AwaitingAgrees, DecidingAgrees, CaughtUpAgrees, MovingAgrees, ActingAgrees,
         OpeningIsFlat, ExitingAgrees, Settled, Awaits, InConfig, ConfigStages, EngineInv
<1>13. Booked'
  BY <1>2 DEF Booked, EntriesStand, ExitsFollow, HasExit, IsOpen, EngineInv
<1>14. ExitsOwed'
  BY <1>2, <1>o
     DEF ExitsOwed, OneExitOwed, ExitsFindTheirLot, FlipsFindTheirLot, HasBooked, NoneOpen, IsOpen,
         EngineInv
<1>15. ResetIsWhole'
  BY <1>2 DEF ResetIsWhole, EngineInv
<1>16. Enabled'
  BY <1>2, <1>4, <1>5
     DEF Enabled, DiskEnables, MemoryEnables, PassIsEnabled, InConfig, ConfigStages, Retried,
         RetryStages, StoreFacts, EngineInv
<1> QED
  BY <1>6, <1>7, <1>8, <1>10, <1>11, <1>12, <1>13, <1>14, <1>15, <1>16 DEF EngineInv, TypeOK

\* The entry is written down as owed before it is booked.
LEMMA IntendKeeps ==
    ASSUME EngineInv, Intend PROVE EngineInv'
<1>1. /\ WorldFacts /\ StoreFacts(store) /\ StoreFacts(disk) /\ OpFacts
      /\ WorldTypeOK /\ StoreTypeOK /\ OpTypeOK
  BY WorldTyped, StoreTyped, OpTyped DEF EngineInv, TypeOK, StoreTypeOK
<1>2. /\ op.at = "intend"
      /\ op'.at \in {"record", "entry"}
      /\ op'.key = op.key /\ op'.bars = op.bars
      /\ op'.sync = op.sync
      /\ op'.st = op.st
      /\ op'.at = "entry" => ~dirty'
      /\ UNCHANGED journal
      /\ UNCHANGED <<booked, lot, gen>>
      /\ UNCHANGED <<market, scenario>>
  BY <1>1 DEF Intend, Recorded, GoTo, book, env, OpFacts, InConfig, ConfigOps, ConfigStages
<1> DEFINE p == EntryLeg(op.st)
<1>p. /\ p = EntryLeg(op.st) /\ p \in Legs /\ IsKeyed(p) /\ p.key = op.key /\ p.trade = op.st
      /\ p.trade # NoTrade
      /\ p.kind \in Book!OpenKinds /\ p.kind \notin Book!CloseKinds /\ op.key \in Keys
      /\ op.key \in store.enabled /\ disk = store
  <2>1. op.key \in Keys /\ op.st # NoTrade /\ Owns(op.key, op.st) /\ op.key \in store.enabled /\ disk = store
    BY <1>1, <1>2
       DEF EngineInv, Keyed, WorkIsOwn, InConfig, ConfigStages, OpFacts, CatchesUp, Enabled,
           PassIsEnabled,
       Durable, DurableStages
  <2>2. p \in Legs /\ p.key = op.key /\ p.trade = op.st /\ p.kind \in Book!OpenKinds
    BY <1>1, <2>1 DEF EntryLeg, Owns, WorldFacts, Kinds, Legs
  <2>3. p.kind \notin Book!CloseKinds
    BY <2>2 DEF Book!OpenKinds, Book!CloseKinds
  <2> HIDE DEF p
  <2> QED
    BY <2>1, <2>2, <2>3 DEF IsKeyed, Owns, p
<1> HIDE DEF p
<1> DEFINE new == Owing(p)
<1>3. Save(new)
  BY <1>p DEF Intend
<1>4. /\ new \in Stores /\ new.held = store.held /\ new.enabled = store.enabled
      /\ OwedIn(new) = OwedIn(store) \cup {p}
  BY <1>1, <1>p, OwingOwes DEF StoreTypeOK
<1> HIDE DEF new
<1>5. /\ store' \in {store, new} /\ disk' \in {disk, new} /\ dirty' \in BOOLEAN
      /\ store' = new => disk' = new \/ store' = store
      /\ ~dirty' => store' = new /\ disk' = new
  BY <1>3, SaveDoes
<1>6. WorldTypeOK'
  BY <1>1, <1>2 DEF WorldTypeOK
<1>7. StoreTypeOK'
  BY <1>1, <1>2, <1>4, <1>5 DEF StoreTypeOK
<1>8. OpTypeOK'
  <2>1. op' \in ConfigOps
    BY ZenonT(30), <1>1, <1>2 DEF Intend, Recorded, GoTo, OpFacts, InConfig, ConfigOps, ConfigStages
  <2> QED
    BY <2>1 DEF OpTypeOK
<1>9. WorldFacts' /\ StoreFacts(store') /\ StoreFacts(disk') /\ OpFacts'
  BY <1>6, <1>7, <1>8, TypedAfter
<1>o. Obligations' \subseteq Obligations \cup {p}
  BY <1>2, <1>4, <1>5 DEF Obligations, Retried, RetryStages, ConfigStages
<1>10. Keyed'
  BY <1>2, <1>p, <1>4, <1>5, <1>o
     DEF Keyed, HoldingsAreOwn, ObligationsAreOwn, WorkIsOwn, Owns, IsKeyed, InConfig, ConfigStages,
         EngineInv
<1>11. Durable'
  BY <1>2, <1>p, <1>5 DEF Durable, DurableStages, EngineInv
<1>12. Agreement'
  <2>1. AwaitingAgrees'
    BY <1>2, <1>p, <1>4, <1>5
       DEF Agreement, AwaitingAgrees, Settled, Awaits, InConfig, ConfigStages, EngineInv
  <2>2. DecidingAgrees'
    BY <1>2 DEF DecidingAgrees
  <2>3. CaughtUpAgrees'
    BY <1>2, <1>p DEF Agreement, CaughtUpAgrees, EngineInv
  <2>4. MovingAgrees'
    BY <1>2, <1>p DEF Agreement, MovingAgrees, EngineInv
  <2>5. ActingAgrees'
    BY <1>2, <1>p DEF Agreement, ActingAgrees, EngineInv
  <2>6. OpeningIsFlat'
    BY <1>2, <1>p DEF Agreement, OpeningIsFlat, EngineInv
  <2>7. ExitingAgrees'
    BY <1>2, <1>p DEF Agreement, ExitingAgrees, EngineInv
  <2> QED
    BY <2>1, <2>2, <2>3, <2>4, <2>5, <2>6, <2>7 DEF Agreement
<1>13. Booked'
  BY <1>2, <1>p DEF Booked, EntriesStand, ExitsFollow, HasExit, IsOpen, EngineInv
<1>14. ExitsOwed'
  BY <1>2, <1>p, <1>o
     DEF ExitsOwed, OneExitOwed, ExitsFindTheirLot, FlipsFindTheirLot, HasBooked, NoneOpen, IsOpen,
         EngineInv
<1>15. ResetIsWhole'
  BY <1>2, <1>p DEF ResetIsWhole, EngineInv
<1>16. Enabled'
  BY <1>2, <1>p, <1>4, <1>5
     DEF Enabled, DiskEnables, MemoryEnables, PassIsEnabled, InConfig, ConfigStages, Retried,
         RetryStages, StoreFacts, EngineInv
<1> QED
  BY <1>6, <1>7, <1>8, <1>10, <1>11, <1>12, <1>13, <1>14, <1>15, <1>16 DEF EngineInv, TypeOK

\* The entry is booked on a flat book: the lot becomes the new trade's.
LEMMA BookEntryKeeps ==
    ASSUME EngineInv, BookEntry PROVE EngineInv'
<1>1. /\ WorldFacts /\ StoreFacts(store) /\ StoreFacts(disk) /\ OpFacts
      /\ WorldTypeOK /\ StoreTypeOK /\ OpTypeOK
  BY WorldTyped, StoreTyped, OpTyped DEF EngineInv, TypeOK, StoreTypeOK
<1>2. /\ op.at = "entry"
      /\ op'.at = "entered"
      /\ op'.key = op.key /\ op'.bars = op.bars
      /\ op'.sync = op.sync
      /\ op'.st = op.st
      /\ BookLeg(EntryLeg(op.st))
      /\ UNCHANGED journal
      /\ UNCHANGED <<store, disk, dirty>>
      /\ UNCHANGED <<market, scenario>>
  BY <1>1 DEF BookEntry, GoTo, book, env, OpFacts, InConfig, ConfigOps, ConfigStages
<1> DEFINE p == EntryLeg(op.st)
<1>b. /\ p.key \in Keys /\ p.key \in store.enabled \cap disk.enabled /\ IsKeyed(p) /\ p.kind \in Kinds
      /\ p.trade \in DOMAIN journal /\ (p \in Obligations \/ p.kind \in Book!OpenKinds)
      /\ gen' = gen /\ lot' \in [Keys -> Nat] /\ booked' \subseteq (DOMAIN journal) \X Kinds
      /\ \A k \in Keys : k # p.key => lot'[k] = lot[k]
      /\ Owns(p.key, lot'[p.key]) /\ booked \subseteq booked' /\ Booked'
      /\ \/ /\ p.kind \in Book!OpenKinds /\ lot[p.key] = NoTrade /\ lot'[p.key] = p.trade
            /\ booked' = booked \cup {<<p.trade, p.kind>>}
         \/ /\ p.kind \in Book!CloseKinds /\ lot[p.key] # NoTrade /\ lot'[p.key] = NoTrade
            /\ booked' = booked \cup {<<lot[p.key], p.kind>>}
  <2>1. /\ p.key \in Keys /\ p.key \in store.enabled \cap disk.enabled /\ IsKeyed(p) /\ p.kind \in Kinds
        /\ p.trade \in DOMAIN journal /\ (p \in Obligations \/ p.kind \in Book!OpenKinds)
    <3>1. op.key \in Keys /\ op.st # NoTrade /\ Owns(op.key, op.st) /\ op.key \in store.enabled /\ disk = store
      BY <1>1, <1>2
         DEF EngineInv, Keyed, WorkIsOwn, InConfig, ConfigStages, OpFacts, CatchesUp, Enabled,
             PassIsEnabled,
         Durable, DurableStages
    <3> QED
      BY <1>1, <3>1 DEF EntryLeg, IsKeyed, Owns, WorldFacts, Kinds
  <2>2. p.kind \in Book!CloseKinds => ~IsOpen(lot[p.key])
    BY <1>1, <2>1 DEF EntryLeg, IsKeyed, WorldFacts, Book!OpenKinds, Book!CloseKinds
  <2>3. BookLeg(p)
    BY <1>2
  <2> HIDE DEF p
  <2> QED
    BY <1>1, <1>2, <2>1, <2>2, <2>3, LegKeepsBook
<1>k. p = EntryLeg(op.st) /\ p.key = op.key /\ p.trade = op.st /\ p.kind \in Book!OpenKinds
  BY <1>1, <1>2, <1>b
     DEF EntryLeg, WorldFacts, EngineInv, Keyed, WorkIsOwn, Owns, InConfig, ConfigStages, CatchesUp
<1> HIDE DEF p
<1>6. WorldTypeOK'
  BY <1>1, <1>2, <1>b DEF WorldTypeOK
<1>7. StoreTypeOK'
  BY <1>1, <1>2 DEF StoreTypeOK
<1>8. OpTypeOK'
  <2>1. op' \in ConfigOps
    BY <1>1, <1>2 DEF BookEntry, GoTo, OpFacts, InConfig, ConfigOps, ConfigStages
  <2> QED
    BY <2>1 DEF OpTypeOK
<1>9. WorldFacts' /\ StoreFacts(store') /\ StoreFacts(disk') /\ OpFacts'
  BY <1>6, <1>7, <1>8, TypedAfter
<1>o. Obligations' \subseteq Obligations
  BY <1>1, <1>2 DEF Obligations, Retried, RetryStages, ConfigStages
<1>10. Keyed'
  <2>1. HoldingsAreOwn'
    BY <1>2, <1>b, <1>k DEF Keyed, HoldingsAreOwn, Owns, IsKeyed, EngineInv
  <2>2. ObligationsAreOwn'
    BY <1>2, <1>b, <1>o, <1>k DEF Keyed, ObligationsAreOwn, Owns, IsKeyed, EngineInv
  <2>3. WorkIsOwn'
    BY <1>2, <1>b, <1>k DEF Keyed, WorkIsOwn, Owns, IsKeyed, EngineInv
  <2> QED
    BY <2>1, <2>2, <2>3 DEF Keyed
<1>11. Durable'
  BY <1>2, <1>b, <1>k DEF Durable, DurableStages, EngineInv
<1>12. Agreement'
  <2>1. AwaitingAgrees'
    BY <1>1, <1>2, <1>b, <1>k
       DEF Agreement, AwaitingAgrees, Settled, Awaits, InConfig, ConfigStages, WorldFacts, EngineInv
  <2>2. DecidingAgrees'
    BY <1>2, <1>b, <1>k DEF Agreement, DecidingAgrees, EngineInv
  <2>3. CaughtUpAgrees'
    BY <1>2, <1>b, <1>k DEF Agreement, CaughtUpAgrees, EngineInv
  <2>4. MovingAgrees'
    BY <1>2, <1>b, <1>k DEF Agreement, MovingAgrees, EngineInv
  <2>5. ActingAgrees'
    BY <1>2, <1>b, <1>k DEF Agreement, ActingAgrees, EngineInv
  <2>6. OpeningIsFlat'
    BY <1>2, <1>b, <1>k DEF Agreement, OpeningIsFlat, EngineInv
  <2>7. ExitingAgrees'
    BY <1>2, <1>b, <1>k DEF Agreement, ExitingAgrees, EngineInv
  <2> QED
    BY <2>1, <2>2, <2>3, <2>4, <2>5, <2>6, <2>7 DEF Agreement
<1>13. Booked'
  <2>1. EntriesStand'
    BY <1>2, <1>b, <1>k DEF Booked, EntriesStand, EngineInv
  <2>2. ExitsFollow'
    BY <1>2, <1>b, <1>k DEF Booked, ExitsFollow, EngineInv
  <2> QED
    BY <2>1, <2>2 DEF Booked
<1>14. ExitsOwed'
  <2>1. OneExitOwed'
    BY <1>o DEF EngineInv, ExitsOwed, OneExitOwed
  <2>2. ExitsFindTheirLot'
    <3>1. ASSUME NEW q \in Obligations', q.kind \in Book!CloseKinds
          PROVE  ~IsOpen(q.trade)' /\ (HasBooked(q)' \/ lot'[q.key] = q.trade \/ NoneOpen(q.key)')
      <4>1. /\ q \in Obligations /\ ~IsOpen(q.trade) /\ q.key \in Keys /\ q.trade \in DOMAIN journal
            /\ HasBooked(q) \/ lot[q.key] = q.trade \/ NoneOpen(q.key)
        BY <1>1, <1>o, <3>1
           DEF EngineInv, ExitsOwed, ExitsFindTheirLot, Keyed, ObligationsAreOwn, IsKeyed, WorldFacts
      <4>2. (HasBooked(q) => HasBooked(q)') /\ (NoneOpen(q.key) => NoneOpen(q.key)') /\ ~IsOpen(q.trade)'
        BY <1>2, <1>b, <4>1 DEF HasBooked, NoneOpen, IsOpen
      <4>3. CASE lot[q.key] = q.trade /\ q.key = p.key
        BY <1>1, <1>b, <1>k, <4>1, <4>3 DEF WorldFacts, Book!OpenKinds, Book!CloseKinds
      <4> QED
        BY <1>b, <4>1, <4>2, <4>3
    <3> QED
      BY <3>1 DEF ExitsFindTheirLot
  <2>3. FlipsFindTheirLot'
    BY <1>2, <1>b, <1>k DEF ExitsOwed, FlipsFindTheirLot, EngineInv
  <2> QED
    BY <2>1, <2>2, <2>3 DEF ExitsOwed
<1>15. ResetIsWhole'
  BY <1>2, <1>b, <1>k DEF ResetIsWhole, EngineInv
<1>16. Enabled'
  BY <1>2, <1>b, <1>k
     DEF Enabled, DiskEnables, MemoryEnables, PassIsEnabled, InConfig, ConfigStages, Retried,
         RetryStages, StoreFacts, EngineInv
<1> QED
  BY <1>6, <1>7, <1>8, <1>10, <1>11, <1>12, <1>13, <1>14, <1>15, <1>16 DEF EngineInv, TypeOK

\* The booked entry is cleared, or its clearing is not saved.
LEMMA EntryResolvesKeeps ==
    ASSUME EngineInv, EntryResolves PROVE EngineInv'
<1>1. /\ WorldFacts /\ StoreFacts(store) /\ StoreFacts(disk) /\ OpFacts
      /\ WorldTypeOK /\ StoreTypeOK /\ OpTypeOK
  BY WorldTyped, StoreTyped, OpTyped DEF EngineInv, TypeOK, StoreTypeOK
<1>2. /\ op.at = "entered"
      /\ op'.at = "record"
      /\ op'.key = op.key /\ op'.bars = op.bars
      /\ op'.sync = op.sync
      /\ op'.st = op.st
      /\ UNCHANGED journal
      /\ UNCHANGED <<booked, lot, gen>>
      /\ UNCHANGED <<market, scenario>>
  BY <1>1 DEF EntryResolves, Recorded, book, env, OpFacts, InConfig, ConfigOps, ConfigStages
<1> DEFINE new == Settling(EntryLeg(op.st))
<1>3. Save(new)
  BY DEF EntryResolves
<1>4. /\ new \in Stores /\ new.held = store.held /\ new.enabled = store.enabled
      /\ OwedIn(new) \subseteq OwedIn(store)
  BY SettlingOwes DEF EngineInv, TypeOK, StoreTypeOK
<1> HIDE DEF new
<1>5. /\ store' \in {store, new} /\ disk' \in {disk, new} /\ dirty' \in BOOLEAN
      /\ store' = new => disk' = new \/ store' = store
      /\ ~dirty' => store' = new /\ disk' = new
  BY <1>3, SaveDoes
<1>6. WorldTypeOK'
  BY <1>1, <1>2 DEF WorldTypeOK
<1>7. StoreTypeOK'
  BY <1>1, <1>2, <1>4, <1>5 DEF StoreTypeOK
<1>8. OpTypeOK'
  <2>1. op' \in ConfigOps
    BY <1>1, <1>2 DEF EntryResolves, Recorded, OpFacts, InConfig, ConfigOps, ConfigStages
  <2> QED
    BY <2>1 DEF OpTypeOK
<1>9. WorldFacts' /\ StoreFacts(store') /\ StoreFacts(disk') /\ OpFacts'
  BY <1>6, <1>7, <1>8, TypedAfter
<1>o. Obligations' \subseteq Obligations
  BY <1>1, <1>2, <1>4, <1>5 DEF Obligations, Retried, RetryStages, ConfigStages
<1>10. Keyed'
  BY <1>2, <1>4, <1>5, <1>o
     DEF Keyed, HoldingsAreOwn, ObligationsAreOwn, WorkIsOwn, Owns, IsKeyed, InConfig, ConfigStages,
         EngineInv
<1>11. Durable'
  BY <1>2, <1>5 DEF Durable, DurableStages, EngineInv
<1>12. Agreement'
  BY <1>2, <1>4, <1>5
     DEF Agreement, AwaitingAgrees, DecidingAgrees, CaughtUpAgrees, MovingAgrees, ActingAgrees,
         OpeningIsFlat, ExitingAgrees, Settled, Awaits, InConfig, ConfigStages, EngineInv
<1>13. Booked'
  BY <1>2 DEF Booked, EntriesStand, ExitsFollow, HasExit, IsOpen, EngineInv
<1>14. ExitsOwed'
  BY <1>2, <1>o
     DEF ExitsOwed, OneExitOwed, ExitsFindTheirLot, FlipsFindTheirLot, HasBooked, NoneOpen, IsOpen,
         EngineInv
<1>15. ResetIsWhole'
  BY <1>2 DEF ResetIsWhole, EngineInv
<1>16. Enabled'
  BY <1>2, <1>4, <1>5
     DEF Enabled, DiskEnables, MemoryEnables, PassIsEnabled, InConfig, ConfigStages, Retried,
         RetryStages, StoreFacts, EngineInv
<1> QED
  BY <1>6, <1>7, <1>8, <1>10, <1>11, <1>12, <1>13, <1>14, <1>15, <1>16 DEF EngineInv, TypeOK

\* A refused entry stays owed, for the next pass to retry.
LEMMA EntryRefusedKeeps ==
    ASSUME EngineInv, EntryRefused PROVE EngineInv'
<1>1. /\ WorldFacts /\ StoreFacts(store) /\ StoreFacts(disk) /\ OpFacts
      /\ WorldTypeOK /\ StoreTypeOK /\ OpTypeOK
  BY WorldTyped, StoreTyped, OpTyped DEF EngineInv, TypeOK, StoreTypeOK
<1>2. /\ op.at = "entry"
      /\ op'.at = "record"
      /\ op'.key = op.key /\ op'.bars = op.bars
      /\ op'.sync = op.sync
      /\ op'.st = op.st
      /\ UNCHANGED journal
      /\ UNCHANGED <<booked, lot, gen>>
      /\ UNCHANGED <<market, scenario>>
  BY <1>1 DEF EntryRefused, Recorded, book, env, OpFacts, InConfig, ConfigOps, ConfigStages
<1> DEFINE p == EntryLeg(op.st)
<1>p. /\ p = EntryLeg(op.st) /\ p \in Legs /\ IsKeyed(p) /\ p.key = op.key /\ p.trade = op.st
      /\ p.trade # NoTrade
      /\ p.kind \in Book!OpenKinds /\ p.kind \notin Book!CloseKinds /\ op.key \in Keys
      /\ op.key \in store.enabled /\ disk = store
  <2>1. op.key \in Keys /\ op.st # NoTrade /\ Owns(op.key, op.st) /\ op.key \in store.enabled /\ disk = store
    BY <1>1, <1>2
       DEF EngineInv, Keyed, WorkIsOwn, InConfig, ConfigStages, OpFacts, CatchesUp, Enabled,
           PassIsEnabled,
       Durable, DurableStages
  <2>2. p \in Legs /\ p.key = op.key /\ p.trade = op.st /\ p.kind \in Book!OpenKinds
    BY <1>1, <2>1 DEF EntryLeg, Owns, WorldFacts, Kinds, Legs
  <2>3. p.kind \notin Book!CloseKinds
    BY <2>2 DEF Book!OpenKinds, Book!CloseKinds
  <2> HIDE DEF p
  <2> QED
    BY <2>1, <2>2, <2>3 DEF IsKeyed, Owns, p
<1> HIDE DEF p
<1> DEFINE new == Owing(p)
<1>3. Save(new)
  BY <1>p DEF EntryRefused
<1>4. /\ new \in Stores /\ new.held = store.held /\ new.enabled = store.enabled
      /\ OwedIn(new) = OwedIn(store) \cup {p}
  BY <1>1, <1>p, OwingOwes DEF StoreTypeOK
<1> HIDE DEF new
<1>5. /\ store' \in {store, new} /\ disk' \in {disk, new} /\ dirty' \in BOOLEAN
      /\ store' = new => disk' = new \/ store' = store
      /\ ~dirty' => store' = new /\ disk' = new
  BY <1>3, SaveDoes
<1>6. WorldTypeOK'
  BY <1>1, <1>2 DEF WorldTypeOK
<1>7. StoreTypeOK'
  BY <1>1, <1>2, <1>4, <1>5 DEF StoreTypeOK
<1>8. OpTypeOK'
  <2>1. op' \in ConfigOps
    BY <1>1, <1>2 DEF EntryRefused, Recorded, OpFacts, InConfig, ConfigOps, ConfigStages
  <2> QED
    BY <2>1 DEF OpTypeOK
<1>9. WorldFacts' /\ StoreFacts(store') /\ StoreFacts(disk') /\ OpFacts'
  BY <1>6, <1>7, <1>8, TypedAfter
<1>o. Obligations' \subseteq Obligations \cup {p}
  BY <1>2, <1>4, <1>5 DEF Obligations, Retried, RetryStages, ConfigStages
<1>10. Keyed'
  BY <1>2, <1>p, <1>4, <1>5, <1>o
     DEF Keyed, HoldingsAreOwn, ObligationsAreOwn, WorkIsOwn, Owns, IsKeyed, InConfig, ConfigStages,
         EngineInv
<1>11. Durable'
  BY <1>2, <1>p, <1>5 DEF Durable, DurableStages, EngineInv
<1>12. Agreement'
  <2>1. AwaitingAgrees'
    BY <1>2, <1>p, <1>4, <1>5
       DEF Agreement, AwaitingAgrees, Settled, Awaits, InConfig, ConfigStages, EngineInv
  <2>2. DecidingAgrees'
    BY <1>2 DEF DecidingAgrees
  <2>3. CaughtUpAgrees'
    BY <1>2, <1>p DEF Agreement, CaughtUpAgrees, EngineInv
  <2>4. MovingAgrees'
    BY <1>2, <1>p DEF Agreement, MovingAgrees, EngineInv
  <2>5. ActingAgrees'
    BY <1>2, <1>p DEF Agreement, ActingAgrees, EngineInv
  <2>6. OpeningIsFlat'
    BY <1>2, <1>p DEF Agreement, OpeningIsFlat, EngineInv
  <2>7. ExitingAgrees'
    BY <1>2, <1>p DEF Agreement, ExitingAgrees, EngineInv
  <2> QED
    BY <2>1, <2>2, <2>3, <2>4, <2>5, <2>6, <2>7 DEF Agreement
<1>13. Booked'
  BY <1>2, <1>p DEF Booked, EntriesStand, ExitsFollow, HasExit, IsOpen, EngineInv
<1>14. ExitsOwed'
  BY <1>2, <1>p, <1>o
     DEF ExitsOwed, OneExitOwed, ExitsFindTheirLot, FlipsFindTheirLot, HasBooked, NoneOpen, IsOpen,
         EngineInv
<1>15. ResetIsWhole'
  BY <1>2, <1>p DEF ResetIsWhole, EngineInv
<1>16. Enabled'
  BY <1>2, <1>p, <1>4, <1>5
     DEF Enabled, DiskEnables, MemoryEnables, PassIsEnabled, InConfig, ConfigStages, Retried,
         RetryStages, StoreFacts, EngineInv
<1> QED
  BY <1>6, <1>7, <1>8, <1>10, <1>11, <1>12, <1>13, <1>14, <1>15, <1>16 DEF EngineInv, TypeOK

\* The bar is recorded as seen: the last save of a config's decision.
LEMMA RecordKeeps ==
    ASSUME EngineInv, Record PROVE EngineInv'
<1>1. /\ WorldFacts /\ StoreFacts(store) /\ StoreFacts(disk) /\ OpFacts
      /\ WorldTypeOK /\ StoreTypeOK /\ OpTypeOK
  BY WorldTyped, StoreTyped, OpTyped DEF EngineInv, TypeOK, StoreTypeOK
<1>2. /\ op.at = "record"
      /\ op'.at = "decide"
      /\ op'.sync = op.sync
      /\ \A k \in Keys : op'.bars[k] = IF k = op.key THEN 0 ELSE op.bars[k]
      /\ UNCHANGED journal
      /\ UNCHANGED <<booked, lot, gen>>
      /\ UNCHANGED <<market, scenario>>
  <2>1. /\ op.at = "record" /\ UNCHANGED <<journal, booked, lot, gen, market, scenario>>
        /\ op' = [at |-> "decide", sync |-> op.sync, bars |-> [op.bars EXCEPT ![op.key] = 0]]
    BY DEF Record, book, env
  <2>2. op.key \in Keys /\ op.bars \in [Keys -> Nat]
    BY <1>1, <2>1 DEF OpFacts, InConfig, ConfigStages
  <2> QED
    BY <2>1, <2>2
<1> DEFINE new == [store EXCEPT !.held[op.key] = op.st, !.cursor[op.key] = IF op.adv THEN op.bars[op.key] ELSE @]
<1>3. Save(new)
  BY DEF Record
<1>4. /\ new \in Stores /\ OwedIn(new) = OwedIn(store) /\ new.enabled = store.enabled
      /\ \A j \in Keys : new.held[j] = IF j = op.key THEN op.st ELSE store.held[j]
  <2>1. op.key \in Keys /\ op.st \in Nat /\ op.bars[op.key] \in Nat
    BY <1>1, <1>2 DEF OpFacts, InConfig, ConfigStages
  <2>2. store \in Stores
    BY <1>1 DEF StoreTypeOK
  <2> QED
    BY <2>1, <2>2 DEF Stores, OwedIn
<1> HIDE DEF new
<1>5. /\ store' \in {store, new} /\ disk' \in {disk, new} /\ dirty' \in BOOLEAN
      /\ store' = new => disk' = new \/ store' = store
      /\ ~dirty' => store' = new /\ disk' = new
  BY <1>3, SaveDoes
<1>6. WorldTypeOK'
  BY <1>1, <1>2 DEF WorldTypeOK
<1>7. StoreTypeOK'
  BY <1>1, <1>2, <1>4, <1>5 DEF StoreTypeOK
<1>8. OpTypeOK'
  <2>1. op' \in DecideOps
    <3>1. op.key \in Keys /\ op.bars \in [Keys -> Nat] /\ op.sync \in [Keys -> Verdicts]
      BY <1>1, <1>2 DEF OpFacts, InConfig, ConfigStages
    <3> DEFINE bars == [op.bars EXCEPT ![op.key] = 0]
    <3>2. bars \in [Keys -> Nat]
      BY <3>1
    <3>3. op' = [at |-> "decide", sync |-> op.sync, bars |-> bars]
      BY DEF Record
    <3> HIDE DEF bars
    <3> QED
      BY <3>1, <3>2, <3>3 DEF DecideOps
  <2> QED
    BY <2>1 DEF OpTypeOK
<1>9. WorldFacts' /\ StoreFacts(store') /\ StoreFacts(disk') /\ OpFacts'
  BY <1>6, <1>7, <1>8, TypedAfter
<1>o. Obligations' \subseteq Obligations
  BY <1>1, <1>2, <1>4, <1>5 DEF Obligations, Retried, RetryStages, ConfigStages
<1>10. Keyed'
  <2>1. HoldingsAreOwn'
    BY <1>2, <1>4, <1>5
       DEF Keyed, HoldingsAreOwn, ObligationsAreOwn, WorkIsOwn, Owns, IsKeyed, InConfig,
           ConfigStages, EngineInv
  <2>2. ObligationsAreOwn'
    BY <1>2, <1>o DEF Keyed, ObligationsAreOwn, Owns, IsKeyed, EngineInv
  <2>3. WorkIsOwn'
    BY <1>2 DEF Keyed, WorkIsOwn, InConfig, ConfigStages, EngineInv
  <2> QED
    BY <2>1, <2>2, <2>3 DEF Keyed
<1>11. Durable'
  BY <1>2, <1>5 DEF Durable, DurableStages, EngineInv
<1>12. Agreement'
  BY <1>2, <1>4, <1>5
     DEF Agreement, AwaitingAgrees, DecidingAgrees, CaughtUpAgrees, MovingAgrees, ActingAgrees,
         OpeningIsFlat, ExitingAgrees, Settled, Awaits, InConfig, ConfigStages, EngineInv
<1>13. Booked'
  BY <1>2 DEF Booked, EntriesStand, ExitsFollow, HasExit, IsOpen, EngineInv
<1>14. ExitsOwed'
  BY <1>2, <1>o
     DEF ExitsOwed, OneExitOwed, ExitsFindTheirLot, FlipsFindTheirLot, HasBooked, NoneOpen, IsOpen,
         EngineInv
<1>15. ResetIsWhole'
  BY <1>2 DEF ResetIsWhole, EngineInv
<1>16. Enabled'
  BY <1>2, <1>4, <1>5
     DEF Enabled, DiskEnables, MemoryEnables, PassIsEnabled, InConfig, ConfigStages, Retried,
         RetryStages, StoreFacts, EngineInv
<1> QED
  BY <1>6, <1>7, <1>8, <1>10, <1>11, <1>12, <1>13, <1>14, <1>15, <1>16 DEF EngineInv, TypeOK

\* The pass ends.
LEMMA EndTickKeeps ==
    ASSUME EngineInv, EndTick PROVE EngineInv'
<1>1. /\ WorldFacts /\ StoreFacts(store) /\ StoreFacts(disk) /\ OpFacts
      /\ WorldTypeOK /\ StoreTypeOK /\ OpTypeOK
  BY WorldTyped, StoreTyped, OpTyped DEF EngineInv, TypeOK, StoreTypeOK
<1>2. /\ op.at = "decide"
      /\ op'.at = "idle"
      /\ op' = Idle
      /\ UNCHANGED journal
      /\ UNCHANGED <<booked, lot, gen>>
      /\ UNCHANGED <<store, disk, dirty>>
      /\ UNCHANGED <<market, scenario>>
  BY <1>1 DEF EndTick, Idle, book, env, OpFacts, InConfig
<1>6. WorldTypeOK'
  BY <1>1, <1>2 DEF WorldTypeOK
<1>7. StoreTypeOK'
  BY <1>1, <1>2 DEF StoreTypeOK
<1>8. OpTypeOK'
  BY <1>1, <1>2 DEF OpTypeOK
<1>9. WorldFacts' /\ StoreFacts(store') /\ StoreFacts(disk') /\ OpFacts'
  BY <1>6, <1>7, <1>8, TypedAfter
<1>o. Obligations' \subseteq Obligations
  BY <1>1, <1>2 DEF Obligations, Retried, RetryStages, ConfigStages
<1>10. Keyed'
  BY <1>2, <1>o
     DEF Keyed, HoldingsAreOwn, ObligationsAreOwn, WorkIsOwn, Owns, IsKeyed, InConfig, ConfigStages,
         EngineInv
<1>11. Durable'
  BY <1>2 DEF Durable, DurableStages, EngineInv
<1>12. Agreement'
  BY <1>2
     DEF Agreement, AwaitingAgrees, DecidingAgrees, CaughtUpAgrees, MovingAgrees, ActingAgrees,
         OpeningIsFlat, ExitingAgrees, Settled, Awaits, InConfig, ConfigStages, EngineInv
<1>13. Booked'
  BY <1>2 DEF Booked, EntriesStand, ExitsFollow, HasExit, IsOpen, EngineInv
<1>14. ExitsOwed'
  BY <1>2, <1>o
     DEF ExitsOwed, OneExitOwed, ExitsFindTheirLot, FlipsFindTheirLot, HasBooked, NoneOpen, IsOpen,
         EngineInv
<1>15. ResetIsWhole'
  BY <1>2 DEF ResetIsWhole, EngineInv
<1>16. Enabled'
  BY <1>2
     DEF Enabled, DiskEnables, MemoryEnables, PassIsEnabled, InConfig, ConfigStages, Retried,
         RetryStages, StoreFacts, EngineInv
<1> QED
  BY <1>6, <1>7, <1>8, <1>10, <1>11, <1>12, <1>13, <1>14, <1>15, <1>16 DEF EngineInv, TypeOK

\* A reset starts with every trade that is not deleted still to delete.
LEMMA BeginResetKeeps ==
    ASSUME EngineInv, BeginReset PROVE EngineInv'
<1>1. /\ WorldFacts /\ StoreFacts(store) /\ StoreFacts(disk) /\ OpFacts
      /\ WorldTypeOK /\ StoreTypeOK /\ OpTypeOK
  BY WorldTyped, StoreTyped, OpTyped DEF EngineInv, TypeOK, StoreTypeOK
<1>2. /\ op.at = "idle"
      /\ op'.at = "reset"
      /\ op'.left = {t \in DOMAIN journal : journal[t].status # "deleted"}
      /\ UNCHANGED journal
      /\ UNCHANGED <<booked, lot, gen>>
      /\ UNCHANGED <<store, disk, dirty>>
      /\ UNCHANGED <<market, scenario>>
  BY <1>1 DEF BeginReset, Idle, book, env, OpFacts, InConfig, ResetOps, ResetStages
<1>6. WorldTypeOK'
  BY <1>1, <1>2 DEF WorldTypeOK
<1>7. StoreTypeOK'
  BY <1>1, <1>2 DEF StoreTypeOK
<1>8. OpTypeOK'
  <2>1. op' \in ResetOps
    BY <1>1, <1>2 DEF BeginReset, Idle, OpFacts, InConfig, ResetOps, ResetStages
  <2> QED
    BY <2>1 DEF OpTypeOK
<1>9. WorldFacts' /\ StoreFacts(store') /\ StoreFacts(disk') /\ OpFacts'
  BY <1>6, <1>7, <1>8, TypedAfter
<1>o. Obligations' \subseteq Obligations
  BY <1>1, <1>2 DEF Obligations, Retried, RetryStages, ConfigStages
<1>10. Keyed'
  BY <1>2, <1>o
     DEF Keyed, HoldingsAreOwn, ObligationsAreOwn, WorkIsOwn, Owns, IsKeyed, InConfig, ConfigStages,
         EngineInv
<1>11. Durable'
  BY <1>2 DEF Durable, DurableStages, EngineInv
<1>12. Agreement'
  BY <1>2
     DEF Agreement, AwaitingAgrees, DecidingAgrees, CaughtUpAgrees, MovingAgrees, ActingAgrees,
         OpeningIsFlat, ExitingAgrees, Settled, Awaits, InConfig, ConfigStages, EngineInv
<1>13. Booked'
  BY <1>2 DEF Booked, EntriesStand, ExitsFollow, HasExit, IsOpen, EngineInv
<1>14. ExitsOwed'
  BY <1>2, <1>o
     DEF ExitsOwed, OneExitOwed, ExitsFindTheirLot, FlipsFindTheirLot, HasBooked, NoneOpen, IsOpen,
         EngineInv
<1>15. ResetIsWhole'
  BY <1>2 DEF ResetIsWhole, EngineInv
<1>16. Enabled'
  BY <1>2
     DEF Enabled, DiskEnables, MemoryEnables, PassIsEnabled, InConfig, ConfigStages, Retried,
         RetryStages, StoreFacts, EngineInv
<1> QED
  BY <1>6, <1>7, <1>8, <1>10, <1>11, <1>12, <1>13, <1>14, <1>15, <1>16 DEF EngineInv, TypeOK

\* A reset deletes one trade, or marks itself failed and keeps it.
LEMMA ResetDeletesKeeps ==
    ASSUME EngineInv, NEW t \in DOMAIN journal, ResetDeletes(t) PROVE EngineInv'
<1>1. /\ WorldFacts /\ StoreFacts(store) /\ StoreFacts(disk) /\ OpFacts
      /\ WorldTypeOK /\ StoreTypeOK /\ OpTypeOK
  BY WorldTyped, StoreTyped, OpTyped DEF EngineInv, TypeOK, StoreTypeOK
<1>2. /\ op.at = "reset"
      /\ op'.at = "reset"
      /\ op'.left = op.left \ {t}
      /\ (journal' = [journal EXCEPT ![t].status = "deleted"] /\ (~op'.failed => ~op.failed)) \/ (journal' = journal /\ op'.failed)
      /\ UNCHANGED <<booked, lot, gen>>
      /\ UNCHANGED <<store, disk, dirty>>
      /\ UNCHANGED <<market, scenario>>
  <2>1. /\ op.at = "reset" /\ UNCHANGED <<booked, lot, gen, store, disk, dirty, market, scenario>>
        /\ \/ journal' = [journal EXCEPT ![t].status = "deleted"] /\ op' = [op EXCEPT !.left = @ \ {t}]
           \/ journal' = journal /\ op' = [op EXCEPT !.left = @ \ {t}, !.failed = TRUE]
    BY DEF ResetDeletes, book, env
  <2>2. op \in ResetOps
    BY <1>1, <2>1 DEF OpFacts, ResetStages
  <2>3. CASE journal' = [journal EXCEPT ![t].status = "deleted"] /\ op' = [op EXCEPT !.left = @ \ {t}]
    BY <2>1, <2>2, <2>3 DEF ResetOps
  <2>4. CASE journal' = journal /\ op' = [op EXCEPT !.left = @ \ {t}, !.failed = TRUE]
    BY <2>1, <2>2, <2>4 DEF ResetOps
  <2> QED
    BY <2>1, <2>3, <2>4
<1>a. /\ journal' \in Seq(Records) /\ DOMAIN journal' = DOMAIN journal
      /\ \A u \in DOMAIN journal :
            /\ journal'[u].key = journal[u].key /\ journal'[u].kind = journal[u].kind
            /\ u # t => journal'[u].status = journal[u].status
            /\ journal'[u].status \in {journal[u].status, "deleted"}
            /\ u = t /\ ~op'.failed => journal'[u].status = "deleted"
  <2>1. CASE journal' = [journal EXCEPT ![t].status = "deleted"] /\ (~op'.failed => ~op.failed)
    <3>1. /\ journal' \in Seq(Records) /\ DOMAIN journal' = DOMAIN journal
          /\ \A u \in DOMAIN journal :
                /\ journal'[u].key = journal[u].key /\ journal'[u].kind = journal[u].kind
                /\ journal'[u].status = IF u = t THEN "deleted" ELSE journal[u].status
      BY <1>1, <2>1, StatusIsSet
    <3> QED
      BY <3>1
  <2>2. CASE journal' = journal /\ op'.failed
    BY <1>1, <2>2 DEF WorldTypeOK
  <2> QED
    BY <1>2, <2>1, <2>2
<1>6. WorldTypeOK'
  BY <1>1, <1>2, <1>a DEF WorldTypeOK
<1>7. StoreTypeOK'
  BY <1>1, <1>2 DEF StoreTypeOK
<1>8. OpTypeOK'
  <2>1. op' \in ResetOps
    BY <1>1, <1>2 DEF ResetDeletes, OpFacts, InConfig, ResetOps, ResetStages
  <2> QED
    BY <2>1 DEF OpTypeOK
<1>9. WorldFacts' /\ StoreFacts(store') /\ StoreFacts(disk') /\ OpFacts'
  BY <1>6, <1>7, <1>8, TypedAfter
<1>o. Obligations' \subseteq Obligations
  BY <1>1, <1>2 DEF Obligations, Retried, RetryStages, ConfigStages
<1>c. /\ op.at = "reset" /\ op'.at = "reset" /\ UNCHANGED <<booked, lot, store, disk, dirty>>
      /\ op'.left = op.left \ {t} /\ (~op'.failed => ~op.failed)
  BY <1>2
<1>10. Keyed'
  <2>1. HoldingsAreOwn'
    BY <1>a, <1>c DEF Keyed, HoldingsAreOwn, Owns, IsKeyed, EngineInv
  <2>2. ObligationsAreOwn'
    BY <1>a, <1>c, <1>o DEF Keyed, ObligationsAreOwn, Owns, IsKeyed, EngineInv
  <2>3. WorkIsOwn'
    BY <1>a, <1>c DEF Keyed, WorkIsOwn, InConfig, ConfigStages, EngineInv
  <2> QED
    BY <2>1, <2>2, <2>3 DEF Keyed
<1>11. Durable'
  BY <1>a, <1>c DEF Durable, DurableStages, EngineInv
<1>12. Agreement'
  BY <1>a, <1>c
     DEF Agreement, AwaitingAgrees, DecidingAgrees, CaughtUpAgrees, MovingAgrees, ActingAgrees,
         OpeningIsFlat, ExitingAgrees, Settled, Awaits, InConfig, ConfigStages, EngineInv
<1>13. Booked'
  <2>1. EntriesStand'
    <3>1. \A u \in DOMAIN journal : HasExit(u)' <=> HasExit(u)
      BY <1>c DEF HasExit
    <3> QED
      BY <1>a, <1>c, <3>1 DEF EntriesStand, EngineInv, Booked
  <2>2. ExitsFollow'
    BY <1>a, <1>c DEF Booked, ExitsFollow, HasExit, IsOpen, EngineInv
  <2> QED
    BY <2>1, <2>2 DEF Booked
<1>14. ExitsOwed'
  <2>1. OneExitOwed'
    BY <1>a, <1>c, <1>o DEF ExitsOwed, OneExitOwed, EngineInv
  <2>2. ExitsFindTheirLot'
    <3>1. ASSUME NEW q \in Obligations', q.kind \in Book!CloseKinds
          PROVE  ~IsOpen(q.trade)' /\ (HasBooked(q)' \/ lot'[q.key] = q.trade \/ NoneOpen(q.key)')
      <4>1. /\ q \in Obligations /\ ~IsOpen(q.trade) /\ q.trade \in DOMAIN journal
            /\ HasBooked(q) \/ lot[q.key] = q.trade \/ NoneOpen(q.key)
        BY <1>o, <3>1 DEF EngineInv, ExitsOwed, ExitsFindTheirLot, Keyed, ObligationsAreOwn, IsKeyed
      <4>2. (HasBooked(q) => HasBooked(q)') /\ lot' = lot
        BY <1>c DEF HasBooked
      <4>3. \A u \in DOMAIN journal : ~IsOpen(u) => ~IsOpen(u)'
        BY <1>a DEF IsOpen
      <4>4. NoneOpen(q.key) => NoneOpen(q.key)'
        BY <1>a, <4>3 DEF NoneOpen
      <4> QED
        BY <4>1, <4>2, <4>3, <4>4
    <3> QED
      BY <3>1 DEF ExitsFindTheirLot
  <2>3. FlipsFindTheirLot'
    BY <1>a, <1>c DEF ExitsOwed, FlipsFindTheirLot, EngineInv
  <2> QED
    BY <2>1, <2>2, <2>3 DEF ExitsOwed
<1>15. ResetIsWhole'
  BY <1>a, <1>c DEF ResetIsWhole, EngineInv
<1>16. Enabled'
  BY <1>a, <1>c
     DEF Enabled, DiskEnables, MemoryEnables, PassIsEnabled, InConfig, ConfigStages, Retried,
         RetryStages, StoreFacts, EngineInv
<1> QED
  BY <1>6, <1>7, <1>8, <1>10, <1>11, <1>12, <1>13, <1>14, <1>15, <1>16 DEF EngineInv, TypeOK

\* The book is emptied only when every trade is deleted: no trade is left without its lot.
LEMMA ResetBookKeeps ==
    ASSUME EngineInv, ResetBook PROVE EngineInv'
<1>1. /\ WorldFacts /\ StoreFacts(store) /\ StoreFacts(disk) /\ OpFacts
      /\ WorldTypeOK /\ StoreTypeOK /\ OpTypeOK
  BY WorldTyped, StoreTyped, OpTyped DEF EngineInv, TypeOK, StoreTypeOK
<1>2. /\ op.at = "reset"
      /\ op'.at = "resetstore"
      /\ ~op.failed
      /\ op.left = {}
      /\ booked' = {}
      /\ lot' = [k \in Keys |-> NoTrade]
      /\ gen' = gen + 1
      /\ UNCHANGED journal
      /\ UNCHANGED <<store, disk, dirty>>
      /\ UNCHANGED <<market, scenario>>
  BY <1>1
     DEF ResetBook, GoTo, Book!NewGeneration, book, env, OpFacts, InConfig, ResetOps, ResetStages
<1>6. WorldTypeOK'
  BY <1>1, <1>2 DEF WorldTypeOK, NoTrade
<1>7. StoreTypeOK'
  BY <1>1, <1>2 DEF StoreTypeOK
<1>8. OpTypeOK'
  <2>1. op' \in ResetOps
    BY <1>1, <1>2 DEF ResetBook, GoTo, Book!NewGeneration, OpFacts, InConfig, ResetOps, ResetStages
  <2> QED
    BY <2>1 DEF OpTypeOK
<1>9. WorldFacts' /\ StoreFacts(store') /\ StoreFacts(disk') /\ OpFacts'
  BY <1>6, <1>7, <1>8, TypedAfter
<1>o. Obligations' \subseteq Obligations
  BY <1>1, <1>2 DEF Obligations, Retried, RetryStages, ConfigStages
<1>10. Keyed'
  BY <1>2, <1>o
     DEF Keyed, HoldingsAreOwn, ObligationsAreOwn, WorkIsOwn, Owns, IsKeyed, InConfig, ConfigStages,
         EngineInv
<1>11. Durable'
  BY <1>2 DEF Durable, DurableStages, EngineInv
<1>12. Agreement'
  BY <1>2
     DEF Agreement, AwaitingAgrees, DecidingAgrees, CaughtUpAgrees, MovingAgrees, ActingAgrees,
         OpeningIsFlat, ExitingAgrees, Settled, Awaits, InConfig, ConfigStages, EngineInv
<1>13. Booked'
  BY <1>2 DEF Booked, EntriesStand, ExitsFollow, HasExit, IsOpen, EngineInv
<1>14. ExitsOwed'
  BY <1>2, <1>o
     DEF ExitsOwed, OneExitOwed, ExitsFindTheirLot, FlipsFindTheirLot, NoneOpen, IsOpen, EngineInv,
         ResetIsWhole
<1>15. ResetIsWhole'
  BY <1>2 DEF ResetIsWhole, EngineInv
<1>16. Enabled'
  BY <1>2
     DEF Enabled, DiskEnables, MemoryEnables, PassIsEnabled, InConfig, ConfigStages, Retried,
         RetryStages, StoreFacts, EngineInv
<1> QED
  BY <1>6, <1>7, <1>8, <1>10, <1>11, <1>12, <1>13, <1>14, <1>15, <1>16 DEF EngineInv, TypeOK

\* A reset that failed leaves the book and the store alone.
LEMMA ResetAbortsKeeps ==
    ASSUME EngineInv, ResetAborts PROVE EngineInv'
<1>1. /\ WorldFacts /\ StoreFacts(store) /\ StoreFacts(disk) /\ OpFacts
      /\ WorldTypeOK /\ StoreTypeOK /\ OpTypeOK
  BY WorldTyped, StoreTyped, OpTyped DEF EngineInv, TypeOK, StoreTypeOK
<1>2. /\ op.at = "reset"
      /\ op'.at = "idle"
      /\ op' = Idle
      /\ UNCHANGED journal
      /\ UNCHANGED <<booked, lot, gen>>
      /\ UNCHANGED <<store, disk, dirty>>
      /\ UNCHANGED <<market, scenario>>
  BY <1>1 DEF ResetAborts, Idle, book, env, OpFacts, InConfig
<1>6. WorldTypeOK'
  BY <1>1, <1>2 DEF WorldTypeOK
<1>7. StoreTypeOK'
  BY <1>1, <1>2 DEF StoreTypeOK
<1>8. OpTypeOK'
  BY <1>1, <1>2 DEF OpTypeOK
<1>9. WorldFacts' /\ StoreFacts(store') /\ StoreFacts(disk') /\ OpFacts'
  BY <1>6, <1>7, <1>8, TypedAfter
<1>o. Obligations' \subseteq Obligations
  BY <1>1, <1>2 DEF Obligations, Retried, RetryStages, ConfigStages
<1>10. Keyed'
  BY <1>2, <1>o
     DEF Keyed, HoldingsAreOwn, ObligationsAreOwn, WorkIsOwn, Owns, IsKeyed, InConfig, ConfigStages,
         EngineInv
<1>11. Durable'
  BY <1>2 DEF Durable, DurableStages, EngineInv
<1>12. Agreement'
  BY <1>2
     DEF Agreement, AwaitingAgrees, DecidingAgrees, CaughtUpAgrees, MovingAgrees, ActingAgrees,
         OpeningIsFlat, ExitingAgrees, Settled, Awaits, InConfig, ConfigStages, EngineInv
<1>13. Booked'
  BY <1>2 DEF Booked, EntriesStand, ExitsFollow, HasExit, IsOpen, EngineInv
<1>14. ExitsOwed'
  BY <1>2, <1>o
     DEF ExitsOwed, OneExitOwed, ExitsFindTheirLot, FlipsFindTheirLot, HasBooked, NoneOpen, IsOpen,
         EngineInv
<1>15. ResetIsWhole'
  BY <1>2 DEF ResetIsWhole, EngineInv
<1>16. Enabled'
  BY <1>2
     DEF Enabled, DiskEnables, MemoryEnables, PassIsEnabled, InConfig, ConfigStages, Retried,
         RetryStages, StoreFacts, EngineInv
<1> QED
  BY <1>6, <1>7, <1>8, <1>10, <1>11, <1>12, <1>13, <1>14, <1>15, <1>16 DEF EngineInv, TypeOK

\* The store is emptied after the book.
LEMMA ResetStoreKeeps ==
    ASSUME EngineInv, ResetStore PROVE EngineInv'
<1>1. /\ WorldFacts /\ StoreFacts(store) /\ StoreFacts(disk) /\ OpFacts
      /\ WorldTypeOK /\ StoreTypeOK /\ OpTypeOK
  BY WorldTyped, StoreTyped, OpTyped DEF EngineInv, TypeOK, StoreTypeOK
<1>2. /\ op.at = "resetstore"
      /\ op'.at = "idle"
      /\ op' = Idle
      /\ UNCHANGED journal
      /\ UNCHANGED <<booked, lot, gen>>
      /\ UNCHANGED <<market, scenario>>
  BY <1>1 DEF ResetStore, Idle, book, env, OpFacts, InConfig
<1> DEFINE new == [Empty EXCEPT !.enabled = store.enabled]
<1>3. Save(new)
  BY DEF ResetStore
<1>4. /\ new \in Stores /\ OwedIn(new) = {} /\ new.enabled = store.enabled
      /\ \A j \in Keys : new.held[j] = NoTrade
  <2>1. store.enabled \subseteq Keys
    BY <1>1 DEF StoreFacts
  <2>2. <<>> \in Seq(Legs) /\ DOMAIN <<>> = {}
    BY EmptySeq
  <2> QED
    BY <2>1, <2>2 DEF Stores, OwedIn, Empty, NoTrade
<1> HIDE DEF new
<1>5. /\ store' \in {store, new} /\ disk' \in {disk, new} /\ dirty' \in BOOLEAN
      /\ store' = new => disk' = new \/ store' = store
      /\ ~dirty' => store' = new /\ disk' = new
  BY <1>3, SaveDoes
<1>6. WorldTypeOK'
  BY <1>1, <1>2 DEF WorldTypeOK
<1>7. StoreTypeOK'
  BY <1>1, <1>2, <1>4, <1>5 DEF StoreTypeOK
<1>8. OpTypeOK'
  BY <1>1, <1>2 DEF OpTypeOK
<1>9. WorldFacts' /\ StoreFacts(store') /\ StoreFacts(disk') /\ OpFacts'
  BY <1>6, <1>7, <1>8, TypedAfter
<1>o. Obligations' \subseteq Obligations
  BY <1>1, <1>2, <1>4, <1>5 DEF Obligations, Retried, RetryStages, ConfigStages
<1>10. Keyed'
  BY <1>2, <1>4, <1>5, <1>o
     DEF Keyed, HoldingsAreOwn, ObligationsAreOwn, WorkIsOwn, Owns, IsKeyed, InConfig, ConfigStages,
         EngineInv
<1>11. Durable'
  BY <1>2, <1>5 DEF Durable, DurableStages, EngineInv
<1>12. Agreement'
  BY <1>2
     DEF Agreement, AwaitingAgrees, DecidingAgrees, CaughtUpAgrees, MovingAgrees, ActingAgrees,
         OpeningIsFlat, ExitingAgrees, Settled, Awaits, InConfig, ConfigStages, EngineInv
<1>13. Booked'
  BY <1>2 DEF Booked, EntriesStand, ExitsFollow, HasExit, IsOpen, EngineInv
<1>14. ExitsOwed'
  BY <1>2, <1>o
     DEF ExitsOwed, OneExitOwed, ExitsFindTheirLot, FlipsFindTheirLot, HasBooked, NoneOpen, IsOpen,
         EngineInv
<1>15. ResetIsWhole'
  BY <1>2 DEF ResetIsWhole, EngineInv
<1>16. Enabled'
  BY <1>2, <1>4, <1>5
     DEF Enabled, DiskEnables, MemoryEnables, PassIsEnabled, InConfig, ConfigStages, Retried,
         RetryStages, StoreFacts, EngineInv
<1> QED
  BY <1>6, <1>7, <1>8, <1>10, <1>11, <1>12, <1>13, <1>14, <1>15, <1>16 DEF EngineInv, TypeOK

\* The operator changes the configs: one that holds or owes anything stays enabled.
LEMMA SetConfigsKeeps ==
    ASSUME EngineInv, NEW chosen \in SUBSET Keys, SetConfigs(chosen) PROVE EngineInv'
<1>1. /\ WorldFacts /\ StoreFacts(store) /\ StoreFacts(disk) /\ OpFacts
      /\ WorldTypeOK /\ StoreTypeOK /\ OpTypeOK
  BY WorldTyped, StoreTyped, OpTyped DEF EngineInv, TypeOK, StoreTypeOK
<1>2. /\ op.at = "idle"
      /\ op' = op
      /\ \A k \in store.enabled \ chosen : ~HoldsSomething(k)
      /\ UNCHANGED journal
      /\ UNCHANGED <<booked, lot, gen>>
      /\ UNCHANGED <<market, scenario>>
  BY <1>1 DEF SetConfigs, Idle, book, env, OpFacts, InConfig
<1> DEFINE new == [store EXCEPT !.enabled = chosen]
<1>3. Save(new)
  BY DEF SetConfigs
<1>4. /\ new \in Stores /\ OwedIn(new) = OwedIn(store) /\ new.enabled \subseteq Keys
      /\ new.held = store.held
      /\ \A k \in store.enabled \ new.enabled :
            store.held[k] = NoTrade /\ lot[k] = NoTrade /\ \A p \in OwedIn(store) : p.key # k
  <2>1. store \in Stores
    BY <1>1 DEF StoreTypeOK
  <2>2. new \in Stores /\ new.owed = store.owed /\ new.enabled = chosen /\ new.held = store.held
    BY <2>1 DEF Stores
  <2> QED
    BY <1>2, <2>2, OwedForNone DEF OwedIn, HoldsSomething
<1> HIDE DEF new
<1>5. /\ store' \in {store, new} /\ disk' \in {disk, new} /\ dirty' \in BOOLEAN
      /\ store' = new => disk' = new \/ store' = store
      /\ ~dirty' => store' = new /\ disk' = new
  BY <1>3, SaveDoes
<1>6. WorldTypeOK'
  BY <1>1, <1>2 DEF WorldTypeOK
<1>7. StoreTypeOK'
  BY <1>1, <1>2, <1>4, <1>5 DEF StoreTypeOK
<1>8. OpTypeOK'
  BY <1>1, <1>2 DEF OpTypeOK
<1>9. WorldFacts' /\ StoreFacts(store') /\ StoreFacts(disk') /\ OpFacts'
  BY <1>6, <1>7, <1>8, TypedAfter
<1>o. Obligations' \subseteq Obligations
  BY <1>1, <1>2, <1>4, <1>5 DEF Obligations, Retried, RetryStages, ConfigStages
<1>10. Keyed'
  BY <1>2, <1>4, <1>5, <1>o
     DEF Keyed, HoldingsAreOwn, ObligationsAreOwn, WorkIsOwn, Owns, IsKeyed, InConfig, ConfigStages,
         EngineInv
<1>11. Durable'
  BY <1>2, <1>5 DEF Durable, DurableStages, EngineInv
<1>12. Agreement'
  BY <1>2
     DEF Agreement, AwaitingAgrees, DecidingAgrees, CaughtUpAgrees, MovingAgrees, ActingAgrees,
         OpeningIsFlat, ExitingAgrees, Settled, Awaits, InConfig, ConfigStages, EngineInv
<1>13. Booked'
  BY <1>2 DEF Booked, EntriesStand, ExitsFollow, HasExit, IsOpen, EngineInv
<1>14. ExitsOwed'
  BY <1>2, <1>o
     DEF ExitsOwed, OneExitOwed, ExitsFindTheirLot, FlipsFindTheirLot, HasBooked, NoneOpen, IsOpen,
         EngineInv
<1>15. ResetIsWhole'
  BY <1>2 DEF ResetIsWhole, EngineInv
<1>16. Enabled'
  BY <1>2, <1>4, <1>5
     DEF Enabled, DiskEnables, MemoryEnables, PassIsEnabled, InConfig, ConfigStages, Retried,
         RetryStages, StoreFacts, EngineInv
<1> QED
  BY <1>6, <1>7, <1>8, <1>10, <1>11, <1>12, <1>13, <1>14, <1>15, <1>16 DEF EngineInv, TypeOK

\* The market moves, and nothing else.
LEMMA NewBarKeeps ==
    ASSUME EngineInv, NEW k \in Keys, NewBar(k) PROVE EngineInv'
<1>1. /\ WorldFacts /\ StoreFacts(store) /\ StoreFacts(disk) /\ OpFacts
      /\ WorldTypeOK /\ StoreTypeOK /\ OpTypeOK
  BY WorldTyped, StoreTyped, OpTyped DEF EngineInv, TypeOK, StoreTypeOK
<1>2. /\ op' = op
      /\ UNCHANGED journal
      /\ UNCHANGED <<booked, lot, gen>>
      /\ UNCHANGED <<store, disk, dirty>>
      /\ scenario' = scenario
  BY <1>1 DEF NewBar, book, env, OpFacts, InConfig
<1>6. WorldTypeOK'
  <2>1. market' \in [Keys -> [bar : Nat, signal : Signals]]
    BY <1>1 DEF NewBar, WorldTypeOK
  <2> QED
    BY <1>1, <1>2, <2>1 DEF WorldTypeOK
<1>7. StoreTypeOK'
  BY <1>1, <1>2 DEF StoreTypeOK
<1>8. OpTypeOK'
  BY <1>1, <1>2 DEF OpTypeOK
<1>9. WorldFacts' /\ StoreFacts(store') /\ StoreFacts(disk') /\ OpFacts'
  BY <1>6, <1>7, <1>8, TypedAfter
<1>o. Obligations' \subseteq Obligations
  BY <1>1, <1>2 DEF Obligations, Retried, RetryStages, ConfigStages
<1>10. Keyed'
  BY <1>2, <1>o
     DEF Keyed, HoldingsAreOwn, ObligationsAreOwn, WorkIsOwn, Owns, IsKeyed, InConfig, ConfigStages,
         EngineInv
<1>11. Durable'
  BY <1>2 DEF Durable, DurableStages, EngineInv
<1>12. Agreement'
  <2>1. AwaitingAgrees'
    BY <1>2 DEF Agreement, AwaitingAgrees, Settled, Awaits, InConfig, ConfigStages, EngineInv
  <2>2. DecidingAgrees'
    BY <1>2
       DEF Agreement, DecidingAgrees, Settled, Awaits, CatchesUp, HasBooked, EntryLeg, EngineInv
  <2>3. CaughtUpAgrees'
    BY <1>2 DEF Agreement, CaughtUpAgrees, EngineInv
  <2>4. MovingAgrees'
    BY <1>2 DEF Agreement, MovingAgrees, Settled, Awaits, EngineInv
  <2>5. ActingAgrees'
    BY <1>2 DEF Agreement, ActingAgrees, Settled, Awaits, EngineInv
  <2>6. OpeningIsFlat'
    BY <1>2 DEF Agreement, OpeningIsFlat, EngineInv
  <2>7. ExitingAgrees'
    BY <1>2 DEF ExitingAgrees, Settled, IsOpen, EngineInv, Agreement
  <2> QED
    BY <2>1, <2>2, <2>3, <2>4, <2>5, <2>6, <2>7 DEF Agreement
<1>13. Booked'
  BY <1>2 DEF Booked, EntriesStand, ExitsFollow, HasExit, IsOpen, EngineInv
<1>14. ExitsOwed'
  BY <1>2, <1>o
     DEF ExitsOwed, OneExitOwed, ExitsFindTheirLot, FlipsFindTheirLot, HasBooked, NoneOpen, IsOpen,
         EngineInv
<1>15. ResetIsWhole'
  BY <1>2 DEF ResetIsWhole, EngineInv
<1>16. Enabled'
  BY <1>2
     DEF Enabled, DiskEnables, MemoryEnables, PassIsEnabled, InConfig, ConfigStages, Retried,
         RetryStages, StoreFacts, EngineInv
<1> QED
  BY <1>6, <1>7, <1>8, <1>10, <1>11, <1>12, <1>13, <1>14, <1>15, <1>16 DEF EngineInv, TypeOK

\* Someone else deletes an open trade: no trade is open that was not.
LEMMA TradeGoneKeeps ==
    ASSUME EngineInv, NEW t \in DOMAIN journal, TradeGone(t) PROVE EngineInv'
<1>1. /\ WorldFacts /\ StoreFacts(store) /\ StoreFacts(disk) /\ OpFacts
      /\ WorldTypeOK /\ StoreTypeOK /\ OpTypeOK
  BY WorldTyped, StoreTyped, OpTyped DEF EngineInv, TypeOK, StoreTypeOK
<1>2. /\ op' = op
      /\ IsOpen(t)
      /\ journal' = [journal EXCEPT ![t].status = "deleted"]
      /\ UNCHANGED <<booked, lot, gen>>
      /\ UNCHANGED <<store, disk, dirty>>
      /\ UNCHANGED <<market, scenario>>
  BY <1>1 DEF TradeGone, book, env, OpFacts, InConfig
<1>a. /\ journal' \in Seq(Records) /\ DOMAIN journal' = DOMAIN journal
      /\ \A u \in DOMAIN journal :
            /\ journal'[u].key = journal[u].key /\ journal'[u].kind = journal[u].kind
            /\ journal'[u].status = IF u = t THEN "deleted" ELSE journal[u].status
  BY <1>1, <1>2, StatusIsSet
<1>6. WorldTypeOK'
  BY <1>1, <1>2, <1>a DEF WorldTypeOK
<1>7. StoreTypeOK'
  BY <1>1, <1>2 DEF StoreTypeOK
<1>8. OpTypeOK'
  BY <1>1, <1>2 DEF OpTypeOK
<1>9. WorldFacts' /\ StoreFacts(store') /\ StoreFacts(disk') /\ OpFacts'
  BY <1>6, <1>7, <1>8, TypedAfter
<1>o. Obligations' \subseteq Obligations
  BY <1>1, <1>2 DEF Obligations, Retried, RetryStages, ConfigStages
<1>10. Keyed'
  BY <1>2, <1>a, <1>o
     DEF Keyed, HoldingsAreOwn, ObligationsAreOwn, WorkIsOwn, Owns, IsKeyed, InConfig, ConfigStages,
         EngineInv
<1>11. Durable'
  BY <1>2, <1>a DEF Durable, DurableStages, EngineInv
<1>12. Agreement'
  <2>1. AwaitingAgrees'
    BY <1>2, <1>a DEF Agreement, AwaitingAgrees, Settled, Awaits, InConfig, ConfigStages, EngineInv
  <2>2. DecidingAgrees'
    <3>1. \A u \in DOMAIN journal : EntryLeg(u)' = EntryLeg(u)
      BY <1>a DEF EntryLeg
    <3>2. InConfig /\ op.st # NoTrade => op.st \in DOMAIN journal
      BY <1>1 DEF EngineInv, Keyed, WorkIsOwn, Owns
    <3>3. op.at \in {"predict", "catchup"} /\ CatchesUp => CatchesUp'
      BY <1>2, <3>1, <3>2 DEF CatchesUp, HasBooked, InConfig, ConfigStages
    <3> QED
      BY <1>2, <3>3 DEF DecidingAgrees, Settled, EngineInv, Agreement
  <2>3. CaughtUpAgrees'
    BY <1>2, <1>a DEF Agreement, CaughtUpAgrees, EngineInv
  <2>4. MovingAgrees'
    BY <1>2, <1>a DEF Agreement, MovingAgrees, Settled, Awaits, EngineInv
  <2>5. ActingAgrees'
    BY <1>2, <1>a DEF Agreement, ActingAgrees, Settled, Awaits, EngineInv
  <2>6. OpeningIsFlat'
    BY <1>2, <1>a DEF Agreement, OpeningIsFlat, EngineInv
  <2>7. ExitingAgrees'
    BY <1>2, <1>a
       DEF ExitingAgrees, Settled, IsOpen, EngineInv, Agreement, Keyed, WorkIsOwn, Owns, InConfig,
           ConfigStages
  <2> QED
    BY <2>1, <2>2, <2>3, <2>4, <2>5, <2>6, <2>7 DEF Agreement
<1>13. Booked'
  <2>1. EntriesStand'
    <3>1. \A u \in DOMAIN journal : HasExit(u)' <=> HasExit(u)
      BY <1>2 DEF HasExit
    <3> QED
      BY <1>2, <1>a, <3>1 DEF EntriesStand, EngineInv, Booked
  <2>2. ExitsFollow'
    BY <1>2, <1>a DEF Booked, ExitsFollow, HasExit, IsOpen, EngineInv
  <2> QED
    BY <2>1, <2>2 DEF Booked
<1>14. ExitsOwed'
  BY <1>2, <1>a, <1>o
     DEF ExitsOwed, OneExitOwed, ExitsFindTheirLot, FlipsFindTheirLot, HasBooked, NoneOpen, IsOpen,
         EngineInv
<1>15. ResetIsWhole'
  BY <1>2, <1>a DEF ResetIsWhole, EngineInv
<1>16. Enabled'
  BY <1>2, <1>a
     DEF Enabled, DiskEnables, MemoryEnables, PassIsEnabled, InConfig, ConfigStages, Retried,
         RetryStages, StoreFacts, EngineInv
<1> QED
  BY <1>6, <1>7, <1>8, <1>10, <1>11, <1>12, <1>13, <1>14, <1>15, <1>16 DEF EngineInv, TypeOK

\* A crash forgets what is in memory only; what the disk owes and holds still is the config's own.
LEMMA CrashKeeps ==
    ASSUME EngineInv, Crash PROVE EngineInv'
<1>1. /\ WorldFacts /\ StoreFacts(store) /\ StoreFacts(disk) /\ OpFacts
      /\ WorldTypeOK /\ StoreTypeOK /\ OpTypeOK
  BY WorldTyped, StoreTyped, OpTyped DEF EngineInv, TypeOK, StoreTypeOK
<1>2. /\ op'.at = "down"
      /\ op' = Down
      /\ store' = Empty
      /\ disk' = disk
      /\ dirty' = FALSE
      /\ UNCHANGED journal
      /\ UNCHANGED <<booked, lot, gen>>
      /\ UNCHANGED <<market, scenario>>
  BY <1>1 DEF Crash, Down, book, env, OpFacts, InConfig
<1>6. WorldTypeOK'
  BY <1>1, <1>2 DEF WorldTypeOK
<1>7. StoreTypeOK'
  <2>1. <<>> \in Seq(Legs)
    BY EmptySeq
  <2>2. scenario.configs \subseteq Keys
    BY <1>1 DEF WorldFacts
  <2>3. Empty \in Stores
    BY <2>1, <2>2 DEF Empty, Stores, NoTrade
  <2> QED
    BY <1>1, <1>2, <2>3 DEF StoreTypeOK
<1>8. OpTypeOK'
  BY <1>1, <1>2 DEF OpTypeOK
<1>9. WorldFacts' /\ StoreFacts(store') /\ StoreFacts(disk') /\ OpFacts'
  BY <1>6, <1>7, <1>8, TypedAfter
<1>e. OwedIn(store') = {} /\ store'.enabled = scenario.configs /\ \A k \in Keys : store'.held[k] = NoTrade
  BY <1>2 DEF Empty, OwedIn
<1>o. Obligations' \subseteq Obligations
  BY <1>2, <1>e DEF Obligations, Retried, RetryStages
<1>10. Keyed'
  BY <1>2, <1>o, <1>e
     DEF Keyed, HoldingsAreOwn, ObligationsAreOwn, WorkIsOwn, Owns, IsKeyed, InConfig, ConfigStages,
         EngineInv
<1>11. Durable'
  BY <1>2, <1>e DEF Durable, DurableStages, EngineInv
<1>12. Agreement'
  BY <1>2, <1>e
     DEF Agreement, AwaitingAgrees, DecidingAgrees, CaughtUpAgrees, MovingAgrees, ActingAgrees,
         OpeningIsFlat, ExitingAgrees, Settled, Awaits, InConfig, ConfigStages, EngineInv
<1>13. Booked'
  BY <1>2, <1>e DEF Booked, EntriesStand, ExitsFollow, HasExit, IsOpen, EngineInv
<1>14. ExitsOwed'
  BY <1>2, <1>o, <1>e
     DEF ExitsOwed, OneExitOwed, ExitsFindTheirLot, FlipsFindTheirLot, HasBooked, NoneOpen, IsOpen,
         EngineInv
<1>15. ResetIsWhole'
  BY <1>2, <1>e DEF ResetIsWhole, EngineInv
<1>16. Enabled'
  BY <1>2, <1>e
     DEF Enabled, DiskEnables, MemoryEnables, PassIsEnabled, InConfig, ConfigStages, EngineInv
<1> QED
  BY <1>6, <1>7, <1>8, <1>10, <1>11, <1>12, <1>13, <1>14, <1>15, <1>16 DEF EngineInv, TypeOK

\* A restart reads the disk back.
LEMMA RestartKeeps ==
    ASSUME EngineInv, Restart PROVE EngineInv'
<1>1. /\ WorldFacts /\ StoreFacts(store) /\ StoreFacts(disk) /\ OpFacts
      /\ WorldTypeOK /\ StoreTypeOK /\ OpTypeOK
  BY WorldTyped, StoreTyped, OpTyped DEF EngineInv, TypeOK, StoreTypeOK
<1>2. /\ op.at = "down"
      /\ op'.at = "idle"
      /\ op' = Idle
      /\ store' = disk
      /\ disk' = disk
      /\ dirty' = dirty
      /\ UNCHANGED journal
      /\ UNCHANGED <<booked, lot, gen>>
      /\ UNCHANGED <<market, scenario>>
  BY <1>1 DEF Restart, Down, Idle, book, env, OpFacts, InConfig
<1>6. WorldTypeOK'
  BY <1>1, <1>2 DEF WorldTypeOK
<1>7. StoreTypeOK'
  BY <1>1, <1>2 DEF StoreTypeOK
<1>8. OpTypeOK'
  BY <1>1, <1>2 DEF OpTypeOK
<1>9. WorldFacts' /\ StoreFacts(store') /\ StoreFacts(disk') /\ OpFacts'
  BY <1>6, <1>7, <1>8, TypedAfter
<1>o. Obligations' \subseteq Obligations
  BY <1>1, <1>2 DEF Obligations, Retried, RetryStages, ConfigStages
<1>10. Keyed'
  BY <1>2, <1>o
     DEF Keyed, HoldingsAreOwn, ObligationsAreOwn, WorkIsOwn, Owns, IsKeyed, InConfig, ConfigStages,
         EngineInv
<1>11. Durable'
  BY <1>2 DEF Durable, DurableStages, EngineInv
<1>12. Agreement'
  BY <1>2
     DEF Agreement, AwaitingAgrees, DecidingAgrees, CaughtUpAgrees, MovingAgrees, ActingAgrees,
         OpeningIsFlat, ExitingAgrees, Settled, Awaits, InConfig, ConfigStages, EngineInv
<1>13. Booked'
  BY <1>2 DEF Booked, EntriesStand, ExitsFollow, HasExit, IsOpen, EngineInv
<1>14. ExitsOwed'
  BY <1>2, <1>o
     DEF ExitsOwed, OneExitOwed, ExitsFindTheirLot, FlipsFindTheirLot, HasBooked, NoneOpen, IsOpen,
         EngineInv
<1>15. ResetIsWhole'
  BY <1>2 DEF ResetIsWhole, EngineInv
<1>16. Enabled'
  BY <1>2
     DEF Enabled, DiskEnables, MemoryEnables, PassIsEnabled, InConfig, ConfigStages, Retried,
         RetryStages, StoreFacts, EngineInv
<1> QED
  BY <1>6, <1>7, <1>8, <1>10, <1>11, <1>12, <1>13, <1>14, <1>15, <1>16 DEF EngineInv, TypeOK

====
