-------------------------- MODULE PaperLedgerProofs --------------------------
(***************************************************************************)
(* Theorems about PaperLedger, for every set of configs and trades, every  *)
(* bound, and any number of crashes and resets; and that it implements     *)
(* TradeBook on PostgreSQL, whatever replies are lost and wherever the     *)
(* process stops.                                                          *)
(***************************************************************************)
EXTENDS PaperLedgerRefines, TLAPS

\* A process that replays is inside openLedger, and a stopped one is in no call.
PhaseOK ==
    /\ status = "starting" => op.call = "replay"
    /\ status = "down" => op = Idle
    /\ status = "up" => op.call # "replay"
-----------------------------------------------------------------------------
(***************************************************************************)
(* What the helpers return.                                                *)
(***************************************************************************)
\* The arithmetic of one leg stays in the integers.
LEMMA MoneyType ==
    ASSUME NEW qty \in Nat, NEW price \in Nat, NEW cost \in Nat
    PROVE  Notional(qty, price) \in Int /\ Fee(qty, price, cost) \in Int
BY DEF Notional, Fee, Scale

LEMMA SignType == ASSUME NEW side PROVE Sign(side) \in {-1, 1}
BY DEF Sign

\* freshLedgerState returns a book state.
LEMMA FreshType == ASSUME NEW g \in Nat PROVE Fresh(g) \in BookState
BY NumberAssumption DEF Fresh, BookState, Dates

\* Dropping a date's pending marks keeps a book state one.
LEMMA UnpendType ==
    ASSUME NEW st \in BookState, NEW d \in Dates
    PROVE  Unpend(st, d) \in BookState
BY DEF Unpend, BookState

\* applyFill takes a book state and a fill to a book state.
LEMMA ApplyFillType ==
    ASSUME NEW st \in BookState, NEW f \in FillRecord
    PROVE  ApplyFill(st, f) \in BookState
<1> DEFINE lot == [trade |-> f.trade, side |-> f.side, qty |-> f.qty,
                   price |-> f.price, cost |-> f.cost]
<1>1. Notional(f.qty, f.price) \in Int /\ Fee(f.qty, f.price, f.cost) \in Int
  BY MoneyType DEF FillRecord
<1>2. Sign(f.side) \in Int
  BY SignType
<1> DEFINE moved(lots, cash, realized) ==
             [st EXCEPT !.lots = lots, !.cash = cash, !.realized = realized]
<1>3. ASSUME NEW lots \in [Keys -> LotRecord \cup {NoLot}], NEW cash \in Int,
             NEW realized \in Int
      PROVE  moved(lots, cash, realized) \in BookState
  BY DEF BookState
<1>4. ApplyOpen(st, f) \in BookState
  <2> DEFINE lots == [st.lots EXCEPT ![f.key] = lot]
             cash == st.cash - Sign(f.side) * Notional(f.qty, f.price)
                             - Fee(f.qty, f.price, f.cost)
  <2>1. lots \in [Keys -> LotRecord \cup {NoLot}]
    BY DEF LotRecord, FillRecord, BookState
  <2>2. cash \in Int /\ st.realized \in Int
    BY <1>1, <1>2 DEF BookState
  <2>3. ApplyOpen(st, f) = moved(lots, cash, st.realized)
    BY DEF ApplyOpen, BookState
  <2> HIDE DEF lots, cash, moved
  <2> QED
    BY <2>1, <2>2, <2>3, <1>3
<1>5. ApplyClose(st, f) \in BookState
  <2> DEFINE lots == [st.lots EXCEPT ![f.key] = NoLot]
             cash == st.cash + Sign(f.side) * Notional(f.qty, f.price)
                             - Fee(f.qty, f.price, f.cost)
  <2>1. lots \in [Keys -> LotRecord \cup {NoLot}]
    BY DEF FillRecord, BookState
  <2>2. cash \in Int /\ st.realized + f.realized \in Int
    BY <1>1, <1>2 DEF BookState, FillRecord
  <2>3. ApplyClose(st, f) = moved(lots, cash, st.realized + f.realized)
    BY DEF ApplyClose, BookState
  <2> HIDE DEF lots, cash, moved
  <2> QED
    BY <2>1, <2>2, <2>3, <1>3
<1>6. ASSUME NEW m \in BookState
      PROVE  [m EXCEPT !.booked = @ \cup {<<f.trade, f.kind>>},
                       !.lastSeq = IF f.seq > @ THEN f.seq ELSE @] \in BookState
  <2>1. m.booked \cup {<<f.trade, f.kind>>} \in SUBSET (Trades \X (OpenKinds \cup CloseKinds))
    BY DEF BookState, FillRecord
  <2>2. (IF f.seq > m.lastSeq THEN f.seq ELSE m.lastSeq) \in Nat
    BY DEF BookState, FillRecord
  <2> QED
    BY <2>1, <2>2 DEF BookState
<1> QED
  BY <1>4, <1>5, <1>6 DEF ApplyFill

\* A fill that openExactLocked writes is a fill record.
LEMMA OpenFillType ==
    ASSUME book \in BookState, NEW t \in Trades,
           NEW qty \in Qtys, NEW price \in Prices, NEW cost \in Costs
    PROVE  OpenFill(t, qty, price, cost) \in FillRecord
BY TradeAssumption, NumberAssumption DEF OpenFill, FillRecord, BookState

\* So is a fill that close writes.
LEMMA CloseFillType ==
    ASSUME book \in BookState, NEW k \in Keys, NEW kind \in CloseKinds,
           NEW price \in Prices, MayClose(k, kind)
    PROVE  CloseFill(k, price, kind) \in FillRecord
<1> DEFINE lot == book.lots[k]
<1>1. lot \in LotRecord
  BY DEF MayClose, BookState
<1>2. price \in Nat
  BY NumberAssumption
<1>3. /\ Notional(lot.qty, price) \in Int /\ Notional(lot.qty, lot.price) \in Int
      /\ Fee(lot.qty, lot.price, lot.cost) \in Int /\ Fee(lot.qty, price, lot.cost) \in Int
  BY <1>1, <1>2, MoneyType DEF LotRecord
<1>4. Sign(lot.side) * (Notional(lot.qty, price) - Notional(lot.qty, lot.price))
         - Fee(lot.qty, lot.price, lot.cost) - Fee(lot.qty, price, lot.cost) \in Int
  BY <1>3, SignType
<1> QED
  BY <1>1, <1>2, <1>4 DEF CloseFill, FillRecord, LotRecord, BookState
-----------------------------------------------------------------------------
(***************************************************************************)
(* Type correctness, one lemma per action.                                 *)
(***************************************************************************)
LEMMA TypeInit == Init => TypeOK
<1>1. Fresh(0) \in BookState
  BY FreshType
<1>2. Idle \in OpState
  BY DEF OpState
<1>3. [k \in Keys |-> 0] \in [Keys -> 0..LastDate] /\ 0 \in 0..MaxCrashes
  BY NumberAssumption
<1>4. <<>> \in Seq(FillRecord) /\ <<>> \in Seq(SnapshotRecord \cup GapRecord)
  OBVIOUS
<1>5. (IF Backend = "postgres" THEN 1 ELSE 0) \in Nat
  OBVIOUS
<1> QED
  BY <1>1, <1>2, <1>3, <1>4, <1>5 DEF Init, TypeOK

LEMMA BookLegType ==
    ASSUME TypeOK, NEW f \in FillRecord, BookLeg(f)
    PROVE  TypeOK'
<1>1. ApplyFill(book, f) \in BookState
  BY ApplyFillType DEF TypeOK
<1>2. Append(fills, f) \in Seq(FillRecord)
  BY DEF TypeOK
<1>3. [call |-> "persist"] \in OpState
  BY DEF OpState
<1> QED
  BY <1>1, <1>2, <1>3
  DEF TypeOK, BookLeg, AppendAcked, AppendUnacked, AppendTorn, Written

LEMMA OpenExactType ==
    ASSUME TypeOK, NEW t \in Trades, OpenExact(t)
    PROVE  TypeOK'
<1>1. PICK qty \in Qtys, price \in Prices, cost \in Costs :
          BookLeg(OpenFill(t, qty, price, cost))
  BY DEF OpenExact
<1> QED
  BY <1>1, BookLegType, OpenFillType DEF TypeOK

LEMMA CloseType ==
    ASSUME TypeOK, NEW k \in Keys, NEW kind \in CloseKinds, Close(k, kind)
    PROVE  TypeOK'
<1>1. PICK price \in Prices : BookLeg(CloseFill(k, price, kind))
  BY DEF Close
<1>2. MayClose(k, kind)
  BY DEF Close
<1> QED
  BY <1>1, <1>2, BookLegType, CloseFillType DEF TypeOK

LEMMA PersistType == ASSUME TypeOK, Persist PROVE TypeOK'
BY DEF TypeOK, Persist, OpState

LEMMA MarkType ==
    ASSUME TypeOK, NEW k \in Keys, NEW d \in Dates,
           NEW price \in Prices \cup {NotReal}, Mark(k, d, price)
    PROVE  TypeOK'
<1>1. price \in Nat \cup {NotReal}
  BY NumberAssumption
<1>2. (IF price > 0 THEN price ELSE book.lastMark[k]) \in Nat
  BY <1>1 DEF TypeOK, BookState, NotReal
<1>3. [book.pending EXCEPT ![d][k] = price] \in [Dates -> [Keys -> Nat \cup {NotReal}]]
  BY <1>1 DEF TypeOK, BookState
<1>4. [book.lastMark EXCEPT ![k] = IF price > 0 THEN price ELSE @] \in [Keys -> Nat]
  BY <1>2 DEF TypeOK, BookState
<1>5. book' \in BookState
  BY <1>3, <1>4 DEF Mark, TypeOK, BookState
<1>6. marked' \in [Keys -> 0..LastDate]
  BY NumberAssumption DEF Mark, TypeOK, Dates
<1>7. op' \in OpState
  BY DEF Mark, OpState
<1> QED
  BY <1>5, <1>6, <1>7 DEF Mark, TypeOK, disk

\* A pending mark's date is the one the call in progress was made for.
LEMMA MarkDate == ASSUME TypeOK, op.call = "mark" PROVE op.date \in Dates
BY DEF TypeOK, OpState, Idle

LEMMA GapLockedType ==
    ASSUME TypeOK, NEW d \in Dates, GapLocked(d)
    PROVE  book' \in BookState /\ snaps' \in Seq(SnapshotRecord \cup GapRecord)
<1>1. Unpend(book, d) \in BookState
  BY UnpendType DEF TypeOK
<1>2. [Unpend(book, d) EXCEPT !.gaps = @ \cup {d}] \in BookState
  BY <1>1 DEF BookState
<1>3. GapOf(d) \in GapRecord
  BY DEF GapRecord, GapOf
<1>4. Append(snaps, GapOf(d)) \in Seq(SnapshotRecord \cup GapRecord)
  BY <1>3 DEF TypeOK
<1> QED
  BY <1>1, <1>2, <1>4 DEF GapLocked, TypeOK

LEMMA SnapshotOfType ==
    ASSUME TypeOK, NEW d \in Dates, AllReal(d)
    PROVE  SnapshotOf(d) \in SnapshotRecord /\ book.pending[d] \in [Keys -> Nat]
<1>1. book.pending[d] \in [Keys -> Nat \ {0}]
  BY DEF TypeOK, BookState, AllReal, NotReal
<1> QED
  BY <1>1 DEF SnapshotRecord, SnapshotOf

LEMMA TakeSnapshotType ==
    ASSUME TypeOK, NEW d \in Dates, AllReal(d), TakeSnapshot(d)
    PROVE  book' \in BookState /\ snaps' \in Seq(SnapshotRecord \cup GapRecord)
<1>1. SnapshotOf(d) \in SnapshotRecord /\ book.pending[d] \in [Keys -> Nat]
  BY SnapshotOfType
<1>2. Unpend(book, d) \in BookState
  BY UnpendType DEF TypeOK
<1>3. [Unpend(book, d) EXCEPT !.lastMark = book.pending[d]] \in BookState
  BY <1>1, <1>2 DEF BookState
<1>4. [Unpend(book, d) EXCEPT !.snapshots = @ \cup {SnapshotOf(d)},
                              !.lastMark = book.pending[d]] \in BookState
  BY <1>1, <1>2 DEF BookState
<1>5. Append(snaps, SnapshotOf(d)) \in Seq(SnapshotRecord \cup GapRecord)
  BY <1>1 DEF TypeOK
<1> QED
  BY <1>3, <1>4, <1>5 DEF TakeSnapshot, TypeOK

LEMMA MarkGapsOlderType == ASSUME TypeOK, MarkGapsOlder PROVE TypeOK'
<1>1. PICK d \in Older(op.date) : GapLocked(d)
  BY DEF MarkGapsOlder
<1>2. d \in Dates
  BY DEF Older, PendingDates
<1> QED
  BY <1>1, <1>2, GapLockedType DEF MarkGapsOlder, TypeOK

LEMMA MarkSettleType == ASSUME TypeOK, MarkSettle PROVE TypeOK'
<1>1. op.date \in Dates
  BY MarkDate DEF MarkSettle
<1>2. book' \in BookState /\ snaps' \in Seq(SnapshotRecord \cup GapRecord)
  BY <1>1, GapLockedType, TakeSnapshotType DEF MarkSettle, TypeOK
<1>3. op' \in OpState
  BY DEF MarkSettle, OpState
<1> QED
  BY <1>2, <1>3 DEF MarkSettle, TypeOK

LEMMA MarkFailsType == ASSUME TypeOK, MarkFails PROVE TypeOK'
BY DEF TypeOK, MarkFails, OpState, disk

LEMMA MarkUnackedType == ASSUME TypeOK, MarkUnacked PROVE TypeOK'
<1>1. snaps' \in Seq(SnapshotRecord \cup GapRecord)
  <2>1. PICK d \in Dates :
          \/ snaps' = Append(snaps, GapOf(d))
          \/ SnapshotsItsOwn(d) /\ snaps' = Append(snaps, SnapshotOf(d))
    BY DEF MarkUnacked
  <2>2. GapOf(d) \in GapRecord
    BY DEF GapOf, GapRecord
  <2>3. SnapshotsItsOwn(d) => SnapshotOf(d) \in SnapshotRecord
    BY SnapshotOfType DEF SnapshotsItsOwn
  <2>4. \E r \in SnapshotRecord \cup GapRecord : snaps' = Append(snaps, r)
    BY <2>1, <2>2, <2>3
  <2> QED
    BY <2>4 DEF TypeOK
<1>2. Idle \in OpState
  BY DEF OpState
<1> QED
  BY <1>1, <1>2 DEF MarkUnacked, TypeOK

LEMMA ResetPostgresType == ASSUME TypeOK, ResetPostgres PROVE TypeOK'
<1>1. dbGen + 1 \in Nat /\ Fresh(dbGen + 1) \in BookState
  BY FreshType DEF TypeOK
<1>2. <<>> \in Seq(FillRecord) /\ <<>> \in Seq(SnapshotRecord \cup GapRecord)
  OBVIOUS
<1>3. [k \in Keys |-> 0] \in [Keys -> 0..LastDate]
  BY NumberAssumption
<1>4. [call |-> "day0"] \in OpState
  BY DEF OpState
<1> QED
  BY <1>1, <1>2, <1>3, <1>4 DEF ResetPostgres, TypeOK

LEMMA ResetPostgresUnackedType == ASSUME TypeOK, ResetPostgresUnacked PROVE TypeOK'
<1>1. dbGen + 1 \in Nat /\ Fresh(dbGen + 1) \in BookState
  BY FreshType DEF TypeOK
<1> QED
  BY <1>1 DEF ResetPostgresUnacked, TypeOK

\* What a file reset has moved aside can be put back.
LEMMA ArchiveType ==
    ASSUME TypeOK, op.call \in {"archived", "reset"}
    PROVE  /\ op.fills \in Seq(FillRecord) /\ op.torn \in BOOLEAN
           /\ op.snaps \in Seq(SnapshotRecord \cup GapRecord)
BY DEF TypeOK, OpState, Idle

LEMMA ResetArchiveFillsType == ASSUME TypeOK, ResetArchiveFills PROVE TypeOK'
<1>1. <<>> \in Seq(FillRecord) /\ <<>> \in Seq(SnapshotRecord \cup GapRecord)
  OBVIOUS
<1>2. [call |-> "archived", fills |-> fills, torn |-> torn, snaps |-> <<>>] \in
         [call : {"archived", "reset"}, fills : Seq(FillRecord), torn : BOOLEAN,
          snaps : Seq(SnapshotRecord \cup GapRecord)]
  BY <1>1 DEF TypeOK
<1>3. op' \in OpState
  BY <1>2 DEF ResetArchiveFills, OpState
<1> QED
  BY <1>1, <1>3 DEF ResetArchiveFills, TypeOK

LEMMA ResetArchiveSnapshotsType == ASSUME TypeOK, ResetArchiveSnapshots PROVE TypeOK'
<1>1. <<>> \in Seq(SnapshotRecord \cup GapRecord)
  OBVIOUS
<1>2. op \in [call : {"archived", "reset"}, fills : Seq(FillRecord), torn : BOOLEAN,
              snaps : Seq(SnapshotRecord \cup GapRecord)]
  BY DEF ResetArchiveSnapshots, TypeOK, OpState, Idle
<1>3. op' \in OpState
  BY <1>2 DEF ResetArchiveSnapshots, TypeOK, OpState
<1> QED
  BY <1>1, <1>3 DEF ResetArchiveSnapshots, TypeOK

LEMMA ResetCommitType == ASSUME TypeOK, ResetCommit PROVE TypeOK'
<1>1. Fresh(book.gen + 1) \in BookState
  <2>1. book.gen + 1 \in Nat
    BY DEF TypeOK, BookState
  <2> QED
    BY <2>1, FreshType
<1>2. [k \in Keys |-> 0] \in [Keys -> 0..LastDate]
  BY NumberAssumption
<1>3. [call |-> "day0"] \in OpState
  BY DEF OpState
<1> QED
  BY <1>1, <1>2, <1>3 DEF ResetCommit, TypeOK

LEMMA ResetRollbackType == ASSUME TypeOK, ResetRollback PROVE TypeOK'
<1>1. /\ op.fills \in Seq(FillRecord) /\ op.torn \in BOOLEAN
      /\ op.snaps \in Seq(SnapshotRecord \cup GapRecord)
  BY ArchiveType DEF ResetRollback
<1>2. Idle \in OpState
  BY DEF OpState
<1> QED
  BY <1>1, <1>2 DEF ResetRollback, TypeOK

LEMMA CommitClockType ==
    ASSUME TypeOK, NEW on \in BOOLEAN, CommitClock(on)
    PROVE  book' \in BookState /\ doc' \in BookState \cup {NoDoc}
<1>1. [book EXCEPT !.official = on] \in BookState
  BY DEF TypeOK, BookState
<1> QED
  BY <1>1 DEF CommitClock, TypeOK

LEMMA StartOfficialType == ASSUME TypeOK, StartOfficial PROVE TypeOK'
<1>1. Idle \in OpState
  BY DEF OpState
<1> QED
  BY <1>1, CommitClockType DEF StartOfficial, TypeOK

LEMMA InvalidateOfficialType == ASSUME TypeOK, InvalidateOfficial PROVE TypeOK'
BY CommitClockType DEF InvalidateOfficial, TypeOK

LEMMA CrashType == ASSUME TypeOK, Crash PROVE TypeOK'
<1>1. Fresh(0) \in BookState
  BY FreshType
<1>2. Idle \in OpState
  BY DEF OpState
<1>3. crashes + 1 \in 0..MaxCrashes
  BY NumberAssumption DEF TypeOK, Crash
<1>4. <<>> \in Seq(FillRecord) /\ <<>> \in Seq(SnapshotRecord \cup GapRecord)
  OBVIOUS
<1> QED
  BY <1>1, <1>2, <1>3, <1>4 DEF Crash, TypeOK

LEMMA OpenTrustedType == ASSUME TypeOK, OpenTrusted PROVE TypeOK'
BY DEF OpenTrusted, TrustDoc, TypeOK, disk

LEMMA OpenReplayingType == ASSUME TypeOK, OpenReplaying PROVE TypeOK'
<1>1. book' \in BookState
  BY FreshType DEF OpenReplaying, TypeOK
<1>2. op' \in OpState
  BY DEF OpenReplaying, OpState
<1> QED
  BY <1>1, <1>2 DEF OpenReplaying, TypeOK, disk

LEMMA ReplayFillType == ASSUME TypeOK, PhaseOK, ReplayFill PROVE TypeOK'
<1>1. op \in [call : {"replay"}, done : Nat]
  BY DEF ReplayFill, PhaseOK, TypeOK, OpState, Idle
<1>2. fills[op.done + 1] \in FillRecord
  BY <1>1 DEF ReplayFill, TypeOK
<1>3. ApplyFill(book, fills[op.done + 1]) \in BookState
  BY <1>2, ApplyFillType DEF TypeOK
<1>4. op' \in OpState
  BY <1>1 DEF ReplayFill, OpState
<1> QED
  BY <1>3, <1>4 DEF ReplayFill, TypeOK, disk

LEMMA LastMarkType == ASSUME TypeOK, NEW k \in Keys PROVE LastMarkIn(k) \in Nat
<1> DEFINE last(i) == ~snaps[i].gap /\ \A j \in DOMAIN snaps : j > i => snaps[j].gap
<1>1. ASSUME NEW i \in DOMAIN snaps, last(i) PROVE snaps[i].marks[k] \in Nat
  <2>1. snaps[i] \in SnapshotRecord \cup GapRecord
    BY <1>1 DEF TypeOK
  <2> QED
    BY <1>1, <2>1 DEF SnapshotRecord, GapRecord
<1>2. CASE \E i \in DOMAIN snaps : last(i)
  <2> DEFINE c == CHOOSE i \in DOMAIN snaps : last(i)
  <2>1. c \in DOMAIN snaps /\ last(c)
    BY <1>2
  <2>2. LastMarkIn(k) = snaps[c].marks[k]
    BY <1>2 DEF LastMarkIn
  <2> HIDE DEF c, last
  <2> QED
    BY <2>1, <2>2, <1>1
<1>3. CASE ~ \E i \in DOMAIN snaps : last(i)
  BY <1>3 DEF LastMarkIn
<1> QED
  BY <1>2, <1>3

LEMMA ReplaySnapshotsType == ASSUME TypeOK, ReplaySnapshots PROVE TypeOK'
<1> DEFINE gaps == {snaps[i].date : i \in {j \in DOMAIN snaps : snaps[j].gap}}
           snapshots == {snaps[i] : i \in {j \in DOMAIN snaps : ~snaps[j].gap}}
           lastMark == [k \in Keys |-> LastMarkIn(k)]
<1>1. \A i \in DOMAIN snaps : snaps[i] \in SnapshotRecord \cup GapRecord
  BY DEF TypeOK
<1>2. gaps \in SUBSET Dates
  BY <1>1 DEF SnapshotRecord, GapRecord
<1>3. snapshots \in SUBSET SnapshotRecord
  BY <1>1 DEF GapRecord
<1>4. lastMark \in [Keys -> Nat]
  BY LastMarkType
<1>5. book' = [book EXCEPT !.gaps = gaps, !.snapshots = snapshots, !.lastMark = lastMark]
  BY DEF ReplaySnapshots
<1> HIDE DEF gaps, snapshots, lastMark
<1>6. book' \in BookState
  BY <1>2, <1>3, <1>4, <1>5 DEF TypeOK, BookState
<1>7. Idle \in OpState
  BY DEF OpState
<1> QED
  BY <1>6, <1>7 DEF ReplaySnapshots, TypeOK
-----------------------------------------------------------------------------
(***************************************************************************)
(* Which call can be in progress in which phase of the process.            *)
(***************************************************************************)
LEMMA PhaseInit == Init => PhaseOK
BY DEF Init, PhaseOK, Idle

LEMMA PhaseNext == ASSUME TypeOK, PhaseOK, Next PROVE PhaseOK'
<1>1. CASE \E t \in Trades : OpenExact(t)
  BY <1>1 DEF PhaseOK, OpenExact, BookLeg, Ready, Idle, AppendAcked, AppendUnacked, AppendTorn
<1>2. CASE \E k \in Keys, kind \in CloseKinds : Close(k, kind)
  BY <1>2 DEF PhaseOK, Close, BookLeg, Ready, Idle, AppendAcked, AppendUnacked, AppendTorn
<1>3. CASE Persist \/ MarkGapsOlder \/ MarkSettle \/ MarkFails \/ MarkUnacked
  BY <1>3 DEF PhaseOK, Persist, MarkGapsOlder, MarkSettle, MarkFails, MarkUnacked, Idle
<1>4. CASE \E k \in Keys, d \in Dates, price \in Prices \cup {NotReal} : Mark(k, d, price)
  BY <1>4 DEF PhaseOK, Mark, Ready, Idle
<1>5. CASE ResetPostgres \/ ResetArchiveFills \/ ResetCommit \/ ResetRollback
  BY <1>5 DEF PhaseOK, ResetPostgres, CanResetPostgres, ResetArchiveFills, ResetCommit,
              ResetRollback, Ready, Idle
<1>9. CASE ResetPostgresUnacked \/ InvalidateOfficial
  BY <1>9 DEF PhaseOK, ResetPostgresUnacked, CanResetPostgres, InvalidateOfficial, Ready
<1>10. CASE StartOfficial
  BY <1>10 DEF PhaseOK, StartOfficial, Idle
<1>8. CASE ResetArchiveSnapshots
  BY <1>8 DEF PhaseOK, ResetArchiveSnapshots, TypeOK, OpState, Idle
<1>6. CASE Crash \/ OpenTrusted \/ OpenReplaying
  BY <1>6 DEF PhaseOK, Crash, OpenTrusted, OpenReplaying, Idle
<1>7. CASE ReplayFill \/ ReplaySnapshots
  BY <1>7 DEF PhaseOK, ReplayFill, ReplaySnapshots, TypeOK, OpState, Idle
<1> QED
  BY <1>1, <1>2, <1>3, <1>4, <1>5, <1>6, <1>7, <1>8, <1>9, <1>10 DEF Next
-----------------------------------------------------------------------------
(***************************************************************************)
(* The record and the book, in the production backend.                     *)
(*                                                                         *)
(* The fills table is keyed by sequence number, so the numbers are the     *)
(* positions.  A number given back after a lost reply is therefore refused *)
(* until the book has been rebuilt, and whatever state has applied the     *)
(* first n fills knows exactly the legs and the lots those determine.      *)
(***************************************************************************)
UpToDate(st) == st.lastSeq <= Len(fills) /\ Reflects(st, fills, st.lastSeq)

\* A document of another generation is never read; one of the database's, left by a
\* reset whose reply was lost, is still fresh.
CurrentDoc == doc # NoDoc /\ doc.gen = dbGen

RecordInv ==
    /\ ~torn /\ ~Resetting
    /\ \A i \in DOMAIN fills : fills[i].seq = i
    /\ NoDoubleBooking
    /\ CurrentDoc => UpToDate(doc)
    /\ status # "down" => UpToDate(book)
    /\ status # "down" /\ book.gen # dbGen /\ CurrentDoc => doc.lastSeq = 0
    /\ status = "starting" => op.done = book.lastSeq

\* A fresh book reflects no fills.
LEMMA FreshReflects == ASSUME NEW g, NEW fs PROVE Reflects(Fresh(g), fs, 0)
BY DEF Reflects, BookedIn, LotMatches, Fresh

\* Reflecting the first n fills depends on those only.
LEMMA ReflectsPrefix ==
    ASSUME NEW st, NEW fs, NEW gs, NEW n \in Nat, \A i \in 1..n : gs[i] = fs[i],
           Reflects(st, fs, n)
    PROVE  Reflects(st, gs, n)
<1>1. BookedIn(gs, n) = BookedIn(fs, n)
  BY DEF BookedIn
<1>2. ASSUME NEW k, NEW i \in 1..n PROVE LastOn(gs, n, k, i) <=> LastOn(fs, n, k, i)
  BY DEF LastOn
<1>3. ASSUME NEW k, NEW lot, LotMatches(lot, fs, n, k) PROVE LotMatches(lot, gs, n, k)
  BY <1>2, <1>3 DEF LotMatches
<1> QED
  BY <1>1, <1>3 DEF Reflects

\* Applying the next fill to a state that reflects n of them makes it reflect n+1.
LEMMA ApplyReflects ==
    ASSUME NEW st \in BookState, NEW fs \in Seq(FillRecord), NEW n \in Nat, n < Len(fs),
           Reflects(st, fs, n)
    PROVE  Reflects(ApplyFill(st, fs[n+1]), fs, n + 1)
<1> DEFINE f == fs[n+1]
           lot == [trade |-> f.trade, side |-> f.side, qty |-> f.qty,
                   price |-> f.price, cost |-> f.cost]
           st2 == ApplyFill(st, f)
<1>1. f \in FillRecord
  OBVIOUS
<1>2. /\ st2.booked = st.booked \cup {Booking(f)}
      /\ st2.lots = [st.lots EXCEPT ![f.key] = IF f.kind \in OpenKinds THEN lot ELSE NoLot]
  BY <1>1 DEF ApplyFill, ApplyOpen, ApplyClose, Booking, BookState
<1>3. 1..(n+1) = (1..n) \cup {n+1}
  OBVIOUS
<1>4. BookedIn(fs, n + 1) = BookedIn(fs, n) \cup {Booking(f)}
  BY <1>3 DEF BookedIn
<1>5. ASSUME NEW k \in Keys, k # f.key
      PROVE  LotMatches(st2.lots[k], fs, n + 1, k)
  <2>1. st2.lots[k] = st.lots[k]
    BY <1>2, <1>5 DEF BookState
  <2>2. \A i \in 1..(n+1) : LastOn(fs, n + 1, k, i) <=> LastOn(fs, n, k, i)
    BY <1>3, <1>5 DEF LastOn
  <2>3. LotMatches(st.lots[k], fs, n, k)
    BY DEF Reflects
  <2> QED
    BY <1>3, <2>1, <2>2, <2>3 DEF LotMatches, LastOn
<1>6. LotMatches(st2.lots[f.key], fs, n + 1, f.key)
  <2>1. \A i \in 1..(n+1) : LastOn(fs, n + 1, f.key, i) <=> i = n + 1
    BY <1>3 DEF LastOn
  <2>2. f.key \in Keys
    BY <1>1 DEF FillRecord
  <2>3. CASE f.kind \in OpenKinds
    <3>1. st2.lots[f.key] = lot
      BY <1>2, <2>2, <2>3 DEF BookState
    <3>2. lot # NoLot
      BY DEF NoLot
    <3> QED
      BY <1>3, <2>1, <2>3, <3>1, <3>2 DEF LotMatches
  <2>4. CASE f.kind \notin OpenKinds
    <3>1. st2.lots[f.key] = NoLot
      BY <1>2, <2>2, <2>4 DEF BookState
    <3>2. f.kind \in CloseKinds
      BY <1>1, <2>4 DEF FillRecord
    <3> QED
      BY <2>1, <3>1, <3>2 DEF LotMatches
  <2> QED
    BY <2>3, <2>4
<1> QED
  BY <1>2, <1>4, <1>5, <1>6 DEF Reflects

\* A state is up to date by its legs, its lots and its sequence number alone.
SameLegs(a, b) ==
    a.gen = b.gen /\ a.lastSeq = b.lastSeq /\ a.booked = b.booked /\ a.lots = b.lots

LEMMA UpToDateSame ==
    ASSUME NEW a, NEW b, SameLegs(a, b), UpToDate(a)
    PROVE  UpToDate(b)
BY DEF SameLegs, UpToDate, Reflects

\* Marking, persisting and the official clock leave the record and the legs alone.
LEMMA SideStep ==
    ASSUME RecordInv, status = "up", UNCHANGED <<fills, torn, dbGen, status>>, ~Resetting',
           SameLegs(book, book'), doc' = doc \/ SameLegs(book, doc')
    PROVE  RecordInv'
<1>1. UpToDate(book') /\ UpToDate(book)'
  BY UpToDateSame DEF RecordInv, UpToDate
<1>2. (CurrentDoc => UpToDate(doc))'
  <2>1. CASE doc' = doc
    BY <2>1 DEF RecordInv, CurrentDoc, UpToDate
  <2>2. CASE SameLegs(book, doc')
    <3>1. UpToDate(doc')
      BY <2>2, UpToDateSame DEF RecordInv
    <3> QED
      BY <3>1 DEF UpToDate
  <2> QED
    BY <2>1, <2>2
<1>3. (book.gen # dbGen /\ CurrentDoc => doc.lastSeq = 0)'
  BY DEF RecordInv, CurrentDoc, SameLegs
<1>4. NoDoubleBooking'
  BY DEF RecordInv, NoDoubleBooking
<1> QED
  BY <1>1, <1>2, <1>3, <1>4 DEF RecordInv

LEMMA RecordInit == Init => RecordInv
BY DEF Init, RecordInv, NoDoubleBooking, CurrentDoc, Resetting, Idle

\* A leg whose number is free is appended by a caller that has applied every fill.
LEMMA AppendsCaughtUp ==
    ASSUME Backend = "postgres", TypeOK, RecordInv, status = "up",
           NEW f, f.seq = book.lastSeq + 1, BookLeg(f)
    PROVE  fills' = Append(fills, f) /\ ~torn' /\ book.lastSeq = Len(fills)
<1> DEFINE n == Len(fills)
<1>1. n \in Nat /\ book.lastSeq \in Nat /\ fills \in Seq(FillRecord) /\ book \in BookState
  BY DEF TypeOK, BookState
<1>2. SeqIsFree(f) /\ fills' = Append(fills, f) /\ ~torn'
  <2>1. ~AppendTorn(f)
    BY BackendAssumption DEF AppendTorn
  <2> QED
    BY <2>1 DEF BookLeg, AppendAcked, AppendUnacked, Written, RecordInv
<1>3. book.lastSeq = n
  <2>1. book.lastSeq <= n
    BY DEF RecordInv, UpToDate
  <2>2. ASSUME book.lastSeq < n PROVE FALSE
    <3>1. book.lastSeq + 1 \in DOMAIN fills
      BY <1>1, <2>2
    <3>2. fills[book.lastSeq + 1].seq = f.seq
      BY <3>1 DEF RecordInv
    <3> QED
      BY <1>2, <3>1, <3>2 DEF SeqIsFree
  <2> QED
    BY <1>1, <2>1, <2>2
<1> QED
  BY <1>2, <1>3

\* So "not in booked" means "not in the record".
LEMMA RecordBookLeg ==
    ASSUME Backend = "postgres", TypeOK, RecordInv, status = "up", op = Idle,
           NEW f \in FillRecord, f.seq = book.lastSeq + 1, Booking(f) \notin book.booked,
           BookLeg(f)
    PROVE  RecordInv'
<1> DEFINE n == Len(fills)
<1>1. n \in Nat /\ book.lastSeq \in Nat /\ fills \in Seq(FillRecord) /\ book \in BookState
  BY DEF TypeOK, BookState
<1>2. fills' = Append(fills, f) /\ ~torn'
  BY AppendsCaughtUp
<1>3. book.lastSeq = n
  BY AppendsCaughtUp
<1>4. /\ Len(fills') = n + 1 /\ DOMAIN fills' = 1..(n+1) /\ fills'[n+1] = f
      /\ \A i \in 1..n : fills'[i] = fills[i]
      /\ fills' \in Seq(FillRecord) /\ DOMAIN fills = 1..n
  BY <1>1, <1>2
<1> HIDE DEF n
<1>5. \A i \in 1..n : Booking(fills[i]) # Booking(f)
  BY <1>3, <1>4 DEF RecordInv, UpToDate, Reflects, BookedIn
<1>6. NoDoubleBooking'
  <2> SUFFICES ASSUME NEW i \in 1..(n+1), NEW j \in 1..(n+1),
                      Booking(fills'[i]) = Booking(fills'[j])
               PROVE  i = j
    BY <1>4 DEF NoDoubleBooking, Booking
  <2>1. CASE i \in 1..n /\ j \in 1..n
    BY <2>1, <1>4 DEF RecordInv, NoDoubleBooking
  <2>2. CASE i = n + 1 \/ j = n + 1
    BY <2>2, <1>1, <1>4, <1>5
  <2> QED
    BY <2>1, <2>2, <1>1
<1>7. \A i \in DOMAIN fills' : fills'[i].seq = i
  BY <1>1, <1>3, <1>4 DEF RecordInv
<1>8. ASSUME NEW st, st.lastSeq \in Nat, UpToDate(st)
      PROVE  st.lastSeq <= n + 1 /\ Reflects(st, fills', st.lastSeq)
  <2>1. st.lastSeq <= n /\ Reflects(st, fills, st.lastSeq)
    BY <1>8 DEF UpToDate, n
  <2>2. \A i \in 1..st.lastSeq : fills'[i] = fills[i]
    BY <1>1, <1>4, <1>8, <2>1
  <2> QED
    BY <1>1, <1>8, <2>1, <2>2, ReflectsPrefix
<1>9. (CurrentDoc => UpToDate(doc))'
  <2> SUFFICES ASSUME CurrentDoc
               PROVE  doc.lastSeq <= n + 1 /\ Reflects(doc, fills', doc.lastSeq)
    BY <1>4 DEF BookLeg, UpToDate, CurrentDoc
  <2>1. doc.lastSeq \in Nat /\ UpToDate(doc)
    BY DEF TypeOK, BookState, RecordInv, CurrentDoc
  <2> QED
    BY <2>1, <1>8
<1>10. UpToDate(book)'
  <2>1. CASE book' = book
    <3>1. book.lastSeq <= n + 1 /\ Reflects(book, fills', book.lastSeq)
      BY <1>1, <1>8 DEF RecordInv
    <3> QED
      BY <2>1, <3>1, <1>4 DEF UpToDate
  <2>2. CASE book' = ApplyFill(book, f)
    <3>1. Reflects(book, fills', n)
      BY <1>1, <1>3, <1>8 DEF RecordInv
    <3>2. Reflects(ApplyFill(book, f), fills', n + 1)
      BY <1>1, <1>4, <3>1, ApplyReflects
    <3>3. ApplyFill(book, f).lastSeq = n + 1
      BY <1>1, <1>3 DEF ApplyFill, ApplyOpen, ApplyClose, BookState
    <3> QED
      BY <2>2, <3>2, <3>3, <1>4, <1>1 DEF UpToDate
  <2> QED
    BY <2>1, <2>2 DEF BookLeg, AppendAcked, AppendUnacked, AppendTorn
<1>11. ~Resetting' /\ status' = "up"
  BY DEF Resetting, BookLeg, AppendAcked, AppendUnacked, AppendTorn, Idle
<1>12. (book.gen # dbGen /\ CurrentDoc => doc.lastSeq = 0)'
  <2>1. book'.gen = book.gen
    BY <1>1 DEF BookLeg, AppendAcked, AppendUnacked, AppendTorn, ApplyFill, ApplyOpen,
                ApplyClose, BookState
  <2> QED
    BY <2>1 DEF BookLeg, RecordInv, CurrentDoc
<1> QED
  BY <1>2, <1>6, <1>7, <1>9, <1>10, <1>11, <1>12 DEF RecordInv, BookLeg

LEMMA RecordOpenExact ==
    ASSUME Backend = "postgres", TypeOK, RecordInv, NEW t \in Trades, OpenExact(t)
    PROVE  RecordInv'
<1>1. PICK qty \in Qtys, price \in Prices, cost \in Costs :
          BookLeg(OpenFill(t, qty, price, cost))
  BY DEF OpenExact
<1> DEFINE f == OpenFill(t, qty, price, cost)
<1>2. f \in FillRecord
  BY OpenFillType DEF TypeOK
<1>3. f.seq = book.lastSeq + 1 /\ Booking(f) \notin book.booked
  BY DEF OpenExact, MayOpen, OpenFill, Booking
<1> QED
  BY <1>1, <1>2, <1>3, RecordBookLeg DEF OpenExact, Ready

LEMMA RecordClose ==
    ASSUME Backend = "postgres", TypeOK, RecordInv, NEW k \in Keys, NEW kind \in CloseKinds,
           Close(k, kind)
    PROVE  RecordInv'
<1>1. PICK price \in Prices : BookLeg(CloseFill(k, price, kind))
  BY DEF Close
<1> DEFINE f == CloseFill(k, price, kind)
<1>2. f \in FillRecord
  BY CloseFillType DEF Close, TypeOK
<1>3. f.seq = book.lastSeq + 1 /\ Booking(f) \notin book.booked
  BY DEF Close, MayClose, CloseFill, Booking
<1> QED
  BY <1>1, <1>2, <1>3, RecordBookLeg DEF Close, Ready

LEMMA RecordPersist == ASSUME TypeOK, RecordInv, Persist PROVE RecordInv'
<1>1. SameLegs(book, book')
  BY DEF Persist, SameLegs
<1> QED
  BY <1>1, SideStep DEF Persist, Resetting, Idle

LEMMA RecordMark ==
    ASSUME TypeOK, RecordInv, NEW k \in Keys, NEW d \in Dates,
           NEW price \in Prices \cup {NotReal}, Mark(k, d, price)
    PROVE  RecordInv'
<1>1. SameLegs(book, book')
  BY DEF Mark, SameLegs, TypeOK, BookState
<1> QED
  BY <1>1, SideStep DEF Mark, Ready, Resetting, disk

\* Settling a date moves marks, snapshots and gaps, never a leg.
LEMMA SettleLegs ==
    ASSUME TypeOK, NEW d \in Dates, GapLocked(d) \/ TakeSnapshot(d)
    PROVE  SameLegs(book, book')
BY DEF GapLocked, TakeSnapshot, Unpend, SameLegs, TypeOK, BookState

LEMMA RecordMarkGapsOlder == ASSUME TypeOK, RecordInv, MarkGapsOlder PROVE RecordInv'
<1>1. SameLegs(book, book')
  BY SettleLegs DEF MarkGapsOlder, Older, PendingDates
<1> QED
  BY <1>1, SideStep DEF MarkGapsOlder, Resetting

LEMMA RecordMarkSettle == ASSUME TypeOK, RecordInv, MarkSettle PROVE RecordInv'
<1>1. op.date \in Dates
  BY MarkDate DEF MarkSettle
<1>2. SameLegs(book, book')
  BY <1>1, SettleLegs DEF MarkSettle, SameLegs
<1> QED
  BY <1>2, SideStep DEF MarkSettle, Resetting

LEMMA RecordMarkFails == ASSUME TypeOK, RecordInv, MarkFails PROVE RecordInv'
<1>1. SameLegs(book, book')
  BY DEF MarkFails, SameLegs
<1> QED
  BY <1>1, SideStep DEF MarkFails, Resetting, Idle, disk

LEMMA RecordMarkUnacked == ASSUME TypeOK, RecordInv, MarkUnacked PROVE RecordInv'
<1>1. SameLegs(book, book')
  BY DEF MarkUnacked, SameLegs
<1> QED
  BY <1>1, SideStep DEF MarkUnacked, Resetting, Idle

\* The clock is no part of the legs.
LEMMA ClockLegs ==
    ASSUME TypeOK, NEW on, CommitClock(on)
    PROVE  SameLegs(book, book') /\ (doc' = doc \/ SameLegs(book, doc'))
BY DEF CommitClock, SameLegs, TypeOK, BookState

LEMMA RecordClock ==
    ASSUME TypeOK, RecordInv, StartOfficial \/ InvalidateOfficial
    PROVE  RecordInv'
<1>1. SameLegs(book, book') /\ (doc' = doc \/ SameLegs(book, doc'))
  BY ClockLegs DEF StartOfficial, InvalidateOfficial
<1>2. ~Resetting'
  <2>1. op' = Idle
    BY DEF StartOfficial, InvalidateOfficial, Ready
  <2> QED
    BY <2>1 DEF Resetting, Idle
<1>3. status = "up" /\ UNCHANGED <<fills, torn, dbGen, status>>
  BY DEF StartOfficial, InvalidateOfficial, Ready
<1> QED
  BY <1>1, <1>2, <1>3, SideStep

LEMMA FreshUpToDate ==
    ASSUME NEW g, fills \in Seq(FillRecord)
    PROVE  Fresh(g).lastSeq = 0 /\ UpToDate(Fresh(g))
<1>1. Fresh(g).lastSeq = 0
  BY DEF Fresh
<1> QED
  BY <1>1, FreshReflects DEF UpToDate

LEMMA RecordResetPostgres ==
    ASSUME TypeOK, RecordInv, ResetPostgres
    PROVE  RecordInv'
<1>1. fills' = <<>> /\ fills' \in Seq(FillRecord)
  BY DEF ResetPostgres
<1>2. UpToDate(book)' /\ UpToDate(doc)'
  <2>1. Fresh(dbGen + 1).lastSeq = 0 /\ Reflects(Fresh(dbGen + 1), fills', 0)
    BY FreshReflects DEF Fresh
  <2> QED
    BY <1>1, <2>1 DEF ResetPostgres, UpToDate
<1>3. NoDoubleBooking'
  BY <1>1 DEF NoDoubleBooking
<1>4. book'.gen = dbGen'
  BY DEF ResetPostgres, Fresh
<1> QED
  BY <1>1, <1>2, <1>3, <1>4 DEF ResetPostgres, CanResetPostgres, RecordInv, Resetting, Ready

LEMMA RecordResetPostgresUnacked ==
    ASSUME TypeOK, RecordInv, ResetPostgresUnacked
    PROVE  RecordInv'
<1>1. Fresh(dbGen + 1).lastSeq = 0 /\ UpToDate(Fresh(dbGen + 1))
  BY FreshUpToDate DEF TypeOK
<1>2. UpToDate(doc)' /\ doc'.lastSeq = 0
  BY <1>1 DEF ResetPostgresUnacked, UpToDate
<1> QED
  BY <1>2 DEF ResetPostgresUnacked, RecordInv, NoDoubleBooking, UpToDate, Resetting

\* The archiving reset belongs to the file backend.
LEMMA RecordResetFile ==
    ASSUME Backend = "postgres", RecordInv,
           ResetArchiveFills \/ ResetArchiveSnapshots \/ ResetCommit \/ ResetRollback
    PROVE  FALSE
BY DEF ResetArchiveFills, ResetArchiveSnapshots, ResetCommit, ResetRollback,
       RecordInv, Resetting

\* The next process reads the rows of the database's generation: those of this one,
\* or none, and then the document is as fresh as the lost reset left it.
LEMMA RecordCrash ==
    ASSUME Backend = "postgres", TypeOK, RecordInv, Crash
    PROVE  RecordInv'
<1>1. CASE book.gen = dbGen
  BY <1>1 DEF Crash, Outdated, RecordInv, NoDoubleBooking, CurrentDoc, UpToDate, Resetting, Idle
<1>2. CASE book.gen # dbGen
  <2>1. fills' = <<>> /\ Len(fills') = 0 /\ DOMAIN fills' = {}
    BY <1>2 DEF Crash, Outdated
  <2>2. (CurrentDoc => UpToDate(doc))'
    <3> SUFFICES ASSUME CurrentDoc
                 PROVE  doc.lastSeq <= 0 /\ Reflects(doc, fills', doc.lastSeq)
      BY <2>1 DEF Crash, CurrentDoc, UpToDate
    <3>1. doc.lastSeq = 0 /\ Reflects(doc, fills, 0)
      BY <1>2 DEF Crash, RecordInv, UpToDate
    <3>2. Reflects(doc, fills', 0)
      BY <3>1, ReflectsPrefix
    <3> QED
      BY <3>1, <3>2
  <2>3. NoDoubleBooking' /\ \A i \in DOMAIN fills' : fills'[i].seq = i
    BY <2>1 DEF NoDoubleBooking
  <2> QED
    BY <2>2, <2>3 DEF Crash, RecordInv, Resetting, Idle
<1> QED
  BY <1>1, <1>2

LEMMA RecordOpenTrusted ==
    ASSUME Backend = "postgres", TypeOK, RecordInv, OpenTrusted
    PROVE  RecordInv'
<1>1. CurrentDoc /\ UpToDate(doc)
  BY DEF OpenTrusted, TrustDoc, DocIsReadable, CurrentDoc, RecordInv
<1> QED
  BY <1>1 DEF OpenTrusted, RecordInv, NoDoubleBooking, CurrentDoc, UpToDate, Resetting, disk

LEMMA RecordOpenReplaying ==
    ASSUME Backend = "postgres", TypeOK, RecordInv, OpenReplaying
    PROVE  RecordInv'
<1>1. book' = Fresh(dbGen)
  BY DEF OpenReplaying
<1>2. Fresh(dbGen).lastSeq = 0 /\ Fresh(dbGen).gen = dbGen /\ UpToDate(Fresh(dbGen))
  BY FreshUpToDate DEF TypeOK, Fresh
<1>3. UpToDate(book)' /\ op'.done = book'.lastSeq /\ book'.gen = dbGen'
  BY <1>1, <1>2 DEF OpenReplaying, disk, UpToDate
<1> QED
  BY <1>3 DEF OpenReplaying, RecordInv, NoDoubleBooking, CurrentDoc, UpToDate, Resetting, disk

LEMMA RecordReplayFill == ASSUME TypeOK, PhaseOK, RecordInv, ReplayFill PROVE RecordInv'
<1> DEFINE n == book.lastSeq
<1>1. /\ op \in [call : {"replay"}, done : Nat] /\ op.done = n /\ n \in Nat /\ n < Len(fills)
      /\ fills \in Seq(FillRecord) /\ book \in BookState /\ Reflects(book, fills, n)
  BY DEF ReplayFill, PhaseOK, TypeOK, OpState, Idle, RecordInv, UpToDate
<1>2. fills[n+1].seq = n + 1
  BY <1>1 DEF RecordInv
<1>3. book' = ApplyFill(book, fills[n+1])
  BY <1>1 DEF ReplayFill
<1>4. Reflects(book', fills, n + 1)
  BY <1>1, <1>3, ApplyReflects
<1>5. book'.lastSeq = n + 1
  BY <1>1, <1>2, <1>3 DEF ApplyFill, ApplyOpen, ApplyClose, BookState
<1>6. book'.gen = book.gen
  BY <1>1, <1>3 DEF ApplyFill, ApplyOpen, ApplyClose, BookState
<1>7. UpToDate(book)' /\ op'.done = book'.lastSeq /\ book'.gen = book.gen
  BY <1>1, <1>4, <1>5, <1>6 DEF ReplayFill, disk, UpToDate
<1>8. ~Resetting'
  BY <1>1 DEF ReplayFill, Resetting
<1> QED
  BY <1>7, <1>8 DEF ReplayFill, RecordInv, NoDoubleBooking, CurrentDoc, UpToDate, disk

LEMMA RecordReplaySnapshots ==
    ASSUME TypeOK, RecordInv, ReplaySnapshots
    PROVE  RecordInv'
<1>1. SameLegs(book, book')
  BY DEF ReplaySnapshots, SameLegs, TypeOK, BookState
<1>2. UpToDate(book') /\ UpToDate(book)' /\ UpToDate(doc)'
  BY <1>1, UpToDateSame DEF ReplaySnapshots, RecordInv, UpToDate
<1>3. (book.gen # dbGen /\ CurrentDoc => doc.lastSeq = 0)'
  BY DEF ReplaySnapshots, CurrentDoc
<1> QED
  BY <1>2, <1>3 DEF ReplaySnapshots, RecordInv, NoDoubleBooking, Resetting, Idle

LEMMA RecordNext ==
    ASSUME Backend = "postgres", TypeOK, PhaseOK, RecordInv, [Next]_vars
    PROVE  RecordInv'
<1>1. CASE Next
  BY <1>1, RecordOpenExact, RecordClose, RecordPersist, RecordMark, RecordMarkGapsOlder,
     RecordMarkSettle, RecordMarkFails, RecordMarkUnacked, RecordClock, RecordResetPostgres,
     RecordResetPostgresUnacked, RecordResetFile,
     RecordCrash, RecordOpenTrusted, RecordOpenReplaying, RecordReplayFill,
     RecordReplaySnapshots DEF Next
<1>2. CASE UNCHANGED vars
  BY <1>2 DEF vars, RecordInv, NoDoubleBooking, CurrentDoc, UpToDate, Resetting
<1> QED
  BY <1>1, <1>2
-----------------------------------------------------------------------------
\* Type correctness holds of a step as well as of a state.
LEMMA TypeNext == ASSUME TypeOK, PhaseOK, [Next]_vars PROVE TypeOK' /\ PhaseOK'
<1>1. CASE Next
  BY <1>1, PhaseNext, OpenExactType, CloseType, PersistType, MarkType, MarkGapsOlderType,
     MarkSettleType, MarkFailsType, MarkUnackedType, ResetPostgresType,
     ResetPostgresUnackedType, ResetArchiveFillsType,
     ResetArchiveSnapshotsType, ResetCommitType, ResetRollbackType, StartOfficialType,
     InvalidateOfficialType, CrashType, OpenTrustedType, OpenReplayingType,
     ReplayFillType, ReplaySnapshotsType DEF Next
<1>2. CASE UNCHANGED vars
  BY <1>2 DEF vars, TypeOK, PhaseOK
<1> QED
  BY <1>1, <1>2

\* Every reachable state is one the ledger's documents can hold.
THEOREM TypeCorrect == Spec => []TypeOK
<1>1. Init => TypeOK /\ PhaseOK
  BY TypeInit, PhaseInit
<1>2. TypeOK /\ PhaseOK /\ [Next]_vars => TypeOK' /\ PhaseOK'
  BY TypeNext
<1> QED
  BY <1>1, <1>2, PTL DEF Spec

\* In the production backend no leg of a trade is ever booked twice, whatever is
\* retried, whichever replies are lost and wherever the process stops.
THEOREM PostgresNeverDoubleBooks ==
    ASSUME Backend = "postgres"
    PROVE  Spec => []NoDoubleBooking
<1> DEFINE Inv == TypeOK /\ PhaseOK /\ RecordInv
<1>1. Init => Inv
  BY TypeInit, PhaseInit, RecordInit
<1>2. Inv /\ [Next]_vars => Inv'
  BY TypeNext, RecordNext
<1>3. Inv => NoDoubleBooking
  BY DEF RecordInv
<1> QED
  BY <1>1, <1>2, <1>3, PTL DEF Spec
-----------------------------------------------------------------------------
\* When every append is acknowledged, an open book has applied every fill.
CaughtUp == status = "up" => book.lastSeq = Len(fills)

LEMMA CaughtUpBookLeg ==
    ASSUME Backend = "postgres", "unacked" \notin Faults, TypeOK, RecordInv, CaughtUp,
           status = "up", NEW f, f.seq = book.lastSeq + 1, BookLeg(f)
    PROVE  CaughtUp'
<1>1. fills' = Append(fills, f) /\ book' = ApplyFill(book, f)
  BY BackendAssumption DEF BookLeg, AppendAcked, AppendUnacked, AppendTorn, Written, RecordInv
<1>2. Len(fills') = Len(fills) + 1 /\ book.lastSeq = Len(fills) /\ book \in BookState
  BY <1>1 DEF TypeOK, CaughtUp
<1>3. book'.lastSeq = book.lastSeq + 1
  BY <1>1, <1>2 DEF ApplyFill, ApplyOpen, ApplyClose, BookState
<1> QED
  BY <1>2, <1>3 DEF CaughtUp

LEMMA CaughtUpOpenTrusted ==
    ASSUME Backend = "postgres", TypeOK, RecordInv, OpenTrusted
    PROVE  CaughtUp'
<1>1. /\ doc.lastSeq \in Nat /\ doc.lastSeq <= Len(fills) /\ Len(fills) \in Nat
      /\ \A i \in DOMAIN fills : i <= doc.lastSeq
  <2>1. doc \in BookState /\ fills \in Seq(FillRecord)
    BY DEF OpenTrusted, TrustDoc, TypeOK
  <2>2. UpToDate(doc) /\ \A i \in DOMAIN fills : fills[i].seq = i
    BY DEF OpenTrusted, TrustDoc, DocIsReadable, CurrentDoc, RecordInv
  <2> QED
    BY <2>1, <2>2 DEF OpenTrusted, TrustDoc, BookState, UpToDate
<1>2. doc.lastSeq = Len(fills)
  <2>1. CASE Len(fills) = 0
    BY <1>1, <2>1
  <2>2. CASE Len(fills) # 0
    <3>1. Len(fills) \in DOMAIN fills
      BY <1>1, <2>2 DEF TypeOK
    <3> QED
      BY <1>1, <3>1
  <2> QED
    BY <2>1, <2>2
<1> QED
  BY <1>2 DEF OpenTrusted, CaughtUp, disk

LEMMA CaughtUpReplaySnapshots ==
    ASSUME TypeOK, RecordInv, ReplaySnapshots
    PROVE  CaughtUp'
<1>1. book'.lastSeq = book.lastSeq /\ book.lastSeq = Len(fills)
  BY DEF ReplaySnapshots, RecordInv, TypeOK, BookState
<1> QED
  BY <1>1 DEF ReplaySnapshots, CaughtUp

LEMMA CaughtUpNext ==
    ASSUME Backend = "postgres", "unacked" \notin Faults, TypeOK, PhaseOK, RecordInv,
           CaughtUp, [Next]_vars
    PROVE  CaughtUp'
<1>1. ASSUME NEW t \in Trades, OpenExact(t) PROVE CaughtUp'
  <2>1. PICK qty \in Qtys, price \in Prices, cost \in Costs :
            BookLeg(OpenFill(t, qty, price, cost))
    BY <1>1 DEF OpenExact
  <2> QED
    BY <1>1, <2>1, CaughtUpBookLeg DEF OpenExact, Ready, OpenFill
<1>2. ASSUME NEW k \in Keys, NEW kind \in CloseKinds, Close(k, kind) PROVE CaughtUp'
  <2>1. PICK price \in Prices : BookLeg(CloseFill(k, price, kind))
    BY <1>2 DEF Close
  <2> QED
    BY <1>2, <2>1, CaughtUpBookLeg DEF Close, Ready, CloseFill
<1>3. CASE Persist \/ MarkFails \/ MarkUnacked
  BY <1>3 DEF Persist, MarkFails, MarkUnacked, CaughtUp, disk
<1>4. ASSUME NEW k \in Keys, NEW d \in Dates, NEW price \in Prices \cup {NotReal},
             Mark(k, d, price)
      PROVE  CaughtUp'
  BY <1>4 DEF Mark, Ready, CaughtUp, disk, TypeOK, BookState
<1>5. CASE MarkGapsOlder
  <2>1. SameLegs(book, book')
    BY <1>5, SettleLegs DEF MarkGapsOlder, Older, PendingDates
  <2> QED
    BY <1>5, <2>1 DEF MarkGapsOlder, CaughtUp, SameLegs
<1>6. CASE MarkSettle
  <2>1. op.date \in Dates
    BY <1>6, MarkDate DEF MarkSettle
  <2>2. SameLegs(book, book')
    BY <1>6, <2>1, SettleLegs DEF MarkSettle, SameLegs
  <2> QED
    BY <1>6, <2>2 DEF MarkSettle, CaughtUp, SameLegs
<1>7. CASE ResetPostgres
  BY <1>7 DEF ResetPostgres, CaughtUp, Fresh
<1>8. CASE StartOfficial \/ InvalidateOfficial
  BY <1>8, ClockLegs DEF StartOfficial, InvalidateOfficial, CaughtUp, Ready, SameLegs
<1>11. CASE ResetPostgresUnacked
  BY <1>11 DEF ResetPostgresUnacked
<1>9. CASE Crash \/ OpenReplaying \/ ReplayFill
  BY <1>9 DEF Crash, OpenReplaying, ReplayFill, CaughtUp
<1>10. CASE UNCHANGED vars
  BY <1>10 DEF vars, CaughtUp
<1> QED
  BY <1>1, <1>2, <1>3, <1>4, <1>5, <1>6, <1>7, <1>8, <1>9, <1>10, <1>11, RecordResetFile,
     CaughtUpOpenTrusted, CaughtUpReplaySnapshots DEF Next

\* In the production backend, when no reply is lost, the live book is always the one
\* the append-only record determines: a replayed book and a live book cannot drift.
THEOREM PostgresBookMatchesRecord ==
    ASSUME Backend = "postgres", "unacked" \notin Faults
    PROVE  Spec => []BookMatchesRecord
<1> DEFINE Inv == TypeOK /\ PhaseOK /\ RecordInv /\ CaughtUp
<1>1. Init => Inv
  BY TypeInit, PhaseInit, RecordInit DEF Init, CaughtUp
<1>2. Inv /\ [Next]_vars => Inv'
  BY TypeNext, RecordNext, CaughtUpNext
<1>3. Inv => BookMatchesRecord
  BY DEF RecordInv, CaughtUp, UpToDate, BookMatchesRecord
<1> QED
  BY <1>1, <1>2, <1>3, PTL DEF Spec
-----------------------------------------------------------------------------
(***************************************************************************)
(* PaperLedger on PostgreSQL implements TradeBook.                         *)
(***************************************************************************)
\* What a state that reflects the whole record says is what is read off the record.
LotOf(st, k) == IF st.lots[k] = NoLot THEN NoLot.trade ELSE st.lots[k].trade

LEMMA ReadsOff ==
    ASSUME NEW st \in BookState, NEW fs \in Seq(FillRecord), Reflects(st, fs, Len(fs))
    PROVE  /\ BookedIn(fs, Len(fs)) = st.booked
           /\ \A k \in Keys : LotIn(fs, k) = LotOf(st, k)
<1> DEFINE n == Len(fs)
<1>1. n \in Nat /\ DOMAIN fs = 1..n
  OBVIOUS
<1>2. ASSUME NEW k \in Keys PROVE LotIn(fs, k) = LotOf(st, k)
  <2>1. LotMatches(st.lots[k], fs, n, k)
    BY DEF Reflects
  <2>2. CASE st.lots[k] = NoLot
    <3>1. \A i \in 1..n : ~Opened(fs, k, i)
      BY <2>1, <2>2 DEF LotMatches, Opened, OpenKinds, CloseKinds
    <3> QED
      BY <1>1, <2>2, <3>1 DEF LotIn, LotOf
  <2>3. CASE st.lots[k] # NoLot
    <3>1. PICK i \in 1..n :
             /\ Opened(fs, k, i)
             /\ st.lots[k] = [trade |-> fs[i].trade, side |-> fs[i].side, qty |-> fs[i].qty,
                              price |-> fs[i].price, cost |-> fs[i].cost]
      BY <2>1, <2>3 DEF LotMatches, Opened
    <3>2. ASSUME NEW j \in 1..n, Opened(fs, k, j) PROVE j = i
      BY <1>1, <3>1, <3>2 DEF Opened, LastOn
    <3>3. (CHOOSE j \in DOMAIN fs : Opened(fs, k, j)) = i
      BY <1>1, <3>1, <3>2
    <3>4. LotIn(fs, k) = fs[i].trade
      BY <1>1, <3>1, <3>3 DEF LotIn
    <3>5. st.lots[k].trade = fs[i].trade
      BY <3>1
    <3> QED
      BY <2>3, <3>4, <3>5 DEF LotOf
  <2> QED
    BY <2>2, <2>3
<1> QED
  BY <1>2 DEF Reflects
-----------------------------------------------------------------------------
\* A leg that is appended is the abstract leg, read off the longer record.
LEMMA LegReads ==
    ASSUME Backend = "postgres", TypeOK, RecordInv, status = "up", op = Idle,
           NEW f \in FillRecord, f.seq = book.lastSeq + 1, BookLeg(f)
    PROVE  /\ RecordBooked = book.booked
           /\ \A k \in Keys : RecordLot[k] = LotOf(book, k)
           /\ RecordBooked' = RecordBooked \cup {Booking(f)}
           /\ RecordLot' = [RecordLot EXCEPT
                              ![f.key] = IF f.kind \in OpenKinds THEN f.trade ELSE NoLot.trade]
<1> DEFINE n == Len(fills)
           st == ApplyFill(book, f)
<1>1. fills' = Append(fills, f) /\ book.lastSeq = n
  BY AppendsCaughtUp
<1>2. Record = fills /\ Record' = fills'
  BY DEF Record, Resetting, Idle, BookLeg, AppendAcked, AppendUnacked, AppendTorn
<1>3. /\ n \in Nat /\ fills \in Seq(FillRecord) /\ book \in BookState /\ Reflects(book, fills, n)
      /\ fills' \in Seq(FillRecord) /\ Len(fills') = n + 1 /\ fills'[n+1] = f
      /\ \A i \in 1..n : fills'[i] = fills[i]
  BY <1>1 DEF TypeOK, RecordInv, UpToDate
<1>4. Reflects(st, fills', n + 1)
  <2>1. Reflects(book, fills', n)
    BY <1>3, ReflectsPrefix
  <2> QED
    BY <1>3, <2>1, ApplyReflects
<1>5. st \in BookState
  BY <1>3, ApplyFillType
<1>6. /\ RecordBooked = book.booked
      /\ \A k \in Keys : RecordLot[k] = LotOf(book, k)
  BY <1>2, <1>3, ReadsOff DEF RecordBooked, RecordLot
<1>7. /\ RecordBooked' = st.booked
      /\ RecordLot' = [k \in Keys |-> LotOf(st, k)]
  BY <1>2, <1>3, <1>4, <1>5, ReadsOff DEF RecordBooked, RecordLot
<1>8. st.booked = book.booked \cup {Booking(f)}
  BY <1>3 DEF ApplyFill, ApplyOpen, ApplyClose, Booking, BookState, FillRecord
<1>9. ASSUME NEW k \in Keys
      PROVE  LotOf(st, k) = IF k # f.key THEN LotOf(book, k)
                            ELSE IF f.kind \in OpenKinds THEN f.trade ELSE NoLot.trade
  <2>1. CASE k # f.key
    <3>1. st.lots[k] = book.lots[k]
      BY <1>3, <2>1 DEF ApplyFill, ApplyOpen, ApplyClose, BookState, FillRecord
    <3> QED
      BY <2>1, <3>1 DEF LotOf
  <2>2. CASE k = f.key /\ f.kind \in OpenKinds
    <3>1. st.lots[k] = [trade |-> f.trade, side |-> f.side, qty |-> f.qty,
                        price |-> f.price, cost |-> f.cost]
      BY <1>3, <2>2 DEF ApplyFill, ApplyOpen, BookState, FillRecord
    <3>2. st.lots[k] # NoLot /\ st.lots[k].trade = f.trade
      BY <3>1 DEF NoLot
    <3> QED
      BY <2>2, <3>2 DEF LotOf
  <2>3. CASE k = f.key /\ f.kind \notin OpenKinds
    <3>1. st.lots[k] = NoLot
      BY <1>3, <2>3 DEF ApplyFill, ApplyClose, BookState, FillRecord
    <3> QED
      BY <2>3, <3>1 DEF LotOf
  <2> QED
    BY <2>1, <2>2, <2>3
<1>10. f.key \in Keys
  BY DEF FillRecord
<1>11. RecordLot \in [Keys -> {RecordLot[k] : k \in Keys}] /\ DOMAIN RecordLot = Keys
  BY DEF RecordLot
<1> QED
  BY <1>6, <1>7, <1>8, <1>9, <1>10, <1>11
-----------------------------------------------------------------------------
(***************************************************************************)
(* One lemma per kind of step: a leg, a new generation, or nothing.        *)
(***************************************************************************)
\* openExact books an open leg the abstract book may book.
LEMMA OpenMaps ==
    ASSUME Backend = "postgres", TypeOK, RecordInv, NEW t \in Trades, OpenExact(t)
    PROVE  Abstract!Next
<1>1. PICK qty \in Qtys, price \in Prices, cost \in Costs :
        BookLeg(OpenFill(t, qty, price, cost))
  BY DEF OpenExact
<1> DEFINE f == OpenFill(t, qty, price, cost)
<1>2. f \in FillRecord
  BY OpenFillType DEF TypeOK
<1>3. /\ f.seq = book.lastSeq + 1 /\ f.key = KeyOf[t] /\ f.trade = t
      /\ f.kind = OpenKindOf[t] /\ Booking(f) = <<t, OpenKindOf[t]>>
  BY DEF OpenFill, Booking
<1>4. KeyOf[t] \in Keys /\ OpenKindOf[t] \in OpenKinds
  BY TradeAssumption
<1>5. status = "up" /\ op = Idle /\ MayOpen(t)
  BY DEF OpenExact, Ready
<1>6. /\ RecordBooked = book.booked
      /\ RecordLot[KeyOf[t]] = LotOf(book, KeyOf[t])
      /\ RecordBooked' = RecordBooked \cup {<<t, OpenKindOf[t]>>}
      /\ RecordLot' = [RecordLot EXCEPT ![KeyOf[t]] = t]
  <2> HIDE DEF f
  <2> QED
    BY <1>1, <1>2, <1>3, <1>4, <1>5, LegReads DEF f
<1>7. RecordLot[KeyOf[t]] = NoLot.trade /\ <<t, OpenKindOf[t]>> \notin RecordBooked
  BY <1>5, <1>6 DEF MayOpen, LotOf
<1>8. Abstract!BookOpen(KeyOf[t], t, OpenKindOf[t])
  BY <1>4, <1>6, <1>7 DEF Abstract!BookOpen, Abstract!MayBookOpen, Abstract!OpenKinds, OpenKinds
<1> QED
  BY <1>4, <1>8 DEF Abstract!Next, Abstract!OpenKinds, OpenKinds

\* close books the exit leg of the lot the abstract book holds.
LEMMA CloseMaps ==
    ASSUME Backend = "postgres", TypeOK, RecordInv, NEW k \in Keys, NEW kind \in CloseKinds,
           Close(k, kind)
    PROVE  Abstract!Next
<1>1. PICK price \in Prices : BookLeg(CloseFill(k, price, kind))
  BY DEF Close
<1> DEFINE f == CloseFill(k, price, kind)
           t == book.lots[k].trade
<1>2. status = "up" /\ op = Idle /\ MayClose(k, kind)
  BY DEF Close, Ready
<1>3. f \in FillRecord
  BY <1>2, CloseFillType DEF TypeOK
<1>4. /\ f.seq = book.lastSeq + 1 /\ f.key = k /\ f.trade = t /\ f.kind = kind
      /\ Booking(f) = <<t, kind>> /\ f.kind \notin OpenKinds
  BY DEF CloseFill, Booking, OpenKinds, CloseKinds
<1>5. /\ RecordBooked = book.booked
      /\ RecordLot[k] = LotOf(book, k)
      /\ RecordBooked' = RecordBooked \cup {<<t, kind>>}
      /\ RecordLot' = [RecordLot EXCEPT ![k] = NoLot.trade]
  <2> HIDE DEF f
  <2> QED
    BY <1>1, <1>2, <1>3, <1>4, LegReads DEF f
<1>6. book.lots[k] # NoLot /\ <<t, kind>> \notin book.booked
  BY <1>2 DEF MayClose
<1>7. t \in Trades
  BY <1>6 DEF TypeOK, BookState, LotRecord
<1>8. RecordLot[k] = t /\ t # NoLot.trade
  BY <1>5, <1>6, <1>7, NoneAssumption DEF LotOf
<1>9. Abstract!BookClose(k, kind)
  BY <1>5, <1>6, <1>8 DEF Abstract!BookClose, Abstract!MayBookClose, Abstract!CloseKinds, CloseKinds
<1> QED
  BY <1>9 DEF Abstract!Next, Abstract!CloseKinds, CloseKinds

\* An empty record reads as the empty book.
LEMMA EmptyReads ==
    ASSUME fills = <<>>, ~Resetting
    PROVE  RecordBooked = {} /\ RecordLot = [k \in Keys |-> NoLot.trade]
<1>1. Record = <<>> /\ Len(Record) = 0 /\ DOMAIN Record = {}
  BY DEF Record
<1>2. RecordBooked = {}
  BY <1>1 DEF RecordBooked, BookedIn
<1>3. ASSUME NEW k \in Keys PROVE LotIn(Record, k) = NoLot.trade
  BY <1>1 DEF LotIn
<1> QED
  BY <1>2, <1>3 DEF RecordLot

\* A step that leaves the fills alone reads as nothing.
LEMMA SameReads ==
    ASSUME ~Resetting, ~Resetting', fills' = fills
    PROVE  UNCHANGED <<RecordBooked, RecordLot>>
<1>1. Record' = Record
  BY DEF Record
<1> QED
  BY <1>1 DEF RecordBooked, RecordLot

\* A step that empties the fills reads as a new generation.
LEMMA NewGenerationReads ==
    ASSUME ~Resetting', fills' = <<>>
    PROVE  Abstract!Next
<1>1. Record' = <<>> /\ Len(Record') = 0 /\ DOMAIN Record' = {}
  BY DEF Record
<1>2. RecordBooked' = {}
  BY <1>1 DEF RecordBooked, BookedIn
<1>3. RecordLot' = [k \in Keys |-> NoLot.trade]
  BY <1>1 DEF RecordLot, LotIn
<1> QED
  BY <1>2, <1>3 DEF Abstract!Next, Abstract!NewGeneration

\* Every step of the ledger is a step of the abstract book, or a stutter of it.
LEMMA StepMaps ==
    ASSUME Backend = "postgres", TypeOK, RecordInv, RecordInv', [Next]_vars
    PROVE  [Abstract!Next]_<<RecordBooked, RecordLot>>
<1>1. ~Resetting /\ ~Resetting'
  BY DEF RecordInv
<1>2. CASE \E t \in Trades : OpenExact(t)
  BY <1>2, OpenMaps
<1>3. CASE \E k \in Keys, kind \in CloseKinds : Close(k, kind)
  BY <1>3, CloseMaps
<1>4. CASE ResetPostgres
  BY <1>1, <1>4, NewGenerationReads DEF ResetPostgres
<1>5. CASE Crash
  BY <1>1, <1>5, SameReads, NewGenerationReads DEF Crash
<1>6. CASE ResetArchiveFills \/ ResetArchiveSnapshots \/ ResetCommit \/ ResetRollback
  BY <1>6, RecordResetFile
<1>7. CASE \/ Persist
           \/ \E k \in Keys, d \in Dates, price \in Prices \cup {NotReal} : Mark(k, d, price)
           \/ MarkGapsOlder \/ MarkSettle \/ MarkFails \/ MarkUnacked
           \/ ResetPostgresUnacked \/ StartOfficial \/ InvalidateOfficial
           \/ OpenTrusted \/ OpenReplaying \/ ReplayFill \/ ReplaySnapshots
           \/ UNCHANGED vars
  <2>1. fills' = fills
    BY <1>7 DEF Persist, Mark, MarkGapsOlder, MarkSettle, MarkFails, MarkUnacked,
                ResetPostgresUnacked, StartOfficial, InvalidateOfficial, OpenTrusted,
                OpenReplaying, ReplayFill, ReplaySnapshots, disk, vars
  <2> QED
    BY <1>1, <2>1, SameReads
<1> QED
  BY <1>2, <1>3, <1>4, <1>5, <1>6, <1>7 DEF Next

\* On PostgreSQL, whatever fails, is lost or stops, the ledger's record behaves as
\* the abstract book: a leg is booked once or not at all, a config holds one lot at
\* most, and an exit is booked under the trade of the lot it closes.
THEOREM PostgresImplementsTradeBook ==
    ASSUME Backend = "postgres"
    PROVE  Spec => ImplementsTradeBook
<1> DEFINE Inv == TypeOK /\ PhaseOK /\ RecordInv
<1>1. Init => Inv
  BY TypeInit, PhaseInit, RecordInit
<1>2. Inv /\ [Next]_vars => Inv'
  BY TypeNext, RecordNext
<1>3. Init => Abstract!EmptyBook
  BY RecordInit, EmptyReads DEF Init, RecordInv, Abstract!EmptyBook
<1>4. Inv /\ Inv' /\ [Next]_vars => [Abstract!Next]_<<RecordBooked, RecordLot>>
  BY StepMaps
<1> QED
  BY <1>1, <1>2, <1>3, <1>4, PTL DEF Spec, ImplementsTradeBook, Abstract!Spec
=============================================================================
