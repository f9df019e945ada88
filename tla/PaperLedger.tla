----------------------------- MODULE PaperLedger -----------------------------
(***************************************************************************)
(* The simulated book of the paper service (paper/ledger.go and the book's *)
(* tables in paper/postgres.go): append-only fills and snapshots, a state  *)
(* document that is only a cache of them, and the process that owns both.  *)
(*                                                                         *)
(* The book is one mutex-guarded object, so calls never interleave; what   *)
(* makes it hard is that each call is SEVERAL durable writes and the       *)
(* process may stop between any two of them.  A call is therefore a first  *)
(* step (guards, append) that leaves its remaining writes in op, and one   *)
(* step per remaining write.  A crash drops memory and op.                 *)
(*                                                                         *)
(* Money is an integer in units of 1/10000 of a price unit, so that        *)
(* notional * costBps / 10000 is exact.                                    *)
(***************************************************************************)
EXTENDS Integers, Sequences, FiniteSets

CONSTANTS
    Keys,          \* the enabled configs (PaperCfg.Key())
    Trades,        \* journal trade ids
    KeyOf,         \* the config each trade belongs to
    SideOf,        \* "long" or "short"
    OpenKindOf,    \* "open" or "flip-open": captured on the trade, never recomputed
    Prices, Qtys, Costs,   \* small sets of positive prices, quantities, cost in bps
    LastDate,      \* dates are 1..LastDate
    StartingCash,
    Backend,       \* "postgres" (production) or "file" (fallback)
    Faults,        \* the storage failures that may happen
    MaxCrashes, MaxResets  \* bounds on the environment

OpenKinds == {"open", "flip-open"}
CloseKinds == {"close", "flip-close"}
Dates == 1..LastDate

ASSUME TradeAssumption ==
    /\ KeyOf \in [Trades -> Keys]
    /\ SideOf \in [Trades -> {"long", "short"}]
    /\ OpenKindOf \in [Trades -> OpenKinds]

ASSUME NumberAssumption ==
    /\ Prices \subseteq Nat \ {0} /\ Qtys \subseteq Nat \ {0} /\ Costs \subseteq Nat
    /\ LastDate \in Nat /\ StartingCash \in Nat
    /\ MaxCrashes \in Nat /\ MaxResets \in Nat

\* What storage may do beyond succeeding.  "refuse": an error, and nothing changed.
\* "unacked": the write is durable but the caller gets an error (an fsync that
\* fails after the write, a database reply that is lost).  "torn": a partial line.
ASSUME BackendAssumption ==
    /\ Backend \in {"postgres", "file"}
    /\ Faults \subseteq {"refuse", "unacked", "torn"}
    /\ "torn" \in Faults => Backend = "file"

VARIABLES
    fills,     \* durable: the parseable records of fills.jsonl / the fills table's
               \*   rows of the generation the process works in
    torn,      \* durable: fills.jsonl ends in a partial line
    snaps,     \* durable: snapshots.jsonl / the snapshots table, likewise
    doc,       \* durable: ledger.json / the ledger_state document
    dbGen,     \* durable: meta.current_generation (postgres)
    status,    \* "up", "starting" or "down"
    book,      \* memory: Ledger.st
    op,        \* memory: the writes the current call still has to make
    marked,    \* the caller: latest date each config has marked (its bar cursor)
    crashes    \* bound

vars == <<fills, torn, snaps, doc, dbGen, status, book, op, marked, crashes>>
disk == <<fills, torn, snaps, doc, dbGen>>
-----------------------------------------------------------------------------
NoLot == [trade |-> "none"]
NoDoc == [gen |-> -1]
Idle == [call |-> "none"]

Scale == 10000
Notional(qty, price) == qty * price * Scale
Fee(qty, price, cost) == qty * price * cost
Sign(side) == IF side = "short" THEN -1 ELSE 1

\* freshLedgerState
Fresh(g) ==
    [gen |-> g, cash |-> StartingCash, realized |-> 0,
     lots |-> [k \in Keys |-> NoLot], booked |-> {}, lastSeq |-> 0,
     snapshots |-> {}, gaps |-> {}, lastMark |-> [k \in Keys |-> 0],
     pending |-> [d \in Dates |-> [k \in Keys |-> 0]],
     official |-> FALSE]

\* A pending mark is 0 (absent), a real price, or -1 (a bar that is not a mark).
NotReal == -1
PendingDates(st) == {d \in Dates : \E k \in Keys : st.pending[d][k] # 0}
Unpend(st, d) == [st EXCEPT !.pending[d] = [k \in Keys |-> 0]]

\* applyFill: the one place a fill moves cash, lots and realized P&L.
ApplyOpen(st, f) ==
    [st EXCEPT
        !.lots[f.key] = [trade |-> f.trade, side |-> f.side, qty |-> f.qty,
                         price |-> f.price, cost |-> f.cost],
        !.cash = @ - Sign(f.side) * Notional(f.qty, f.price)
                   - Fee(f.qty, f.price, f.cost)]

ApplyClose(st, f) ==
    [st EXCEPT
        !.lots[f.key] = NoLot,
        !.cash = @ + Sign(f.side) * Notional(f.qty, f.price)
                   - Fee(f.qty, f.price, f.cost),
        !.realized = @ + f.realized]

ApplyFill(st, f) ==
    LET moved == IF f.kind \in OpenKinds THEN ApplyOpen(st, f) ELSE ApplyClose(st, f)
    IN  [moved EXCEPT !.booked = @ \cup {<<f.trade, f.kind>>},
                      !.lastSeq = IF f.seq > @ THEN f.seq ELSE @]

\* equityLocked and unrealizedLocked, at markPriceLocked.
MarkPrice(st, k) == IF st.lastMark[k] > 0 THEN st.lastMark[k] ELSE st.lots[k].price
HeldKeys(st) == {k \in Keys : st.lots[k] # NoLot}
-----------------------------------------------------------------------------
(***************************************************************************)
(* Booking one leg: openExactLocked and close.                             *)
(***************************************************************************)
Ready == status = "up" /\ op = Idle

OpenFill(t, qty, price, cost) ==
    [seq |-> book.lastSeq + 1, key |-> KeyOf[t], side |-> SideOf[t],
     qty |-> qty, price |-> price, cost |-> cost, kind |-> OpenKindOf[t],
     trade |-> t, realized |-> 0]

\* Mutant: the exit realizes its own fee and forgets the entry's.
CloseFillOneFee(k, price, kind) ==
    LET lot == book.lots[k]
    IN  [seq |-> book.lastSeq + 1, key |-> k, side |-> lot.side,
         qty |-> lot.qty, price |-> price, cost |-> lot.cost, kind |-> kind,
         trade |-> lot.trade,
         realized |-> Sign(lot.side) * (Notional(lot.qty, price) - Notional(lot.qty, lot.price))
                      - Fee(lot.qty, price, lot.cost)]

\* The exit pays the cost the LOT was opened under and realizes both legs' fees.
CloseFill(k, price, kind) ==
    LET lot == book.lots[k]
    IN  [seq |-> book.lastSeq + 1, key |-> k, side |-> lot.side,
         qty |-> lot.qty, price |-> price, cost |-> lot.cost, kind |-> kind,
         trade |-> lot.trade,
         realized |-> Sign(lot.side) * (Notional(lot.qty, price) - Notional(lot.qty, lot.price))
                      - Fee(lot.qty, lot.price, lot.cost) - Fee(lot.qty, price, lot.cost)]

\* Mutant: a retry is not recognised as already booked.
MayOpenNoDedup(t) == book.lots[KeyOf[t]] = NoLot

\* The duplicate check comes before the lot check, so that a retry learns that
\* its work is done instead of that the book disagrees with it.
MayOpen(t) ==
    /\ <<t, OpenKindOf[t]>> \notin book.booked
    /\ book.lots[KeyOf[t]] = NoLot

MayClose(k, kind) ==
    /\ book.lots[k] # NoLot
    /\ <<book.lots[k].trade, kind>> \notin book.booked

\* Mutant: the fills table has no key on the sequence number.
SeqIsFreeNoKey(f) == TRUE

\* The primary key (generation, seq) of the fills table refuses a reused number.
SeqIsFree(f) == Backend = "file" \/ \A i \in DOMAIN fills : fills[i].seq # f.seq

\* A line appended after a partial line is swallowed by it.
Written(f) ==
    /\ fills' = IF torn THEN fills ELSE Append(fills, f)
    /\ torn' = FALSE

\* The append succeeds and memory follows it; the state document is written next.
AppendAcked(f) ==
    /\ SeqIsFree(f)
    /\ Written(f)
    /\ book' = ApplyFill(book, f)
    /\ op' = [call |-> "persist"]

\* The append fails for the caller: the sequence number is given back.  Nothing
\* was written (a refusal, which changes nothing and is not a step), or all of it
\* was, or part of it.
AppendUnacked(f) ==
    /\ "unacked" \in Faults /\ SeqIsFree(f)
    /\ Written(f)
    /\ UNCHANGED <<book, op>>

AppendTorn(f) ==
    /\ "torn" \in Faults
    /\ torn' = TRUE
    /\ UNCHANGED <<fills, book, op>>

BookLeg(f) ==
    /\ AppendAcked(f) \/ AppendUnacked(f) \/ AppendTorn(f)
    /\ UNCHANGED <<snaps, doc, dbGen, status, marked, crashes>>

OpenExact(t) ==
    /\ Ready /\ MayOpen(t)
    /\ \E qty \in Qtys, price \in Prices, cost \in Costs :
           BookLeg(OpenFill(t, qty, price, cost))

Close(k, kind) ==
    /\ Ready /\ MayClose(k, kind)
    /\ \E price \in Prices : BookLeg(CloseFill(k, price, kind))

\* persistLocked: the last write of a call.  A failure is returned to the caller
\* and memory keeps what the fills already say.
Persist ==
    /\ status = "up" /\ op.call = "persist"
    /\ \/ doc' = book
       \/ "refuse" \in Faults /\ UNCHANGED doc
    /\ op' = Idle
    /\ UNCHANGED <<fills, torn, snaps, dbGen, status, book, marked, crashes>>
-----------------------------------------------------------------------------
(***************************************************************************)
(* Mark, gapLocked and settleLocked: one date's snapshot or gap.           *)
(***************************************************************************)
\* Mutant: any snapshot counts as this date's.
HasAnySnapshot(st, d) == st.snapshots # {}

HasSnapshot(st, d) == \E s \in st.snapshots : s.date = d

\* Mutant: the snapshots table has no key on the date.
DateIsFreeNoKey(d) == TRUE

\* The primary key (generation, date) of the snapshots table.
DateIsFree(d) == Backend = "file" \/ \A i \in DOMAIN snaps : snaps[i].date # d

Mark(k, d, price) ==
    /\ Ready
    /\ d >= marked[k]
    /\ marked' = [marked EXCEPT ![k] = d]
    /\ book' = [book EXCEPT !.pending[d][k] = price,
                            !.lastMark[k] = IF price > 0 THEN price ELSE @]
    /\ op' = [call |-> "mark", date |-> d]
    /\ UNCHANGED <<disk, status, crashes>>

Older(d) == {e \in PendingDates(book) : e < d}

Unsettled(d) == d \notin book.gaps /\ ~HasSnapshot(book, d)
GapOf(d) == [date |-> d, gap |-> TRUE]

\* gapLocked(d): a no-op on a date already settled, otherwise a durable gap record.
GapLocked(d) ==
    IF ~Unsettled(d)
    THEN /\ book' = Unpend(book, d)
         /\ UNCHANGED snaps
    ELSE /\ DateIsFree(d)
         /\ snaps' = Append(snaps, GapOf(d))
         /\ book' = [Unpend(book, d) EXCEPT !.gaps = @ \cup {d}]

MarkGapsOlder ==
    /\ status = "up" /\ op.call = "mark"
    /\ \E d \in Older(op.date) : GapLocked(d)
    /\ UNCHANGED <<fills, torn, doc, dbGen, status, op, marked, crashes>>

\* settleLocked scans the enabled list in order: a missing mark met first means
\* "still waiting", an unreal one met first means a gap.  With both present the
\* configured order decides, and the order is the operator's to choose.
MayWait(d) == \E k \in Keys : book.pending[d][k] = 0
MayGap(d) == \E k \in Keys : book.pending[d][k] = NotReal
AllReal(d) == \A k \in Keys : book.pending[d][k] > 0

\* The book's equity at exactly these closes is a function of the fills and the marks.
SnapshotOf(d) == [date |-> d, gap |-> FALSE, marks |-> book.pending[d]]

TakeSnapshot(d) ==
    IF HasSnapshot(book, d)
    THEN /\ book' = [Unpend(book, d) EXCEPT !.lastMark = book.pending[d]]
         /\ UNCHANGED snaps
    ELSE /\ DateIsFree(d)
         /\ snaps' = Append(snaps, SnapshotOf(d))
         /\ book' = [Unpend(book, d) EXCEPT !.snapshots = @ \cup {SnapshotOf(d)},
                                            !.lastMark = book.pending[d]]

MarkSettle ==
    /\ status = "up" /\ op.call = "mark" /\ Older(op.date) = {}
    /\ \/ MayWait(op.date) /\ UNCHANGED <<book, snaps>>
       \/ MayGap(op.date) /\ GapLocked(op.date)
       \/ AllReal(op.date) /\ TakeSnapshot(op.date)
    /\ op' = [call |-> "persist"]
    /\ UNCHANGED <<fills, torn, doc, dbGen, status, marked, crashes>>

\* The records the call in progress may have to append.
GapsSomeOlder(d) == d \in Older(op.date) /\ Unsettled(d)
GapsItsOwn(d) == d = op.date /\ Older(d) = {} /\ MayGap(d) /\ Unsettled(d)
SnapshotsItsOwn(d) == d = op.date /\ Older(d) = {} /\ AllReal(d) /\ ~HasSnapshot(book, d)

\* An append that fails ends the call where it stands, without persisting: refused
\* by the primary key or by the storage, or written and never acknowledged.
Conflicts ==
    \E d \in Dates : /\ ~DateIsFree(d)
                     /\ GapsSomeOlder(d) \/ GapsItsOwn(d) \/ SnapshotsItsOwn(d)

MarkFails ==
    /\ status = "up" /\ op.call = "mark"
    /\ "refuse" \in Faults \/ Conflicts
    /\ op' = Idle
    /\ UNCHANGED <<disk, status, book, marked, crashes>>

MarkUnacked ==
    /\ status = "up" /\ op.call = "mark" /\ "unacked" \in Faults
    /\ \E d \in Dates :
           /\ DateIsFree(d)
           /\ \/ (GapsSomeOlder(d) \/ GapsItsOwn(d)) /\ snaps' = Append(snaps, GapOf(d))
              \/ SnapshotsItsOwn(d) /\ snaps' = Append(snaps, SnapshotOf(d))
    /\ op' = Idle
    /\ UNCHANGED <<fills, torn, doc, dbGen, status, book, marked, crashes>>
-----------------------------------------------------------------------------
(***************************************************************************)
(* Reset and the official clock.                                           *)
(***************************************************************************)
\* Postgres: one transaction moves the generation and replaces the state document;
\* prior rows stay under their own generation.
CanResetPostgres ==
    /\ Ready /\ Backend = "postgres" /\ dbGen <= MaxResets
    /\ dbGen = book.gen

ResetPostgres ==
    /\ CanResetPostgres
    /\ dbGen' = dbGen + 1
    /\ fills' = <<>> /\ snaps' = <<>>
    /\ doc' = Fresh(dbGen + 1) /\ book' = Fresh(dbGen + 1)
    /\ op' = [call |-> "day0"]
    /\ marked' = [k \in Keys |-> 0]
    /\ UNCHANGED <<torn, status, crashes>>

\* The commit's reply is lost: the book goes on in the generation it knows, and the
\* next reset is refused because the generation has changed.
ResetPostgresUnacked ==
    /\ CanResetPostgres /\ "unacked" \in Faults
    /\ dbGen' = dbGen + 1
    /\ doc' = Fresh(dbGen + 1)
    /\ UNCHANGED <<fills, torn, snaps, status, book, op, marked, crashes>>

\* File: archive fills, archive snapshots, then the fresh document commits.
ResetArchiveFills ==
    /\ Ready /\ Backend = "file" /\ book.gen < MaxResets
    /\ op' = [call |-> "archived", fills |-> fills, torn |-> torn, snaps |-> <<>>]
    /\ fills' = <<>> /\ torn' = FALSE
    /\ UNCHANGED <<snaps, doc, dbGen, status, book, marked, crashes>>

ResetArchiveSnapshots ==
    /\ status = "up" /\ op.call = "archived"
    /\ op' = [op EXCEPT !.call = "reset", !.snaps = snaps]
    /\ snaps' = <<>>
    /\ UNCHANGED <<fills, torn, doc, dbGen, status, book, marked, crashes>>

ResetCommit ==
    /\ status = "up" /\ op.call = "reset"
    /\ doc' = Fresh(book.gen + 1) /\ book' = Fresh(book.gen + 1)
    /\ op' = [call |-> "day0"]
    /\ marked' = [k \in Keys |-> 0]
    /\ UNCHANGED <<fills, torn, snaps, dbGen, status, crashes>>

\* Mutant: a failed reset leaves the fills in the archive.
ResetRollbackForgets ==
    /\ status = "up" /\ op.call \in {"archived", "reset"}
    /\ snaps' = IF op.call = "reset" THEN op.snaps ELSE snaps
    /\ op' = Idle
    /\ UNCHANGED <<fills, torn, doc, dbGen, status, book, marked, crashes>>

\* A step of the archive or the commit fails: the renames are undone.
ResetRollback ==
    /\ status = "up" /\ op.call \in {"archived", "reset"}
    /\ fills' = op.fills /\ torn' = op.torn
    /\ snaps' = IF op.call = "reset" THEN op.snaps ELSE snaps
    /\ op' = Idle
    /\ UNCHANGED <<doc, dbGen, status, book, marked, crashes>>

\* Both clock calls restore memory unless the document is known to be committed,
\* which a file rename says and a lost database reply does not.
CommitClock(on) ==
    \/ /\ book' = [book EXCEPT !.official = on]
       /\ doc' = book'
    \/ UNCHANGED <<book, doc>>
    \/ /\ "unacked" \in Faults /\ Backend = "postgres"
       /\ doc' = [book EXCEPT !.official = on]
       /\ UNCHANGED book

\* StartOfficial follows a reset of every store, or never happens.
StartOfficial ==
    /\ status = "up" /\ op.call = "day0"
    /\ CommitClock(TRUE)
    /\ op' = Idle
    /\ UNCHANGED <<fills, torn, snaps, dbGen, status, marked, crashes>>

InvalidateOfficial ==
    /\ Ready /\ book.official
    /\ CommitClock(FALSE)
    /\ UNCHANGED <<fills, torn, snaps, dbGen, status, op, marked, crashes>>
-----------------------------------------------------------------------------
(***************************************************************************)
(* Crash, and openLedger / initializeLedger / replay.                      *)
(***************************************************************************)
\* The next process works in the database's generation, whatever this one worked in.
\* A write that fails while the book is being opened is a stop as well.
Outdated == Backend = "postgres" /\ book.gen # dbGen

Crash ==
    /\ status # "down" /\ crashes < MaxCrashes
    /\ crashes' = crashes + 1
    /\ status' = "down" /\ op' = Idle
    /\ book' = Fresh(0)
    /\ fills' = IF Outdated THEN <<>> ELSE fills
    /\ snaps' = IF Outdated THEN <<>> ELSE snaps
    /\ UNCHANGED <<torn, doc, dbGen, marked>>

\* readPersistedState: a state document of another generation is an error, and the
\* book does not open.
DocIsReadable == Backend = "postgres" /\ doc # NoDoc => doc.gen = dbGen

\* The state document is trusted when it is at least as new as the last fill.
TrustDoc == doc # NoDoc /\ \A i \in DOMAIN fills : fills[i].seq <= doc.lastSeq

OpenTrusted ==
    /\ status = "down" /\ DocIsReadable /\ TrustDoc
    /\ status' = "up" /\ book' = doc
    /\ UNCHANGED <<disk, op, marked, crashes>>

\* Otherwise replay.  The generation is read from the database, or left at zero.
OpenReplaying ==
    /\ status = "down" /\ DocIsReadable /\ ~TrustDoc
    /\ status' = "starting"
    /\ book' = Fresh(IF Backend = "postgres" THEN dbGen ELSE 0)
    /\ op' = [call |-> "replay", done |-> 0]
    /\ UNCHANGED <<disk, marked, crashes>>

ReplayFill ==
    /\ status = "starting" /\ op.done < Len(fills)
    /\ book' = ApplyFill(book, fills[op.done + 1])
    /\ op' = [op EXCEPT !.done = @ + 1]
    /\ UNCHANGED <<disk, status, marked, crashes>>

\* The last record that marked each config, in file order.
LastMarkIn(k) ==
    LET last(i) == ~snaps[i].gap /\ \A j \in DOMAIN snaps : j > i => snaps[j].gap
    IN  IF \E i \in DOMAIN snaps : last(i)
        THEN snaps[CHOOSE i \in DOMAIN snaps : last(i)].marks[k]
        ELSE 0

\* The snapshots follow the fills, then the rebuilt state is persisted.
ReplaySnapshots ==
    /\ status = "starting" /\ op.done = Len(fills)
    /\ book' = [book EXCEPT
                  !.gaps = {snaps[i].date : i \in {j \in DOMAIN snaps : snaps[j].gap}},
                  !.snapshots = {snaps[i] : i \in {j \in DOMAIN snaps : ~snaps[j].gap}},
                  !.lastMark = [k \in Keys |-> LastMarkIn(k)]]
    /\ status' = "up"
    /\ doc' = book'
    /\ op' = Idle
    /\ UNCHANGED <<fills, torn, snaps, dbGen, marked, crashes>>
-----------------------------------------------------------------------------
Init ==
    /\ fills = <<>> /\ torn = FALSE /\ snaps = <<>>
    /\ doc = NoDoc /\ dbGen = IF Backend = "postgres" THEN 1 ELSE 0
    /\ status = "down" /\ book = Fresh(0) /\ op = Idle
    /\ marked = [k \in Keys |-> 0]
    /\ crashes = 0

Next ==
    \/ \E t \in Trades : OpenExact(t)
    \/ \E k \in Keys, kind \in CloseKinds : Close(k, kind)
    \/ Persist
    \/ \E k \in Keys, d \in Dates, price \in Prices \cup {NotReal} : Mark(k, d, price)
    \/ MarkGapsOlder \/ MarkSettle \/ MarkFails \/ MarkUnacked
    \/ ResetPostgres \/ ResetPostgresUnacked
    \/ ResetArchiveFills \/ ResetArchiveSnapshots \/ ResetCommit \/ ResetRollback
    \/ StartOfficial \/ InvalidateOfficial
    \/ Crash
    \/ OpenTrusted \/ OpenReplaying \/ ReplayFill \/ ReplaySnapshots

Spec == Init /\ [][Next]_vars

\* The call in progress runs on, and a stopped process is started again.  Nothing
\* is assumed of the callers.
Fairness ==
    /\ WF_vars(Persist) /\ WF_vars(MarkGapsOlder) /\ WF_vars(MarkSettle) /\ WF_vars(MarkFails)
    /\ WF_vars(OpenTrusted \/ OpenReplaying) /\ WF_vars(ReplayFill \/ ReplaySnapshots)

FairSpec == Spec /\ Fairness
-----------------------------------------------------------------------------
(***************************************************************************)
(* Properties.                                                             *)
(***************************************************************************)
FillRecord ==
    [seq : Nat, key : Keys, side : {"long", "short"}, qty : Nat, price : Nat,
     cost : Nat, kind : OpenKinds \cup CloseKinds, trade : Trades, realized : Int]

LotRecord ==
    [trade : Trades, side : {"long", "short"}, qty : Nat, price : Nat, cost : Nat]

SnapshotRecord == [date : Dates, gap : {FALSE}, marks : [Keys -> Nat \ {0}]]
GapRecord == [date : Dates, gap : {TRUE}]

BookState ==
    [gen : Nat, cash : Int, realized : Int,
     lots : [Keys -> LotRecord \cup {NoLot}],
     booked : SUBSET (Trades \X (OpenKinds \cup CloseKinds)), lastSeq : Nat,
     snapshots : SUBSET SnapshotRecord, gaps : SUBSET Dates,
     lastMark : [Keys -> Nat], pending : [Dates -> [Keys -> Nat \cup {NotReal}]],
     official : BOOLEAN]

OpState ==
    {Idle, [call |-> "persist"], [call |-> "day0"]}
        \cup [call : {"mark"}, date : Dates]
        \cup [call : {"replay"}, done : Nat]
        \cup [call : {"archived", "reset"}, fills : Seq(FillRecord), torn : BOOLEAN,
              snaps : Seq(SnapshotRecord \cup GapRecord)]

\* Every variable has its type: the states PaperLedger can store, and no other.
TypeOK ==
    /\ fills \in Seq(FillRecord) /\ torn \in BOOLEAN
    /\ snaps \in Seq(SnapshotRecord \cup GapRecord)
    /\ doc \in BookState \cup {NoDoc} /\ dbGen \in Nat
    /\ status \in {"up", "starting", "down"}
    /\ book \in BookState /\ op \in OpState
    /\ marked \in [Keys -> 0..LastDate]
    /\ crashes \in 0..MaxCrashes

Booking(f) == <<f.trade, f.kind>>

\* Booking is idempotent by (trade id, kind): whatever is retried, and whatever
\* crashed in between, the record never holds the same leg of a trade twice.
NoDoubleBooking ==
    \A i, j \in DOMAIN fills : Booking(fills[i]) = Booking(fills[j]) => i = j

\* What the first n fills of fs determine: the legs booked, and the lot each config
\* is left with, which is that of the last fill on it, if that one opened.
BookedIn(fs, n) == {Booking(fs[i]) : i \in 1..n}

LastOn(fs, n, k, i) ==
    /\ i \in 1..n /\ fs[i].key = k
    /\ \A j \in 1..n : j > i => fs[j].key # k

LotMatches(lot, fs, n, k) ==
    IF lot = NoLot
    THEN \A i \in 1..n : LastOn(fs, n, k, i) => fs[i].kind \in CloseKinds
    ELSE \E i \in 1..n :
            /\ LastOn(fs, n, k, i) /\ fs[i].kind \in OpenKinds
            /\ lot = [trade |-> fs[i].trade, side |-> fs[i].side, qty |-> fs[i].qty,
                      price |-> fs[i].price, cost |-> fs[i].cost]

Reflects(st, fs, n) ==
    /\ st.booked = BookedIn(fs, n)
    /\ \A k \in Keys : LotMatches(st.lots[k], fs, n, k)

\* Between the two ends of a file reset the files are being moved under the lock.
Resetting == op.call \in {"archived", "reset"}

\* "A replayed book and a live book cannot drift": the lots and the idempotency
\* keys in memory are those the append-only record alone determines.
BookMatchesRecord == status = "up" /\ ~Resetting => Reflects(book, fills, Len(fills))

\* A state change is always explained by a record written before it: neither
\* memory nor the state document knows of a leg, a snapshot or a gap that the
\* append-only record lacks, and a date the book could not mark has no snapshot.
\* (A document left in another generation than the database's is not read by any
\* start.)
Explained(st) ==
    /\ st.booked \subseteq BookedIn(fills, Len(fills))
    /\ \A s \in st.snapshots : \E i \in DOMAIN snaps : snaps[i] = s
    /\ \A d \in st.gaps : \E i \in DOMAIN snaps : snaps[i].date = d
    /\ \A s \in st.snapshots : s.date \notin st.gaps

NothingUnexplained ==
    ~Resetting => Explained(book) /\ (doc # NoDoc /\ DocIsReadable => Explained(doc))

\* A date every config closed on settles, unless the process stops first.
HasRecord(d) == \E i \in DOMAIN snaps : snaps[i].date = d
MarkedDatesSettle ==
    \A d \in Dates : (status = "up" /\ AllReal(d)) ~> (HasRecord(d) \/ status = "down")
=============================================================================
