-------------------------- MODULE PaperLedgerRefines --------------------------
(***************************************************************************)
(* PaperLedger implements TradeBook: read off the append-only record, every*)
(* step of the files and the memory is one leg, a new generation or nothing*)
(***************************************************************************)
EXTENDS PaperLedger

\* No trade is called what a config without a lot is said to hold.
ASSUME NoneAssumption == NoLot.trade \notin Trades

\* The record, which a file reset holds in its archive until it commits.
Record == IF Resetting THEN op.fills ELSE fills

Opened(fs, k, i) == LastOn(fs, Len(fs), k, i) /\ fs[i].kind \in OpenKinds

RecordBooked == BookedIn(Record, Len(Record))

LotIn(fs, k) ==
    IF \E i \in DOMAIN fs : Opened(fs, k, i)
    THEN fs[CHOOSE i \in DOMAIN fs : Opened(fs, k, i)].trade
    ELSE NoLot.trade

RecordLot == [k \in Keys |-> LotIn(Record, k)]

Abstract == INSTANCE TradeBook WITH NoTrade <- NoLot.trade, booked <- RecordBooked, lot <- RecordLot

\* What is read off the record behaves as the book promises: a leg is booked once or
\* not at all, a config holds one lot at most, an exit is booked under its lot's trade.
ImplementsTradeBook == Abstract!Spec
=============================================================================
