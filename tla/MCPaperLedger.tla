---------------------------- MODULE MCPaperLedger ----------------------------
(***************************************************************************)
(* Instances of PaperLedger for TLC, and the one property whose statement  *)
(* sums over lots and so is evaluated rather than proved.                  *)
(***************************************************************************)
EXTENDS PaperLedgerRefines, FiniteSetsExt

\* t1 and t2 are successive trades of k1 (the second opened by a flip), t3 is
\* another config's short.
MCKeyOf == [t \in Trades |-> IF t = "t3" THEN "k2" ELSE "k1"]
MCSideOf == [t \in Trades |-> IF t = "t1" THEN "long" ELSE "short"]
MCOpenKindOf == [t \in Trades |-> IF t = "t2" THEN "flip-open" ELSE "open"]

\* Equity and Unrealized are equityLocked and unrealizedLocked.
Signed(lot) == Sign(lot.side) * lot.qty
Equity(st) ==
    LET value(k) == Signed(st.lots[k]) * MarkPrice(st, k) * Scale
    IN  st.cash + MapThenSumSet(value, HeldKeys(st))
Unrealized(st) ==
    LET gain(k) == LET lot == st.lots[k] IN
          Signed(lot) * (MarkPrice(st, k) - lot.price) * Scale
            - Fee(lot.qty, lot.price, lot.cost)
    IN  MapThenSumSet(gain, HeldKeys(st))

\* The book always adds up: equity is the opening balance plus realized plus
\* unrealized P&L, each net of the fees already paid, at whatever marks it holds,
\* through flips, restarts and replays.
AccountingIdentity == Equity(book) = StartingCash + book.realized + Unrealized(book)
=============================================================================
