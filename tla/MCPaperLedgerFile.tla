--------------------------- MODULE MCPaperLedgerFile ---------------------------
(***************************************************************************)
(* The file ledger on two instances in one run: "dates" marks and settles  *)
(* two dates around one trade, with a crash and a torn write; "resets"     *)
(* books, flips and marks one config at two prices, with a reset that      *)
(* moves the files.  Nothing is appended after a torn line: that fill      *)
(* would be acknowledged and lost (README, section 5).                     *)
(***************************************************************************)
EXTENDS MCPaperLedger

VARIABLE focus

AtPrice1(k) == book'.lastMark[k] =< 1 /\ \A d \in Dates : book'.pending[d][k] =< 1

Focused ==
    /\ focus = "dates" =>
        /\ torn => torn'
        /\ \A i \in DOMAIN fills' : fills'[i].trade = "t1" /\ fills'[i].price = 1
        /\ \A k \in Keys : AtPrice1(k)
        /\ op'.call \notin {"archived", "reset"}
    /\ focus = "resets" =>
        /\ crashes' = crashes /\ ~torn'
        /\ marked'["k1"] =< 1 /\ marked'["k2"] = 0

MCInit == Init /\ focus \in {"dates", "resets"}
MCNext == Next /\ Focused /\ UNCHANGED focus

\* PaperLedger's fairness: no action in it is one that Focused stops.
MCSpec == MCInit /\ [][MCNext]_<<vars, focus>> /\ Fairness
=============================================================================
