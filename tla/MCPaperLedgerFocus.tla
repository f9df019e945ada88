-------------------------- MODULE MCPaperLedgerFocus --------------------------
(***************************************************************************)
(* Two instances of PaperLedger in one run: "trades" books, flips, resets  *)
(* and crashes twice without ever marking a date; "dates" marks and        *)
(* settles dates around one trade and k2's real closes, without a reset or *)
(* a refused write.                                                        *)
(***************************************************************************)
EXTENDS MCPaperLedger

VARIABLE focus

Focused ==
    /\ focus = "trades" => marked' = marked
    /\ focus = "dates" =>
        /\ \A i \in DOMAIN fills' : fills'[i].trade = "t1" /\ fills'[i].kind # "flip-close"
        /\ \A d \in Dates : book'.pending[d]["k2"] # NotReal
        /\ crashes' =< 1
        /\ dbGen' = dbGen
        /\ op.call = "persist" /\ status' = "up" => doc' = book
        /\ op.call = "mark" /\ <<op', status', snaps'>> = <<Idle, "up", snaps>> => Conflicts

MCInit == Init /\ focus \in {"trades", "dates"}

MCSpec ==
    /\ MCInit
    /\ [][Next /\ Focused /\ UNCHANGED focus]_<<vars, focus>>
=============================================================================
