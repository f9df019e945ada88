------------------------------ MODULE TradeBook ------------------------------
(***************************************************************************)
(* What the book promises its callers: the legs of trades it has booked,   *)
(* and the trade each config's lot belongs to.  A leg is booked once or    *)
(* not at all, a config holds at most one lot, and an exit leg is booked   *)
(* under the trade of the lot it closes.  PaperLedger implements this with *)
(* files and memory; PaperEngine is written against it.                    *)
(***************************************************************************)
CONSTANTS
    Keys,      \* the enabled configs
    Trades,    \* journal trade ids
    NoTrade    \* no lot

VARIABLES
    booked,    \* the <<trade, kind>> legs of the current generation
    lot        \* the trade of each config's lot

OpenKinds == {"open", "flip-open"}
CloseKinds == {"close", "flip-close"}

EmptyBook == booked = {} /\ lot = [k \in Keys |-> NoTrade]

\* openExact: errDuplicateFill, then "already holds a lot".
MayBookOpen(k, t, kind) ==
    /\ kind \in OpenKinds
    /\ <<t, kind>> \notin booked
    /\ lot[k] = NoTrade

BookOpen(k, t, kind) ==
    /\ MayBookOpen(k, t, kind)
    /\ booked' = booked \cup {<<t, kind>>}
    /\ lot' = [lot EXCEPT ![k] = t]

\* close: whatever lot the config holds is the one that is closed.
MayBookClose(k, kind) ==
    /\ kind \in CloseKinds
    /\ lot[k] # NoTrade
    /\ <<lot[k], kind>> \notin booked

BookClose(k, kind) ==
    /\ MayBookClose(k, kind)
    /\ booked' = booked \cup {<<lot[k], kind>>}
    /\ lot' = [lot EXCEPT ![k] = NoTrade]

\* Reset: a new, empty generation.
NewGeneration ==
    /\ booked' = {}
    /\ lot' = [k \in Keys |-> NoTrade]

Next ==
    \/ \E k \in Keys, kind \in OpenKinds, t \in Trades : BookOpen(k, t, kind)
    \/ \E k \in Keys, kind \in CloseKinds : BookClose(k, kind)
    \/ NewGeneration

Spec == EmptyBook /\ [][Next]_<<booked, lot>>
=============================================================================
