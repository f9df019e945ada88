------------------------------- MODULE MCRecords -------------------------------
(***************************************************************************)
(* The seven stores of the journal, those of the services auth and         *)
(* feedback, and the paper shadow ledger, in one run. They share no state  *)
(* but the database, so each behaviour runs one of them, `part`, while the *)
(* others stay as they started. The portfolios' store runs three times:    *)
(* with requests that change portfolios, with snapshots, and with reviews. *)
(***************************************************************************)
EXTENDS TradeJournal, ThesisBook, EvidenceStore, DecisionLog, FollowState, GuidedReview,
        AccountStore, ShadowLedger, PortfolioBook

VARIABLE part

BookParts == {"portfolios"} \cup Papers
Parts == {"trades", "theses", "evidence", "decisions", "follows", "guide", "accounts", "shadow"}
         \cup BookParts

Stands(p) ==
    /\ p = "trades" => UNCHANGED tradeVars
    /\ p = "theses" => UNCHANGED thesisVars
    /\ p = "evidence" => UNCHANGED evidenceVars
    /\ p = "decisions" => UNCHANGED decisionVars
    /\ p = "follows" => UNCHANGED followVars
    /\ p = "guide" => UNCHANGED guideVars
    /\ p = "accounts" => UNCHANGED accountVars
    /\ p = "shadow" => UNCHANGED shadowVars
    /\ p \in BookParts => UNCHANGED bookVars

\* A store that stands still starts on files.
MCInit ==
    /\ part \in Parts
    /\ TradeInit /\ ThesisInit /\ EvidenceInit /\ DecisionInit /\ FollowInit /\ GuideInit
    /\ AccountInit /\ ShadowInit /\ BookInit
    /\ part # "trades" => backend = "file"
    /\ part # "theses" => ~inPostgres
    /\ part # "evidence" => ~onRows
    /\ part # "decisions" => ~logOnRows
    /\ part # "follows" => ~followRows
    /\ part # "guide" => ~guideRows
    /\ part # "accounts" => ~accountRows
    /\ part # "shadow" => ~shadowRows
    /\ part \notin BookParts => ~onDocs

Runs(p) ==
    /\ part = p /\ UNCHANGED part
    /\ \A q \in Parts \ IF p \in BookParts THEN BookParts ELSE {p} : Stands(q)

\* The requests that run with the portfolios, with the snapshots, or with the reviews.
RunsBook(p) ==
    /\ Runs(p)
    /\ BookNext
    /\ \A r \in Requests :
          asks'[r].step \in {"waiting", "built", "write"}
                                \cup IF p = "portfolios" THEN {"create", "patch"} ELSE {p}
    /\ IF p = "portfolios" THEN UNCHANGED market ELSE UNCHANGED shown

\* Items are minted for the theses of the old file only, or new theses have none.
ItemsOrTheses ==
    \/ minted' = {}
    \/ /\ \A id \in NewTheses : document'[id] = Absent
       /\ memory' = NotLoaded \/ \A id \in NewTheses : memory'[id] = Absent

MCNext ==
    \/ Runs("trades") /\ TradeNext
    \/ Runs("theses") /\ ThesisNext /\ ItemsOrTheses
    \/ Runs("evidence") /\ EvidenceNext
    \/ Runs("decisions") /\ DecisionNext
    \/ Runs("follows") /\ FollowNext
    \/ Runs("guide") /\ GuideNext
    \/ Runs("accounts") /\ AccountNext
    \/ Runs("shadow") /\ ShadowNext
    \/ \E p \in BookParts : RunsBook(p)

MCSpec ==
    /\ MCInit
    /\ [][MCNext]_<<part, tradeVars, thesisVars, evidenceVars, decisionVars, followVars, guideVars,
                   accountVars, shadowVars, bookVars>>
=============================================================================
