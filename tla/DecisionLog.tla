------------------------------ MODULE DecisionLog ------------------------------
(***************************************************************************)
(* One user's decisions and the reviews of their outcomes                  *)
(* (journal/decision_store.go, decisions.go, outcomes.go): two documents   *)
(* behind one lock, loaded and written like the evidence. A decision holds *)
(* a snapshot the server takes of the thesis; a review is at most one per  *)
(* decision, and goes when the decision is deleted. Both are composed from *)
(* other stores (the thesis, the trade) before the store takes the lock.   *)
(*                                                                         *)
(* One thesis and one trade: the thesis is its sequence of editions, each  *)
(* the assumptions it had after that many recorded versions.               *)
(***************************************************************************)
EXTENDS Integers, FiniteSets, SequencesExt

CONSTANTS
    MaxDecisions,       \* maxDecisionsPerUser
    Assumptions,        \* items of the thesis
    Desks,              \* requests in flight
    LogOnRows,          \* BOOLEAN's subset: PostgreSQL (TRUE), files (FALSE)
    MaxTaken, MaxLogWrites, MaxEditions, MaxLogFaults, MaxLogStarts     \* bounds

ASSUME DecisionAssumption ==
    /\ MaxDecisions \in Nat \ {0}
    /\ LogOnRows \subseteq BOOLEAN
    /\ {MaxTaken, MaxLogWrites, MaxEditions, MaxLogFaults, MaxLogStarts} \subseteq Nat

DecisionIds == 1..MaxTaken      \* in the order they were added
NoDecision == [version |-> -1]
NoOutcome == [market |-> "no review"]
NoDecisions == [d \in DecisionIds |-> NoDecision]
NoOutcomes == [d \in DecisionIds |-> NoOutcome]
NotRead == [d \in {} |-> NoDecision]
Free == [step |-> "free"]

VARIABLES
    logOnRows,                  \* PostgreSQL, or files
    editions, trade,            \* the thesis and the trade, as their stores have them
    decisionsDoc, outcomesDoc,  \* durable
    decisionsMem, outcomesMem,  \* memory
    logLatched,                 \* memory: s.loadErr
    desks,                      \* memory: the records being composed
    taken, logWrites, logFaults, logStarts,     \* bounds
    acked,                      \* history: decisions whose creation was acknowledged
    evicted,                    \* history: decisions that fell off the end of the list
    logExcused,                 \* history: a file could not be read or written
    orphaned                    \* history: reviews written after their decision went

decisionVars == <<logOnRows, editions, trade, decisionsDoc, outcomesDoc, decisionsMem, outcomesMem,
                  logLatched, desks, taken, logWrites, logFaults, logStarts, acked, evicted,
                  logExcused, orphaned>>

-----------------------------------------------------------------------------
\* Loading a document: a row that cannot be read latches; a file that cannot counts as missing.
LoadsOf(memory, doc, empty, name) ==
    IF memory # NotRead THEN {[shown |-> memory, latch |-> {}, faults |-> 0]}
    ELSE {[shown |-> doc, latch |-> {}, faults |-> 0]}
         \cup IF logFaults >= MaxLogFaults THEN {}
              ELSE {[shown |-> empty, latch |-> IF logOnRows THEN {name} ELSE {}, faults |-> 1]}
DecisionLoads == LoadsOf(decisionsMem, decisionsDoc, NoDecisions, "decisions")
OutcomeLoads == LoadsOf(outcomesMem, outcomesDoc, NoOutcomes, "outcomes")

Recorded(shown) == {d \in DecisionIds : shown[d] # NoDecision}
Reviewed(shown) == {d \in DecisionIds : shown[d] # NoOutcome}

\* Mutant: a delete does not ask whether the reviews could be read.
BothWritableByOwn(latches) == "decisions" \notin latches

\* Both documents have to be readable, whichever is written.
BothWritable(latches) == latches = {}

LogEnds(faults, twoFiles) ==
    {"done"} \cup IF faults + logFaults >= MaxLogFaults THEN {}
                  ELSE {"refused", "lost"} \cup IF twoFiles THEN {"half", "torn"} ELSE {}
LogStopped(end) == ~logOnRows /\ end \in {"lost", "torn"}

\* Memory after a write: on PostgreSQL a failed one drops it, with files it keeps the change.
LogMemory(end, written, next, shown) ==
    IF LogStopped(end) THEN NotRead
    ELSE IF ~written THEN shown
    ELSE IF logOnRows /\ end # "done" THEN NotRead ELSE next

\* One locked operation of the store, which ends the requests it serves: the decisions and the
\* outcomes it writes, or leaves the Same.
Same == [written |-> FALSE]
LogWrite(served, dec, out, decisions, outcomes, end) ==
    LET nextDecisions == IF ~decisions.written THEN dec.shown ELSE decisions.to
        nextOutcomes == IF ~outcomes.written THEN out.shown ELSE outcomes.to
        durable == end \in {"done", "lost"} IN
    /\ logWrites < MaxLogWrites
    /\ logWrites' = logWrites + 1
    /\ decisionsDoc' = IF decisions.written /\ (durable \/ end \in {"half", "torn"})
                       THEN nextDecisions ELSE decisionsDoc
    /\ outcomesDoc' = IF outcomes.written /\ durable THEN nextOutcomes ELSE outcomesDoc
    /\ decisionsMem' = LogMemory(end, decisions.written, nextDecisions, dec.shown)
    /\ outcomesMem' = LogMemory(end, outcomes.written, nextOutcomes, out.shown)
    /\ logLatched' = IF LogStopped(end) THEN {} ELSE logLatched \cup dec.latch \cup out.latch
    /\ logFaults' = logFaults + dec.faults + out.faults
                    + IF end \in {"refused", "lost", "half", "torn"} THEN 1 ELSE 0
    /\ logFaults' =< MaxLogFaults
    /\ logExcused' = (logExcused \/ (~logOnRows /\ (dec.faults + out.faults > 0
                                                    \/ end \in {"refused", "half", "torn"})))
    /\ desks' = IF LogStopped(end) THEN [d \in Desks |-> Free]
                ELSE [d \in Desks |-> IF d \in served THEN Free ELSE desks[d]]
    /\ UNCHANGED <<logOnRows, editions, trade, logStarts>>

Ends(dec, out, twoFiles) ==
    IF BothWritable(logLatched \cup dec.latch \cup out.latch)
    THEN LogEnds(dec.faults + out.faults, twoFiles) ELSE {"unwritable"}

\* The version a decision is about: the one the client pins, else the head; a thesis without
\* history has version 0, "unversioned".
Unpinned == -1
HeadVersion(thesis) == Len(thesis) - 1
VersionsOf(thesis) == IF Len(thesis) = 1 THEN {0} ELSE 1..HeadVersion(thesis)

\* buildDecision: the version and the snapshot are both of the thesis as read once; the trade is
\* looked up after it. Nothing is written.
ComposeDecision(c) ==
    \E pinned \in VersionsOf(editions) \cup {Unpinned}, linked \in {"none", trade} \ {"deleted"} :
        /\ desks[c] = Free
        /\ logWrites < MaxLogWrites
        /\ desks' = [desks EXCEPT ![c] =
                       [step |-> "decide", pinned |-> pinned # Unpinned,
                        version |-> IF pinned = Unpinned THEN HeadVersion(editions) ELSE pinned,
                        snapshot |-> Last(editions), linked |-> linked # "none"]]
        /\ UNCHANGED <<logOnRows, editions, trade, decisionsDoc, outcomesDoc, decisionsMem, outcomesMem,
                       logLatched, taken, logWrites, logFaults, logStarts, acked, evicted, logExcused,
                       orphaned>>

\* The record that was composed.
Decision(made) ==
    [version |-> made.version, pinned |-> made.pinned, snapshot |-> made.snapshot,
     linked |-> made.linked]

\* Past the cap the oldest decision falls off the list, and nothing else happens to its review.
Trimmed(shown) ==
    IF Cardinality(Recorded(shown)) =< MaxDecisions THEN {}
    ELSE {CHOOSE d \in Recorded(shown) : \A e \in Recorded(shown) : d =< e}

\* addDecision.
AddDecision(c) ==
    /\ desks[c].step = "decide"
    /\ taken < MaxTaken
    /\ \E dec \in DecisionLoads, out \in OutcomeLoads : \E end \in Ends(dec, out, FALSE) :
        LET added == [dec.shown EXCEPT ![taken + 1] = Decision(desks[c])]
            over == Trimmed(added)
            next == [d \in DecisionIds |-> IF d \in over THEN NoDecision ELSE added[d]] IN
        /\ taken' = taken + 1
        /\ LogWrite({c}, dec, out,
                    IF end = "unwritable" THEN Same ELSE [written |-> TRUE, to |-> next],
                    Same, end)
        /\ acked' = IF end = "done" THEN acked \cup {taken + 1} ELSE acked
        /\ evicted' = IF end = "unwritable" THEN evicted ELSE evicted \cup over
        /\ UNCHANGED orphaned

\* PATCH /decisions/{id}: the link to a trade that is there, or no link; the rest is refused.
LinkTrade ==
    \E dec \in DecisionLoads, out \in OutcomeLoads : \E end \in Ends(dec, out, FALSE),
       d \in Recorded(dec.shown), linked \in BOOLEAN :
        /\ dec.shown[d].linked # linked
        /\ linked => trade # "deleted"
        /\ LogWrite({}, dec, out,
                    IF end = "unwritable" THEN Same
                    ELSE [written |-> TRUE, to |-> [dec.shown EXCEPT ![d].linked = linked]],
                    Same, end)
        /\ UNCHANGED <<taken, acked, evicted, orphaned>>

\* The reviews that go with a decision.
Cascaded(shown, d) == Reviewed(shown) \cap {d}

\* DELETE /decisions/{id}: one transaction, or the decisions and then the reviews.
DeleteDecision ==
    \E dec \in DecisionLoads, out \in OutcomeLoads : \E d \in Recorded(dec.shown) :
      LET cascade == Cascaded(out.shown, d)
          kept == [e \in DecisionIds |-> IF e \in cascade THEN NoOutcome ELSE out.shown[e]] IN
      \E end \in Ends(dec, out, cascade # {} /\ ~logOnRows) :
        /\ LogWrite({}, dec, out,
                    IF end = "unwritable" THEN Same
                    ELSE [written |-> TRUE, to |-> [dec.shown EXCEPT ![d] = NoDecision]],
                    IF end = "unwritable" \/ (end = "refused" /\ ~logOnRows)
                       \/ (end = "done" /\ cascade = {}) THEN Same ELSE [written |-> TRUE, to |-> kept],
                    end)
        /\ acked' = IF end = "unwritable" THEN acked ELSE acked \ {d}
        /\ UNCHANGED <<taken, evicted, orphaned>>

\* What the linked trade says of the outcome, when there still is one.
MarketOutcome(decision) ==
    IF decision.linked /\ trade # "deleted" THEN trade ELSE "none"

\* POST /outcomes, until the store has the review: the decision is read, only what its snapshot
\* holds can be graded, and the trade is read after it.
ComposeOutcome(c) ==
    \E dec \in DecisionLoads, graded \in SUBSET Assumptions : \E d \in Recorded(dec.shown) :
        /\ desks[c] = Free
        /\ dec.faults = 0
        /\ logWrites < MaxLogWrites
        /\ graded \subseteq dec.shown[d].snapshot
        /\ decisionsMem' = dec.shown
        /\ desks' = [desks EXCEPT ![c] = [step |-> "review", of |-> d, graded |-> graded,
                                          market |-> MarketOutcome(dec.shown[d])]]
        /\ UNCHANGED <<logOnRows, editions, trade, decisionsDoc, outcomesDoc, outcomesMem, logLatched,
                       taken, logWrites, logFaults, logStarts, acked, evicted, logExcused, orphaned>>

\* addOutcome: one review per decision; whether the decision is still there is not asked again.
AddOutcome(c) ==
    /\ desks[c].step = "review"
    /\ \E dec \in DecisionLoads, out \in OutcomeLoads :
      LET d == desks[c].of
          conflict == d \in Reviewed(out.shown) IN
      \E end \in IF conflict THEN {"conflict"} ELSE Ends(dec, out, FALSE) :
        /\ LogWrite({c}, dec, out, Same,
                    IF end \in {"conflict", "unwritable"} THEN Same
                    ELSE [written |-> TRUE,
                          to |-> [out.shown EXCEPT ![d] = [market |-> desks[c].market, revised |-> FALSE,
                                                           graded |-> desks[c].graded]]],
                    end)
        /\ orphaned' = IF end \in {"done", "lost"} /\ d \notin Recorded(dec.shown)
                       THEN orphaned \cup {d} ELSE orphaned
        /\ UNCHANGED <<taken, acked, evicted>>

\* PATCH /outcomes/{id}: what the user wrote, never what was derived from the trade.
Revised(review) == [review EXCEPT !.revised = TRUE]
PatchOutcome ==
    \E dec \in DecisionLoads, out \in OutcomeLoads : \E end \in Ends(dec, out, FALSE),
       d \in Reviewed(out.shown) :
        /\ ~out.shown[d].revised
        /\ LogWrite({}, dec, out, Same,
                    IF end = "unwritable" THEN Same
                    ELSE [written |-> TRUE, to |-> [out.shown EXCEPT ![d] = Revised(@)]],
                    end)
        /\ UNCHANGED <<taken, acked, evicted, orphaned>>

\* GET: the listings.
ListLog ==
    /\ decisionsMem = NotRead \/ outcomesMem = NotRead
    /\ \E dec \in DecisionLoads, out \in OutcomeLoads :
          /\ decisionsMem' = dec.shown /\ outcomesMem' = out.shown
          /\ logLatched' = logLatched \cup dec.latch \cup out.latch
          /\ logFaults' = logFaults + dec.faults + out.faults
          /\ logFaults' =< MaxLogFaults
          /\ logExcused' = (logExcused \/ (~logOnRows /\ dec.faults + out.faults > 0))
    /\ UNCHANGED <<logOnRows, editions, trade, decisionsDoc, outcomesDoc, desks, taken, logWrites,
                   logStarts, acked, evicted, orphaned>>

\* The thesis is edited and the trade closed or deleted by their own stores.
EditThesis ==
    /\ Len(editions) =< MaxEditions
    /\ \E items \in SUBSET Assumptions \ {Last(editions)} : editions' = Append(editions, items)
    /\ UNCHANGED <<logOnRows, trade, decisionsDoc, outcomesDoc, decisionsMem, outcomesMem, logLatched,
                   desks, taken, logWrites, logFaults, logStarts, acked, evicted, logExcused, orphaned>>
MoveTrade ==
    /\ \E next \in CASE trade = "open" -> {"closed", "deleted"}
                     [] trade = "closed" -> {"deleted"}
                     [] OTHER -> {} : trade' = next
    /\ UNCHANGED <<logOnRows, editions, decisionsDoc, outcomesDoc, decisionsMem, outcomesMem, logLatched,
                   desks, taken, logWrites, logFaults, logStarts, acked, evicted, logExcused, orphaned>>

RestartLog ==
    /\ logStarts < MaxLogStarts
    /\ logStarts' = logStarts + 1
    /\ decisionsMem' = NotRead /\ outcomesMem' = NotRead
    /\ logLatched' = {}
    /\ desks' = [c \in Desks |-> Free]
    /\ UNCHANGED <<logOnRows, editions, trade, decisionsDoc, outcomesDoc, taken, logWrites, logFaults,
                   acked, evicted, logExcused, orphaned>>

DecisionInit ==
    /\ logOnRows \in LogOnRows
    /\ editions = <<Assumptions>> /\ trade = "open"
    /\ decisionsDoc = NoDecisions /\ outcomesDoc = NoOutcomes
    /\ decisionsMem = NotRead /\ outcomesMem = NotRead
    /\ logLatched = {}
    /\ desks = [c \in Desks |-> Free]
    /\ taken = 0 /\ logWrites = 0 /\ logFaults = 0 /\ logStarts = 0
    /\ acked = {} /\ evicted = {} /\ logExcused = FALSE /\ orphaned = {}

DecisionNext ==
    \/ ListLog \/ RestartLog \/ EditThesis \/ MoveTrade
    \/ LinkTrade \/ DeleteDecision \/ PatchOutcome
    \/ \E c \in Desks :
          ComposeDecision(c) \/ AddDecision(c) \/ ComposeOutcome(c) \/ AddOutcome(c)

DecisionSpec == DecisionInit /\ [][DecisionNext]_decisionVars

-----------------------------------------------------------------------------
\* An acknowledged decision is durable until somebody deletes it or it is the oldest one past the
\* cap; and no delete "leave[s] a review pointing at nothing" (decision_store.go): a review is of a
\* decision that is there, unless it was composed before the delete and stored after it, or its
\* decision was trimmed. With files, both hold as long as no file operation failed.
LogIsWhole ==
    ~logExcused =>
        /\ acked \subseteq Recorded(decisionsDoc) \cup evicted
        /\ Reviewed(outcomesDoc) \subseteq Recorded(decisionsDoc) \cup orphaned \cup evicted

\* The snapshot of a decision is the thesis as of the version it names, whatever is edited while it
\* is composed, when the client pinned none.
SnapshotIsTheVersion ==
    \A d \in Recorded(decisionsDoc) :
        ~decisionsDoc[d].pinned => decisionsDoc[d].snapshot = editions[decisionsDoc[d].version + 1]

\* What was decided stands as it was acknowledged, on the thesis it was decided on, and so does its
\* review.
DecisionsStand == LogIsWhole /\ SnapshotIsTheVersion
=============================================================================
