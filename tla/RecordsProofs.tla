------------------------------ MODULE RecordsProofs ------------------------------
(***************************************************************************)
(* Theorems about the journal's records, for any number of trades, theses, *)
(* decisions, portfolios, reviews, tickers, events and requests in flight, *)
(* on files and on PostgreSQL, and any number of failed reads, of refused  *)
(* or lost writes and of restarts.                                         *)
(***************************************************************************)
EXTENDS TradeJournal, FollowState, AccountStore, EvidenceStore, ThesisBook, DecisionLog,
        PortfolioBook, GuidedReview, SequenceTheorems, FiniteSetTheorems, WellFoundedInduction, TLAPS

-----------------------------------------------------------------------------
(***************************************************************************)
(* What one user follows, and the flags of the feed (FollowState).         *)
(***************************************************************************)
Graphs == [Tickers -> Levels \cup {Unfollowed}]
FlagSets == [Feed -> SUBSET {"read", "saved"}]

FollowTypeOK ==
    /\ followRows \in BOOLEAN /\ made \in BOOLEAN /\ followExcused \in BOOLEAN
    /\ follows \in Graphs /\ flags \in FlagSets
    /\ followsMem \in Graphs \cup {NotHeld} /\ flagsMem \in FlagSets \cup {NotHeld}
    /\ left \subseteq Tickers /\ kept \in FlagSets
    /\ followFaults \in Nat

\* Memory is the document, or nothing, or what a load that failed left, which forbids to write it.
MemoryIsDocument ==
    /\ followsMem \in {NotHeld, follows} \/ "follows" \in followLatched
    /\ flagsMem \in {NotHeld, flags} \/ "flags" \in followLatched

\* Who left a company has a document.
LeftWasMade == left # {} => made

FollowInv ==
    /\ FollowTypeOK
    /\ ~followExcused => MemoryIsDocument /\ LeftWasMade
    /\ LeftAndFlagsStand

\* What a load shows, unless it fails: then files are excused, and PostgreSQL latches.
LEMMA HeldShows ==
    ASSUME FollowTypeOK, NEW held, NEW doc, NEW empty, NEW name, NEW Possible,
           held \in Possible \cup {NotHeld}, doc \in Possible, empty \in Possible,
           NEW load \in Held(held, doc, empty, name)
    PROVE  /\ load.faults \in Nat /\ load.shown \in Possible /\ load.latch \in {{}, {name}}
           /\ held = NotHeld =>
                 \/ load.shown = doc
                 \/ load.faults > 0 /\ (followRows => load.latch = {name})
           /\ held # NotHeld => load.shown = held
BY DEF Held

\* The graph a request writes is one.
LEMMA GraphsAreWritten ==
    ASSUME NEW seen \in Graphs, NEW t \in Tickers, NEW seed
    PROVE  /\ \A level \in Levels :
                 Added(seen, t, level) \in Graphs /\ Retuned(seen, t, level) \in Graphs
           /\ Removed(seen, t) \in Graphs /\ Seeded(seed) \in Graphs /\ NoGraph \in Graphs
BY DEF Graphs, Added, Retuned, Removed, Seeded, NoGraph, Levels

\* A document of flags a request writes is one.
LEMMA FlagsAreWritten ==
    ASSUME NEW seen \in FlagSets, NEW e \in Feed, NEW on \in SUBSET {"read", "saved"}, NEW off
    PROVE  Flagged(seen, e, on, off) \in FlagSets /\ NoFlags \in FlagSets
BY DEF FlagSets, Flagged, NoFlags

\* A write of the follow document: afterwards memory is the document, or is not held.
LEMMA FollowWriteKeeps ==
    ASSUME FollowInv, NEW load \in FollowLoads, NEW next \in Graphs, NEW end,
           end \in FollowWriteEnds(load) \/ (end = "none" /\ next = load.shown),
           WriteFollows(load, next, end),
           left' \subseteq left \/ (end = "done" /\ left' \subseteq Tickers),
           \A t \in left' : \/ next[t] = Unfollowed
                            \/ t \in left /\ (next[t] = load.shown[t] \/ load.shown[t] # Unfollowed)
    PROVE  FollowInv'
<1>1. FollowTypeOK /\ NoGraph \in Graphs
  BY DEF FollowInv, NoGraph, Graphs
<1>2. /\ load.faults \in Nat /\ load.shown \in Graphs /\ load.latch \in {{}, {"follows"}}
      /\ followsMem = NotHeld => \/ load.shown = follows
                                 \/ load.faults > 0 /\ (followRows => load.latch = {"follows"})
      /\ followsMem # NotHeld => load.shown = followsMem
  BY <1>1, HeldShows DEF FollowLoads, FollowTypeOK
<1>3. /\ followExcused' = (followExcused \/ (~followRows /\ (load.faults > 0 \/ end = "refused")))
      /\ followFaults' = followFaults + load.faults + IF end \in {"refused", "lost"} THEN 1 ELSE 0
      /\ followLatched' = LatchedAfter(load.latch, end)
      /\ follows' = IF end \in {"done", "lost"} THEN next ELSE follows
      /\ made' = (made \/ end \in {"done", "lost"})
      /\ followsMem' = IF end \in {"unwritable", "none"} THEN load.shown ELSE HeldAfter(end, next)
      /\ flagsMem' = IF Halts(end) THEN NotHeld ELSE flagsMem
      /\ UNCHANGED <<flags, kept, followRows>>
  BY DEF WriteFollows, Account
<1>4. end \in {"done", "refused", "lost", "none", "unwritable"}
  BY DEF FollowWriteEnds, FollowEnds
<1>5. FollowTypeOK'
  BY <1>1, <1>2, <1>3, <1>4 DEF FollowTypeOK, HeldAfter
<1>6. ASSUME ~followExcused'
      PROVE  /\ ~followExcused /\ MemoryIsDocument /\ LeftWasMade /\ LeftAndFlagsStand
             /\ ~followRows => load.faults = 0 /\ end # "refused"
  <2>1. ~followExcused /\ (~followRows => ~(load.faults > 0) /\ end # "refused")
    BY <1>3, <1>6
  <2>2. ~(load.faults > 0) => load.faults = 0
    BY <1>2
  <2> QED
    BY <2>1, <2>2 DEF FollowInv
<1>7. ASSUME ~followExcused', end \in {"done", "refused", "lost"} PROVE load.shown = follows
  <2>1. "follows" \notin followLatched \cup load.latch
    BY <1>7 DEF FollowWriteEnds
  <2> QED
    BY <1>2, <1>6, <1>7, <2>1 DEF MemoryIsDocument
<1>8. ASSUME ~followExcused' PROVE MemoryIsDocument'
  <2>1. followsMem' \in {NotHeld, follows'} \/ "follows" \in followLatched'
    <3>1. CASE end \in {"done", "refused", "lost"}
      BY <1>3, <1>6, <1>8, <3>1 DEF HeldAfter, Halts
    <3>2. CASE end \in {"none", "unwritable"}
      BY <1>2, <1>3, <1>6, <1>8, <3>2 DEF MemoryIsDocument, LatchedAfter, Halts
    <3> QED
      BY <1>4, <3>1, <3>2
  <2>2. flagsMem' \in {NotHeld, flags'} \/ "flags" \in followLatched'
    BY <1>3, <1>6, <1>8 DEF MemoryIsDocument, LatchedAfter
  <2> QED
    BY <2>1, <2>2 DEF MemoryIsDocument
<1>9. ASSUME ~followExcused' PROVE LeftWasMade'
  BY <1>3, <1>6, <1>9 DEF LeftWasMade
<1>10. ASSUME ~followExcused', NEW t \in left' PROVE follows'[t] = Unfollowed
  <2>1. CASE end \in {"done", "lost"}
    BY <1>3, <1>6, <1>7, <1>10, <2>1 DEF LeftAndFlagsStand
  <2>2. CASE end \notin {"done", "lost"}
    BY <1>3, <1>6, <1>10, <2>2 DEF LeftAndFlagsStand
  <2> QED
    BY <2>1, <2>2
<1>11. LeftAndFlagsStand'
  BY <1>3, <1>6, <1>10 DEF LeftAndFlagsStand
<1> QED
  BY <1>5, <1>8, <1>9, <1>11 DEF FollowInv

\* The requests that write the follow document.
LEMMA FollowRequestKeeps ==
    ASSUME FollowInv, Follow \/ RetuneFollow \/ Unfollow
    PROVE  FollowInv'
<1>1. FollowTypeOK /\ NoGraph \in Graphs
  BY DEF FollowInv, NoGraph, Graphs
<1>2. ASSUME NEW load \in FollowLoads PROVE load.shown \in Graphs
  BY <1>1, HeldShows DEF FollowLoads, FollowTypeOK
<1>3. CASE Follow
  <2>1. PICK load \in FollowLoads, t \in Tickers, level \in Levels,
               end \in {"done", "refused", "lost", "none", "unwritable"} :
           /\ \/ end \in FollowWriteEnds(load)
              \/ end = "none" /\ Added(load.shown, t, level) = load.shown
           /\ WriteFollows(load, Added(load.shown, t, level), end)
           /\ left' = left \ {t}
    BY <1>3 DEF Follow, FollowWriteEnds, FollowEnds
  <2>2. Added(load.shown, t, level) \in Graphs
    BY <1>2, GraphsAreWritten
  <2>3. \A u \in left' : Added(load.shown, t, level)[u] = load.shown[u]
    BY <1>1, <1>2, <2>1 DEF Added, Graphs, FollowTypeOK
  <2> QED
    BY <2>1, <2>2, <2>3, FollowWriteKeeps
<1>4. CASE RetuneFollow
  <2>0. PICK load \in FollowLoads, level \in Levels :
           \E t \in {u \in Tickers : load.shown[u] # Unfollowed}, end \in FollowWriteEnds(load) :
              WriteFollows(load, Retuned(load.shown, t, level), end) /\ UNCHANGED left
    BY <1>4 DEF RetuneFollow
  <2>1. PICK t \in Tickers, end \in FollowWriteEnds(load) :
           /\ load.shown[t] # Unfollowed
           /\ WriteFollows(load, Retuned(load.shown, t, level), end)
           /\ left' = left
    BY <2>0
  <2>2. Retuned(load.shown, t, level) \in Graphs
    BY <1>2, GraphsAreWritten
  <2>3. \A u \in Tickers : u # t => Retuned(load.shown, t, level)[u] = load.shown[u]
    BY <1>2 DEF Retuned, Graphs
  <2>4. \A u \in left' : \/ Retuned(load.shown, t, level)[u] = Unfollowed
                         \/ /\ u \in left
                            /\ \/ Retuned(load.shown, t, level)[u] = load.shown[u]
                               \/ load.shown[u] # Unfollowed
    BY <1>1, <2>1, <2>3 DEF FollowTypeOK
  <2> QED
    BY <2>1, <2>2, <2>4, FollowWriteKeeps
<1>5. CASE Unfollow
  <2>0. PICK load \in FollowLoads :
           \E t \in {u \in Tickers : load.shown[u] # Unfollowed}, end \in FollowWriteEnds(load) :
              /\ WriteFollows(load, Removed(load.shown, t), end)
              /\ left' = IF end = "done" THEN left \cup {t} ELSE left
    BY <1>5 DEF Unfollow
  <2>1. PICK t \in Tickers, end \in FollowWriteEnds(load) :
           /\ WriteFollows(load, Removed(load.shown, t), end)
           /\ left' = IF end = "done" THEN left \cup {t} ELSE left
    BY <2>0
  <2>2. Removed(load.shown, t) \in Graphs
    BY <1>2, GraphsAreWritten
  <2>3. \A u \in Tickers : \/ Removed(load.shown, t)[u] = Unfollowed
                           \/ u # t /\ Removed(load.shown, t)[u] = load.shown[u]
    BY <1>2 DEF Removed, Graphs
  <2>4. left' \subseteq Tickers
    BY <1>1, <2>1 DEF FollowTypeOK
  <2> QED
    BY <1>1, <2>1, <2>2, <2>3, <2>4, FollowWriteKeeps DEF FollowTypeOK
<1> QED
  BY <1>3, <1>4, <1>5

\* The one-time seed is written when there is no document, which nobody can have left.
LEMMA MigrateKeeps ==
    ASSUME FollowInv, MigrateFollows
    PROVE  FollowInv'
<1>1. PICK seed \in Tickers \cup {"nothing"}, blind \in BOOLEAN :
         \E end \in FollowEnds(IF blind THEN 1 ELSE 0) :
            /\ ~made \/ blind
            /\ blind => ~followRows
            /\ Account([faults |-> IF blind THEN 1 ELSE 0], end)
            /\ followLatched' = IF end = "done" THEN followLatched \ {"follows"}
                                ELSE LatchedAfter({}, end)
            /\ follows' = IF end \in {"done", "lost"} THEN Seeded(seed) ELSE follows
            /\ made' = (made \/ end \in {"done", "lost"})
            /\ followsMem' = IF end = "done" THEN Seeded(seed)
                             ELSE IF end = "lost" \/ followRows THEN NotHeld ELSE followsMem
            /\ flagsMem' = IF Halts(end) THEN NotHeld ELSE flagsMem
  BY DEF MigrateFollows, Marked
<1>2. PICK end \in {"done", "refused", "lost"} :
            /\ ~made \/ blind
            /\ blind => ~followRows
            /\ followExcused' = (followExcused \/ (~followRows /\ (blind \/ end = "refused")))
            /\ followFaults' \in Nat
            /\ followLatched' = IF end = "done" THEN followLatched \ {"follows"}
                                ELSE LatchedAfter({}, end)
            /\ follows' = IF end \in {"done", "lost"} THEN Seeded(seed) ELSE follows
            /\ made' = (made \/ end \in {"done", "lost"})
            /\ followsMem' = IF end = "done" THEN Seeded(seed)
                             ELSE IF end = "lost" \/ followRows THEN NotHeld ELSE followsMem
            /\ flagsMem' = IF Halts(end) THEN NotHeld ELSE flagsMem
  <2>1. FollowEnds(IF blind THEN 1 ELSE 0) \subseteq {"done", "refused", "lost"} /\ followFaults \in Nat
    BY DEF FollowEnds, FollowInv, FollowTypeOK
  <2> QED
    BY <1>1, <2>1 DEF Account
<1>3. UNCHANGED <<flags, left, kept, followRows>> /\ Seeded(seed) \in Graphs
  BY DEF MigrateFollows, Account, Seeded, Graphs, Levels
<1>4. FollowTypeOK'
  BY <1>2, <1>3 DEF FollowInv, FollowTypeOK
<1>5. ASSUME ~followExcused'
      PROVE  /\ ~followExcused /\ MemoryIsDocument /\ LeftAndFlagsStand /\ left = {}
             /\ ~followRows => end # "refused"
  BY <1>2, <1>5 DEF FollowInv, LeftWasMade
<1>6. ASSUME ~followExcused' PROVE MemoryIsDocument' /\ LeftWasMade'
  BY <1>2, <1>3, <1>5, <1>6 DEF MemoryIsDocument, LeftWasMade, LatchedAfter, Halts
<1>7. LeftAndFlagsStand'
  BY <1>2, <1>3, <1>5 DEF LeftAndFlagsStand
<1> QED
  BY <1>4, <1>6, <1>7 DEF FollowInv

\* A flag is set or cleared.
LEMMA FlagKeeps ==
    ASSUME FollowInv, FlagEvent
    PROVE  FollowInv'
<1>1. PICK load \in FlagLoads, e \in Feed, on \in SUBSET {"read", "saved"} :
         \E off \in SUBSET ({"read", "saved"} \ on),
            end \in IF "flags" \in followLatched \cup load.latch THEN {"unwritable"}
                    ELSE FollowEnds(load.faults) :
           LET next == Flagged(load.shown, e, on, off) IN
           /\ on \cup off # {}
           /\ Account(load, end)
           /\ followLatched' = LatchedAfter(load.latch, end)
           /\ flags' = IF end \in {"done", "lost"} THEN next ELSE flags
           /\ flagsMem' = IF end = "unwritable" THEN load.shown ELSE HeldAfter(end, next)
           /\ followsMem' = IF Halts(end) THEN NotHeld ELSE followsMem
           /\ kept' = [kept EXCEPT ![e] = (@ \ off) \cup IF end = "done" THEN on ELSE {}]
           /\ UNCHANGED <<made, follows, boundary, left>>
  BY DEF FlagEvent
<1>2. PICK off \in SUBSET {"read", "saved"}, end \in {"done", "refused", "lost", "unwritable"} :
           /\ on \cap off = {}
           /\ "flags" \in followLatched \cup load.latch <=> end = "unwritable"
           /\ Account(load, end)
           /\ followLatched' = LatchedAfter(load.latch, end)
           /\ flags' = IF end \in {"done", "lost"} THEN Flagged(load.shown, e, on, off) ELSE flags
           /\ flagsMem' = IF end = "unwritable" THEN load.shown
                          ELSE HeldAfter(end, Flagged(load.shown, e, on, off))
           /\ followsMem' = IF Halts(end) THEN NotHeld ELSE followsMem
           /\ kept' = [kept EXCEPT ![e] = (@ \ off) \cup IF end = "done" THEN on ELSE {}]
           /\ UNCHANGED <<made, follows, left>>
  BY ZenonT(30), <1>1 DEF FollowEnds
<1>3. FollowTypeOK /\ NoFlags \in FlagSets
  BY DEF FollowInv, NoFlags, FlagSets
<1>4. /\ load.faults \in Nat /\ load.shown \in FlagSets /\ load.latch \in {{}, {"flags"}}
      /\ flagsMem = NotHeld => \/ load.shown = flags
                               \/ load.faults > 0 /\ (followRows => load.latch = {"flags"})
      /\ flagsMem # NotHeld => load.shown = flagsMem
  BY <1>3, HeldShows DEF FlagLoads, FollowTypeOK
<1> DEFINE next == Flagged(load.shown, e, on, off)
<1>5. next \in FlagSets
  BY <1>4, FlagsAreWritten
<1>6. /\ followExcused' = (followExcused \/ (~followRows /\ (load.faults > 0 \/ end = "refused")))
      /\ followFaults' \in Nat /\ UNCHANGED followRows
  BY <1>2, <1>3, <1>4 DEF Account, FollowTypeOK
<1>7. kept' \in FlagSets
  BY <1>2, <1>3 DEF FollowTypeOK, FlagSets
<1> HIDE DEF next
<1>8. FollowTypeOK'
  BY <1>2, <1>3, <1>4, <1>5, <1>6, <1>7 DEF FollowTypeOK, HeldAfter, next
<1>9. ASSUME ~followExcused'
      PROVE  /\ ~followExcused /\ MemoryIsDocument /\ LeftWasMade /\ LeftAndFlagsStand
             /\ ~followRows => load.faults = 0 /\ end # "refused"
  <2>1. ~followExcused /\ (~followRows => ~(load.faults > 0) /\ end # "refused")
    BY <1>6, <1>9
  <2>2. ~(load.faults > 0) => load.faults = 0
    BY <1>4
  <2> QED
    BY <2>1, <2>2 DEF FollowInv
<1>10. ASSUME ~followExcused', end # "unwritable" PROVE load.shown = flags
  BY <1>2, <1>4, <1>9, <1>10 DEF MemoryIsDocument
<1>11. ASSUME ~followExcused' PROVE MemoryIsDocument'
  <2>1. flagsMem' \in {NotHeld, flags'} \/ "flags" \in followLatched'
    <3>1. CASE end # "unwritable"
      BY <1>2, <1>9, <1>11, <3>1 DEF HeldAfter, Halts, next
    <3>2. CASE end = "unwritable"
      BY <1>2, <3>2 DEF LatchedAfter, Halts
    <3> QED
      BY <3>1, <3>2
  <2>2. followsMem' \in {NotHeld, follows'} \/ "follows" \in followLatched'
    BY <1>2, <1>9, <1>11 DEF MemoryIsDocument, LatchedAfter
  <2> QED
    BY <2>1, <2>2 DEF MemoryIsDocument
<1>12. ASSUME ~followExcused' PROVE LeftWasMade'
  BY <1>2, <1>9, <1>12 DEF LeftWasMade
<1>13. ASSUME ~followExcused', NEW f \in Feed PROVE kept'[f] \subseteq flags'[f]
  <2>1. kept[f] \subseteq flags[f] /\ kept \in FlagSets /\ flags \in FlagSets
    BY <1>3, <1>9, <1>13 DEF LeftAndFlagsStand, FollowTypeOK
  <2>2. kept'[f] = IF f = e THEN (kept[e] \ off) \cup IF end = "done" THEN on ELSE {} ELSE kept[f]
    BY <1>2, <2>1 DEF FlagSets
  <2>3. CASE end \in {"done", "lost"}
    <3>1. flags'[f] = IF f = e THEN (flags[e] \ off) \cup on ELSE flags[f]
      BY <1>2, <1>10, <1>13, <2>1, <2>3 DEF FlagSets, Flagged
    <3> QED
      BY <1>2, <2>1, <2>2, <3>1
  <2>4. CASE end \notin {"done", "lost"}
    BY <1>2, <2>1, <2>2, <2>4
  <2> QED
    BY <2>3, <2>4
<1>14. LeftAndFlagsStand'
  BY <1>2, <1>9, <1>13 DEF LeftAndFlagsStand
<1> QED
  BY <1>8, <1>11, <1>12, <1>14 DEF FollowInv

\* A read of the list, the stamp and a start write neither document.
LEMMA FollowRestKeeps ==
    ASSUME FollowInv, ListFollows \/ SetLastCheck \/ RestartFollows \/ UNCHANGED followVars
    PROVE  FollowInv'
<1>1. FollowTypeOK /\ NoGraph \in Graphs
  BY DEF FollowInv, NoGraph, Graphs
<1>2. CASE ListFollows
  <2>1. PICK load \in FollowLoads :
           /\ followsMem' = load.shown
           /\ followLatched' = followLatched \cup load.latch
           /\ followFaults' = followFaults + load.faults
           /\ followExcused' = (followExcused \/ (~followRows /\ load.faults > 0))
    BY <1>2 DEF ListFollows
  <2>2. /\ load.faults \in Nat /\ load.shown \in Graphs /\ load.latch \in {{}, {"follows"}}
        /\ load.shown = follows \/ (load.faults > 0 /\ (followRows => load.latch = {"follows"}))
    BY <1>1, <1>2, HeldShows DEF FollowLoads, FollowTypeOK, ListFollows
  <2>3. UNCHANGED <<followRows, made, follows, flags, flagsMem, left, kept>>
    BY <1>2 DEF ListFollows
  <2>4. FollowTypeOK'
    BY <1>1, <2>1, <2>2, <2>3 DEF FollowTypeOK
  <2>5. ~followExcused' => MemoryIsDocument' /\ LeftWasMade'
    BY <2>1, <2>2, <2>3 DEF FollowInv, MemoryIsDocument, LeftWasMade
  <2>6. LeftAndFlagsStand'
    BY <2>1, <2>3 DEF FollowInv, LeftAndFlagsStand
  <2> QED
    BY <2>4, <2>5, <2>6 DEF FollowInv
<1>3. CASE SetLastCheck
  <2>1. PICK stamp \in 1 .. MaxStamp, unread \in BOOLEAN :
           \E end \in FollowEnds(IF unread THEN 1 ELSE 0) :
              /\ Account([faults |-> IF unread THEN 1 ELSE 0], end)
              /\ followLatched' = LatchedAfter({}, end)
              /\ followsMem' = IF Halts(end) THEN NotHeld ELSE followsMem
              /\ flagsMem' = IF Halts(end) THEN NotHeld ELSE flagsMem
    BY <1>3 DEF SetLastCheck
  <2>2. PICK end : /\ followLatched' = LatchedAfter({}, end)
                   /\ followsMem' = IF Halts(end) THEN NotHeld ELSE followsMem
                   /\ flagsMem' = IF Halts(end) THEN NotHeld ELSE flagsMem
                   /\ followFaults' \in Nat /\ followExcused' \in BOOLEAN
                   /\ followExcused => followExcused'
    BY <1>1, <2>1 DEF Account, FollowTypeOK
  <2>3. UNCHANGED <<followRows, made, follows, flags, left, kept>>
    BY <1>3 DEF SetLastCheck, Account
  <2>4. FollowTypeOK'
    BY <1>1, <2>2, <2>3 DEF FollowTypeOK
  <2>5. ~followExcused' => MemoryIsDocument' /\ LeftWasMade'
    BY <2>2, <2>3 DEF FollowInv, MemoryIsDocument, LeftWasMade, LatchedAfter
  <2>6. LeftAndFlagsStand'
    BY <2>2, <2>3 DEF FollowInv, LeftAndFlagsStand
  <2> QED
    BY <2>4, <2>5, <2>6 DEF FollowInv
<1>4. CASE RestartFollows
  BY <1>1, <1>4
     DEF RestartFollows, FollowInv, FollowTypeOK, MemoryIsDocument, LeftWasMade, LeftAndFlagsStand
<1>5. CASE UNCHANGED followVars
  BY <1>1, <1>5
     DEF followVars, FollowInv, FollowTypeOK, MemoryIsDocument, LeftWasMade, LeftAndFlagsStand
<1> QED
  BY <1>2, <1>3, <1>4, <1>5

(***************************************************************************)
(* A company the user left does not come back by itself, and a flag stays  *)
(* until a request changes it (subscriptions.go, event_state.go), whatever *)
(* loads fail, writes are refused or lost, and starts come between; with   *)
(* files, as long as no file operation failed.                             *)
(***************************************************************************)
THEOREM LeftStaysLeft == FollowSpec => []LeftAndFlagsStand
<1>1. FollowInit => FollowInv
  <2> SUFFICES ASSUME FollowInit PROVE FollowInv
    OBVIOUS
  <2>1. NoGraph \in Graphs /\ NoFlags \in FlagSets
    BY DEF NoGraph, Graphs, NoFlags, FlagSets
  <2>2. FollowTypeOK
    BY <2>1 DEF FollowInit, FollowTypeOK
  <2>3. MemoryIsDocument /\ LeftWasMade
    BY DEF FollowInit, MemoryIsDocument, LeftWasMade
  <2>4. LeftAndFlagsStand
    BY DEF FollowInit, LeftAndFlagsStand, NoFlags
  <2> QED
    BY <2>2, <2>3, <2>4 DEF FollowInv
<1>2. FollowInv /\ [FollowNext]_followVars => FollowInv'
  BY FollowRequestKeeps, MigrateKeeps, FlagKeeps, FollowRestKeeps DEF FollowNext
<1>3. FollowInv => LeftAndFlagsStand
  BY DEF FollowInv
<1> QED
  BY <1>1, <1>2, <1>3, PTL DEF FollowSpec
-----------------------------------------------------------------------------
(***************************************************************************)
(* The trades (TradeJournal).                                              *)
(***************************************************************************)
TradeTypeOK ==
    /\ backend \in {"file", "postgres"} /\ imported \in BOOLEAN /\ serving \in BOOLEAN
    /\ DOMAIN stored = Ids /\ stored = [id \in Ids |-> stored[id]]
    /\ DOMAIN told = Ids /\ told = [id \in Ids |-> told[id]]
    /\ DOMAIN calls = Callers /\ calls = [c \in Callers |-> calls[c]]
    /\ \A c \in Callers : calls[c].step = "read" => calls[c].id \in Ids
    /\ gone \subseteq Ids /\ closed \subseteq Ids

\* The cache is the file; a database has none.
CacheIsStored == cached = NotCached \/ (backend = "file" /\ cached = stored)

\* Before its import a database is empty and nobody is served.
EmptyUntilImported ==
    backend = "postgres" /\ ~imported =>
        /\ ~serving
        /\ \A id \in Ids : stored[id] = NoTrade /\ told[id] = {OldFile[id]}
        /\ gone = {} /\ closed = {}

\* What is stored is what the answers allow.
StoredIsTold == backend = "file" \/ imported => \A id \in Ids : stored[id] \in told[id]

\* An id that was closed is not handed out anew: its trade is deleted, or may still be there.
ClosedIsTaken == \A id \in closed : id \in gone \/ told[id] # {NoTrade}

TradeInv ==
    /\ TradeTypeOK
    /\ CacheIsStored
    /\ EmptyUntilImported
    /\ StoredIsTold
    /\ ClosedIsTaken
    /\ EndsStand

\* What is read is what is stored.
LEMMA ShownIsStored ==
    ASSUME TradeInv
    PROVE  Shown = stored
BY DEF TradeInv, CacheIsStored, Shown

\* The invariant promises what the runs check.
LEMMA TradesStandWhenTold ==
    ASSUME TradeInv
    PROVE  TradesStand
<1>1. serving => \A id \in Ids : stored[id] \in told[id]
  BY DEF TradeInv, TradeTypeOK, EmptyUntilImported, StoredIsTold
<1> QED
  BY <1>1, ShownIsStored DEF TradeInv, TradesStand, AnswersHold

\* A write of the store: the record and the answers move together, whatever its outcome.
LEMMA StoreMovesBoth ==
    ASSUME TradeInv, serving, NEW c \in Callers, NEW id \in Ids, NEW entry, NEW outcome,
           Store(c, id, entry, outcome)
    PROVE  /\ UNCHANGED <<backend, imported>> /\ (backend = "file" \/ imported)
           /\ serving' \in BOOLEAN
           /\ DOMAIN stored' = Ids /\ stored' = [i \in Ids |-> stored'[i]]
           /\ DOMAIN told' = Ids /\ told' = [i \in Ids |-> told'[i]]
           /\ DOMAIN calls' = Callers /\ calls' = [d \in Callers |-> calls'[d]]
           /\ \A d \in Callers : calls'[d] \in {calls[d], Idle}
           /\ outcome \in {"done", "refused", "lost"}
           /\ \A i \in Ids \ {id} : stored'[i] = stored[i] /\ told'[i] = told[i]
           /\ outcome = "refused" => stored'[id] = stored[id] /\ told'[id] = told[id]
           /\ outcome = "done" => stored'[id] = entry /\ told'[id] = {entry}
           /\ outcome = "lost" => stored'[id] = entry /\ told'[id] = told[id] \cup {entry}
           /\ CacheIsStored'
           /\ StoredIsTold'
<1>1. /\ TradeTypeOK /\ Shown = stored /\ StoredIsTold /\ CacheIsStored
      /\ (backend = "file" \/ imported)
  BY ShownIsStored DEF TradeInv, EmptyUntilImported, TradeTypeOK
<1> DEFINE next == [stored EXCEPT ![id] = entry]
<1>2. /\ outcome \in {"done", "refused", "lost"}
      /\ stored' = IF outcome = "refused" THEN stored ELSE next
      /\ cached' = IF backend = "postgres" \/ outcome = "lost" THEN NotCached
                   ELSE IF outcome = "done" THEN next ELSE stored
      /\ serving' = ~(outcome = "lost" /\ backend = "file")
      /\ calls' = IF serving' THEN [calls EXCEPT ![c] = Idle] ELSE [d \in Callers |-> Idle]
      /\ told' = CASE outcome = "done" -> [told EXCEPT ![id] = {entry}]
                   [] outcome = "lost" -> [told EXCEPT ![id] = @ \cup {entry}]
                   [] OTHER -> told
      /\ UNCHANGED <<backend, imported>>
  BY <1>1 DEF Store, Outcomes, CacheAfter
<1>3. /\ DOMAIN next = Ids /\ next = [i \in Ids |-> next[i]] /\ next[id] = entry
      /\ \A i \in Ids \ {id} : next[i] = stored[i]
  BY <1>1 DEF TradeTypeOK
<1> HIDE DEF next
<1>4. /\ DOMAIN stored' = Ids /\ stored' = [i \in Ids |-> stored'[i]]
      /\ \A i \in Ids \ {id} : stored'[i] = stored[i]
      /\ outcome = "refused" => stored'[id] = stored[id]
      /\ outcome # "refused" => stored'[id] = entry
  BY <1>1, <1>2, <1>3 DEF TradeTypeOK
<1>5. /\ DOMAIN told' = Ids /\ told' = [i \in Ids |-> told'[i]]
      /\ \A i \in Ids \ {id} : told'[i] = told[i]
      /\ outcome = "refused" => told'[id] = told[id]
      /\ outcome = "done" => told'[id] = {entry}
      /\ outcome = "lost" => told'[id] = told[id] \cup {entry}
  <2>1. CASE outcome = "done"
    BY <1>1, <1>2, <2>1 DEF TradeTypeOK
  <2>2. CASE outcome = "lost"
    BY <1>1, <1>2, <2>2 DEF TradeTypeOK
  <2>3. CASE outcome = "refused"
    BY <1>1, <1>2, <2>3 DEF TradeTypeOK
  <2> QED
    BY <1>2, <2>1, <2>2, <2>3
<1>6. /\ DOMAIN calls' = Callers /\ calls' = [d \in Callers |-> calls'[d]]
      /\ \A d \in Callers : calls'[d] \in {calls[d], Idle}
  <2>1. CASE serving'
    BY <1>1, <1>2, <2>1 DEF TradeTypeOK
  <2>2. CASE ~serving'
    BY <1>2, <2>2
  <2> QED
    BY <2>1, <2>2
<1>7. CacheIsStored'
  BY <1>1, <1>2 DEF CacheIsStored, TradeTypeOK
<1>8. StoredIsTold'
  BY <1>1, <1>2, <1>4, <1>5 DEF StoredIsTold
<1>9. serving' \in BOOLEAN
  BY <1>2
<1> QED
  BY <1>1, <1>2, <1>4, <1>5, <1>6, <1>7, <1>8, <1>9

\* The rest of the invariant after a write, from what the write leaves closed and deleted.
LEMMA WriteKeepsTrades ==
    ASSUME TradeInv, serving, NEW c \in Callers, NEW id \in Ids, NEW entry, NEW outcome,
           Store(c, id, entry, outcome), ClosedIsTaken', EndsStand',
           gone' \subseteq Ids, closed' \subseteq Ids
    PROVE  TradeInv'
<1>1. TradeTypeOK /\ Idle.step # "read"
  BY DEF TradeInv, Idle
<1>2. \A d \in Callers : calls'[d].step = "read" => calls'[d].id \in Ids
  BY <1>1, StoreMovesBoth DEF TradeTypeOK
<1>a. /\ backend' = backend /\ imported' = imported /\ (backend = "file" \/ imported)
      /\ serving' \in BOOLEAN
      /\ DOMAIN stored' = Ids /\ stored' = [i \in Ids |-> stored'[i]]
      /\ DOMAIN told' = Ids /\ told' = [i \in Ids |-> told'[i]]
      /\ DOMAIN calls' = Callers /\ calls' = [d \in Callers |-> calls'[d]]
  BY StoreMovesBoth
<1>b. backend' \in {"file", "postgres"} /\ imported' \in BOOLEAN
  BY <1>1, <1>a DEF TradeTypeOK
<1>3. TradeTypeOK'
  BY <1>2, <1>a, <1>b DEF TradeTypeOK
<1>4. EmptyUntilImported'
  <2>1. backend' = "file" \/ imported'
    BY <1>a
  <2> QED
    BY <2>1 DEF EmptyUntilImported
<1> QED
  BY <1>3, <1>4, StoreMovesBoth DEF TradeInv

\* A new entry gets an id that nothing was said about: not deleted, and never closed.
LEMMA CreateKeeps ==
    ASSUME TradeInv, NEW c \in Callers, Create(c)
    PROVE  TradeInv'
<1>1. PICK id \in NewTrades, plan \in Plans \ {BadPlan}, outcome \in {"done", "refused", "lost"} :
         /\ serving
         /\ told[id] = {NoTrade} /\ id \notin gone
         /\ Store(c, id, [exit |-> FALSE, plan |-> plan], outcome)
         /\ UNCHANGED <<gone, closed>>
  BY DEF Create
<1> DEFINE entry == [exit |-> FALSE, plan |-> plan]
<1>2. id \in Ids /\ Store(c, id, entry, outcome)
  BY <1>1 DEF Ids
<1> HIDE DEF entry
<1>3. id \notin closed
  BY <1>1 DEF TradeInv, ClosedIsTaken
<1>4. /\ \A i \in Ids \ {id} : stored'[i] = stored[i] /\ told'[i] = told[i]
  BY <1>1, <1>2, StoreMovesBoth
<1>5. gone \subseteq Ids /\ closed \subseteq Ids
  BY DEF TradeInv, TradeTypeOK
<1>6. ClosedIsTaken'
  BY <1>1, <1>3, <1>4, <1>5 DEF TradeInv, ClosedIsTaken
<1>7. crossed' = crossed
  BY DEF Create
<1>8. EndsStand'
  BY <1>1, <1>3, <1>4, <1>5, <1>7 DEF TradeInv, EndsStand
<1> QED
  BY <1>1, <1>2, <1>5, <1>6, <1>8, WriteKeepsTrades

\* A merged record has an exit field, which only grows.
LEMMA MergedKeepsExit ==
    ASSUME NEW entry, NEW patch
    PROVE  Merged(entry, patch) # NoTrade /\ (entry.exit => Merged(entry, patch).exit)
<1>1. "exit" \in DOMAIN Merged(entry, patch) /\ "exit" \notin DOMAIN NoTrade
  BY DEF Merged, NoTrade
<1>2. entry.exit => Merged(entry, patch).exit
  BY DEF Merged
<1> QED
  BY <1>1, <1>2

\* A PATCH keeps an exit, unless what it read is not what it replaces: then it crossed another.
LEMMA FinishPatchKeeps ==
    ASSUME TradeInv, NEW c \in Callers, FinishPatch(c)
    PROVE  TradeInv'
<1> DEFINE id == calls[c].id
<1>1. PICK patch \in Patch, outcome \in {"done", "refused", "lost"} :
         /\ serving
         /\ calls[c].step = "read"
         /\ Replaceable(id)
         /\ Store(c, id, Merged(calls[c].trade, patch), outcome)
         /\ crossed' = IF outcome # "refused" /\ Shown[id] # calls[c].trade
                       THEN crossed \cup {id} ELSE crossed
         /\ closed' = IF outcome = "done" /\ Merged(calls[c].trade, patch).exit
                      THEN closed \cup {id} ELSE closed
         /\ gone' = gone
  BY DEF FinishPatch
<1> DEFINE entry == Merged(calls[c].trade, patch)
<1>2. /\ id \in Ids /\ gone \subseteq Ids /\ closed \subseteq Ids
      /\ Store(c, id, entry, outcome)
  BY <1>1 DEF TradeInv, TradeTypeOK
<1>3. entry # NoTrade /\ (calls[c].trade.exit => entry.exit)
  BY MergedKeepsExit
<1>4. stored[id] # NoTrade /\ Shown = stored /\ id \notin gone
  BY <1>1, <1>2, ShownIsStored DEF Replaceable, TradeInv, EndsStand
<1>5. /\ crossed \subseteq crossed'
      /\ outcome # "refused" /\ id \notin crossed' => stored[id] = calls[c].trade
      /\ closed' \subseteq closed \cup {id}
      /\ id \in closed' \ closed => outcome = "done" /\ entry.exit
  BY <1>1, <1>4
<1> HIDE DEF entry, id
<1>6. /\ \A i \in Ids \ {id} : stored'[i] = stored[i] /\ told'[i] = told[i]
      /\ outcome = "refused" => stored'[id] = stored[id] /\ told'[id] = told[id]
      /\ outcome = "done" => stored'[id] = entry /\ told'[id] = {entry}
      /\ outcome = "lost" => stored'[id] = entry /\ told'[id] = told[id] \cup {entry}
  BY <1>1, <1>2, StoreMovesBoth
<1>7. \A i \in closed' : i \in gone' \/ told'[i] # {NoTrade}
  <2> SUFFICES ASSUME NEW i \in closed' PROVE i \in gone' \/ told'[i] # {NoTrade}
    OBVIOUS
  <2>1. CASE i # id
    BY <1>1, <1>2, <1>5, <1>6, <2>1 DEF TradeInv, ClosedIsTaken
  <2>2. CASE i = id /\ outcome = "refused"
    BY <1>1, <1>5, <1>6, <2>2 DEF TradeInv, ClosedIsTaken
  <2>3. CASE i = id /\ outcome # "refused"
    BY <1>1, <1>3, <1>6, <2>3
  <2> QED
    BY <2>1, <2>2, <2>3
<1>8. \A i \in closed' \ crossed' : stored'[i] # NoTrade => stored'[i].exit
  <2> SUFFICES ASSUME NEW i \in closed' \ crossed', stored'[i] # NoTrade PROVE stored'[i].exit
    OBVIOUS
  <2>1. CASE i # id
    BY <1>2, <1>5, <1>6, <2>1 DEF TradeInv, EndsStand
  <2>2. CASE i = id /\ outcome = "refused"
    BY <1>5, <1>6, <2>2 DEF TradeInv, EndsStand
  <2>3. CASE i = id /\ outcome # "refused"
    <3>1. stored'[i] = entry
      BY <1>1, <1>6, <2>3
    <3>2. CASE id \in closed
      BY <1>3, <1>4, <1>5, <2>3, <3>1, <3>2 DEF TradeInv, EndsStand
    <3>3. CASE id \notin closed
      BY <1>5, <2>3, <3>1, <3>3
    <3> QED
      BY <3>2, <3>3
  <2> QED
    BY <2>1, <2>2, <2>3
<1>9. \A i \in gone' : stored'[i] = NoTrade
  BY <1>1, <1>2, <1>4, <1>6 DEF TradeInv, EndsStand
<1>10. ClosedIsTaken' /\ EndsStand'
  BY <1>7, <1>8, <1>9 DEF ClosedIsTaken, EndsStand
<1>11. gone' \subseteq Ids /\ closed' \subseteq Ids
  BY <1>1, <1>2, <1>5
<1> QED
  BY <1>1, <1>2, <1>10, <1>11, WriteKeepsTrades

\* A deleted entry is gone by its answer, and may be there still without one.
LEMMA DeleteKeeps ==
    ASSUME TradeInv, NEW c \in Callers, DeleteTrade(c)
    PROVE  TradeInv'
<1>1. PICK id \in Present(Shown), outcome \in {"done", "refused", "lost"} :
         /\ serving
         /\ Store(c, id, NoTrade, outcome)
         /\ gone' = IF outcome = "done" THEN gone \cup {id} ELSE gone
         /\ UNCHANGED <<closed, crossed>>
  BY DEF DeleteTrade
<1>2. id \in Ids /\ stored[id] # NoTrade /\ gone \subseteq Ids /\ closed \subseteq Ids
  BY ShownIsStored DEF Present, TradeInv, TradeTypeOK
<1>3. /\ \A i \in Ids \ {id} : stored'[i] = stored[i] /\ told'[i] = told[i]
      /\ outcome = "refused" => stored'[id] = stored[id] /\ told'[id] = told[id]
      /\ outcome = "done" => stored'[id] = NoTrade
      /\ outcome = "lost" => stored'[id] = NoTrade /\ told'[id] = told[id] \cup {NoTrade}
  BY <1>1, <1>2, StoreMovesBoth
<1>4. /\ (backend = "file" \/ imported)
      /\ stored[id] \in told[id]
  BY <1>1, <1>2, StoreMovesBoth DEF TradeInv, StoredIsTold
<1>5. ClosedIsTaken'
  BY <1>1, <1>2, <1>3, <1>4 DEF TradeInv, ClosedIsTaken
<1>6. EndsStand'
  BY <1>1, <1>2, <1>3 DEF TradeInv, EndsStand
<1> QED
  BY <1>1, <1>2, <1>5, <1>6, WriteKeepsTrades

\* The import fills an empty database with the old file, once.
LEMMA StartKeeps ==
    ASSUME TradeInv, StartJournal
    PROVE  TradeInv'
<1>1. PICK outcome \in IF Imports THEN Outcomes ELSE {"done"} :
         /\ stored' = IF Imports /\ outcome # "refused"
                      THEN [id \in Ids |-> IF stored[id] = NoTrade THEN OldFile[id] ELSE stored[id]]
                      ELSE stored
         /\ imported' = (imported \/ (Imports /\ outcome # "refused"))
         /\ serving' = (outcome = "done")
         /\ UNCHANGED <<backend, cached, calls, told, gone, closed, crossed>>
  BY DEF StartJournal
<1>2. TradeTypeOK /\ CacheIsStored /\ EmptyUntilImported /\ StoredIsTold /\ ClosedIsTaken /\ EndsStand
  BY DEF TradeInv
<1>3. outcome \in {"done", "refused", "lost"}
  BY DEF Outcomes
<1>4. CASE Imports /\ outcome # "refused"
  <2>1. /\ backend = "postgres" /\ ~imported /\ imported'
        /\ stored' = [id \in Ids |-> OldFile[id]]
        /\ gone = {} /\ closed = {} /\ cached = NotCached
        /\ \A id \in Ids : told[id] = {OldFile[id]}
    BY <1>1, <1>2, <1>4 DEF Imports, EmptyUntilImported, CacheIsStored
  <2>2. TradeTypeOK'
    BY <1>1, <1>2, <2>1 DEF TradeTypeOK
  <2>3. StoredIsTold'
    BY <1>1, <2>1 DEF StoredIsTold
  <2>4. CacheIsStored' /\ EmptyUntilImported' /\ ClosedIsTaken' /\ EndsStand'
    BY <1>1, <2>1 DEF CacheIsStored, EmptyUntilImported, ClosedIsTaken, EndsStand
  <2> QED
    BY <2>2, <2>3, <2>4 DEF TradeInv
<1>5. CASE ~(Imports /\ outcome # "refused")
  <2>1. /\ stored' = stored /\ imported' = imported
        /\ UNCHANGED <<backend, cached, calls, told, gone, closed, crossed>>
        /\ backend = "postgres" /\ ~imported => ~serving'
        /\ serving' \in BOOLEAN
    <3>1. imported' = imported
      BY <1>1, <1>2, <1>5 DEF TradeTypeOK
    <3> QED
      BY <1>1, <1>5, <3>1 DEF Imports
  <2>2. TradeTypeOK'
    BY <1>2, <2>1 DEF TradeTypeOK
  <2>3. CacheIsStored' /\ ClosedIsTaken' /\ EndsStand'
    BY <1>2, <2>1 DEF CacheIsStored, ClosedIsTaken, EndsStand
  <2>4. EmptyUntilImported' /\ StoredIsTold'
    BY <1>2, <2>1 DEF EmptyUntilImported, StoredIsTold
  <2> QED
    BY <2>2, <2>3, <2>4 DEF TradeInv
<1> QED
  BY <1>4, <1>5

\* A read fills the cache, a refusal forgets a request, a stop forgets both.
LEMMA TradeRestKeeps ==
    ASSUME TradeInv,
           (\E c \in Callers : ReadForPatch(c) \/ RejectPatch(c)) \/ StopJournal \/ UNCHANGED tradeVars
    PROVE  TradeInv'
<1>1. /\ UNCHANGED <<backend, stored, imported, told, gone, closed, crossed>>
      /\ serving' = serving \/ serving' = FALSE
  BY DEF ReadForPatch, RejectPatch, StopJournal, tradeVars
<1>a. serving' \in BOOLEAN /\ (serving' => serving)
  <2>1. serving \in BOOLEAN
    BY DEF TradeInv, TradeTypeOK
  <2>2. CASE serving' = serving
    BY <2>1, <2>2
  <2>3. CASE serving' = FALSE
    BY <2>3
  <2> QED
    BY <1>1, <2>2, <2>3
<1>2. CacheIsStored'
  BY <1>1, ShownIsStored DEF ReadForPatch, RejectPatch, StopJournal, tradeVars, TradeInv,
     TradeTypeOK, CacheIsStored
<1>3. /\ DOMAIN calls' = Callers /\ calls' = [c \in Callers |-> calls'[c]]
      /\ \A c \in Callers : calls'[c].step = "read" => calls'[c].id \in Ids
  <2>1. TradeTypeOK /\ Idle.step # "read"
    BY DEF TradeInv, Idle
  <2>2. CASE \E c \in Callers : ReadForPatch(c)
    <3>1. PICK c \in Callers, id \in Ids :
             calls' = [calls EXCEPT ![c] = [step |-> "read", id |-> id, trade |-> Shown[id]]]
      BY <2>2 DEF ReadForPatch, Present
    <3> QED
      BY <2>1, <3>1 DEF TradeTypeOK
  <2>3. CASE \E c \in Callers : RejectPatch(c)
    <3>1. PICK c \in Callers : calls' = [calls EXCEPT ![c] = Idle]
      BY <2>3 DEF RejectPatch
    <3> QED
      BY <2>1, <3>1 DEF TradeTypeOK
  <2>4. CASE StopJournal
    BY <2>1, <2>4 DEF StopJournal
  <2>5. CASE UNCHANGED tradeVars
    BY <2>1, <2>5 DEF tradeVars, TradeTypeOK
  <2> QED
    BY <2>2, <2>3, <2>4, <2>5
<1>4. TradeTypeOK'
  BY <1>1, <1>a, <1>3 DEF TradeInv, TradeTypeOK
<1>5. EmptyUntilImported' /\ StoredIsTold' /\ ClosedIsTaken' /\ EndsStand'
  BY <1>1, <1>a DEF TradeInv, EmptyUntilImported, StoredIsTold, ClosedIsTaken, EndsStand
<1> QED
  BY <1>2, <1>4, <1>5 DEF TradeInv

(***************************************************************************)
(* A trade is what its last answer said, and an end that was acknowledged  *)
(* is an end, unless a PATCH crossed another (store.go, store_postgres.go, *)
(* trades.go), for any number of requests in flight, of failed and lost    *)
(* writes, and of starts with the old file still there.                    *)
(***************************************************************************)
THEOREM TradesKeepTheirEnds == TradeSpec => []TradesStand
<1>1. TradeInit => TradeInv
  <2> SUFFICES ASSUME TradeInit PROVE TradeInv
    OBVIOUS
  <2>1. TradeTypeOK
    BY DEF TradeInit, TradeTypeOK, OldFile, Idle
  <2>2. CacheIsStored /\ ClosedIsTaken /\ EndsStand
    BY DEF TradeInit, CacheIsStored, ClosedIsTaken, EndsStand
  <2>3. EmptyUntilImported /\ StoredIsTold
    BY DEF TradeInit, EmptyUntilImported, StoredIsTold, OldFile
  <2> QED
    BY <2>1, <2>2, <2>3 DEF TradeInv
<1>2. TradeInv /\ [TradeNext]_tradeVars => TradeInv'
  BY CreateKeeps, FinishPatchKeeps, DeleteKeeps, StartKeeps, TradeRestKeeps DEF TradeNext
<1>3. TradeInv => TradesStand
  BY TradesStandWhenTold
<1> QED
  BY <1>1, <1>2, <1>3, PTL DEF TradeSpec

-----------------------------------------------------------------------------
(***************************************************************************)
(* Accounts, settings and feedback (AccountStore).                         *)
(***************************************************************************)
AccountTypeOK ==
    /\ accountRows \in BOOLEAN /\ misread \in BOOLEAN
    /\ accounts = [e \in Emails |-> accounts[e]]
    /\ toldAccounts = [e \in Emails |-> toldAccounts[e]]
    /\ feedback = [i \in Feedbacks |-> feedback[i]]
    /\ feedbackMem = [i \in Feedbacks |-> feedbackMem[i]]
    /\ toldFeedback = [i \in Feedbacks |-> toldFeedback[i]]
    /\ reqs = [c \in Clients |-> reqs[c]]

\* Settings that are there have a ticker, and so has what a PUT read.
TickersAreKnown ==
    /\ settings = NoSettings \/ settings.ticker # "none"
    /\ settingsMem = NoSettings \/ settingsMem.ticker # "none"
    /\ \A c \in Clients : reqs[c].step = "put" => reqs[c].seen # "none"

\* The memory of the settings is the file, from a start that could read it.
SettingsAreHeld == ~misread /\ ~accountRows => settingsMem = settings

AccountInv ==
    /\ AccountTypeOK
    /\ TickersAreKnown
    /\ SettingsAreHeld
    /\ AccountsStand

\* What settings a request reads has a ticker.
LEMMA ReadHasTicker ==
    ASSUME AccountInv
    PROVE  ReadSettings.ticker # "none"
<1>1. FirstValue # "none"
  BY AccountAssumption
<1> QED
  BY <1>1 DEF AccountInv, TickersAreKnown, ReadSettings, DefaultSettings

\* What was told of a value follows the value, whatever end the write has.
LEMMA ToldFollows ==
    ASSUME NEW end \in {"done", "refused", "lost"}, NEW old, NEW new, NEW before, old \in before
    PROVE  After(end, old, new) \in ToldOf(end, before, new)
BY DEF After, ToldOf

\* An account that is written is what is told of it.
LEMMA AccountKeeps ==
    ASSUME AccountInv, NEW e \in Emails, NEW account, NEW end \in {"done", "refused", "lost"},
           SetAccount(e, account, end)
    PROVE  AccountInv'
<1>1. /\ UNCHANGED <<accountRows, settings, settingsMem, feedback, feedbackMem, reqs, toldSettings,
                     toldFeedback, tickers, misread>>
      /\ accounts' = [accounts EXCEPT ![e] = After(end, @, account)]
      /\ toldAccounts' = [toldAccounts EXCEPT ![e] = ToldOf(end, @, account)]
  BY DEF SetAccount
<1>2. AccountTypeOK /\ AccountsStand
  BY DEF AccountInv
<1>3. /\ accounts' = [x \in Emails |-> accounts'[x]]
      /\ toldAccounts' = [x \in Emails |-> toldAccounts'[x]]
      /\ accounts'[e] = After(end, accounts[e], account)
      /\ toldAccounts'[e] = ToldOf(end, toldAccounts[e], account)
      /\ \A x \in Emails \ {e} : accounts'[x] = accounts[x] /\ toldAccounts'[x] = toldAccounts[x]
  BY <1>1, <1>2 DEF AccountTypeOK
<1>4. accounts[e] \in toldAccounts[e]
  BY <1>2 DEF AccountsStand
<1>5. \A x \in Emails : accounts'[x] \in toldAccounts'[x]
  BY <1>2, <1>3, <1>4, ToldFollows DEF AccountsStand
<1>6. AccountTypeOK'
  BY <1>1, <1>2, <1>3 DEF AccountTypeOK
<1>7. AccountsStand'
  BY <1>1, <1>2, <1>5 DEF AccountsStand, ReadSettings
<1>8. TickersAreKnown' /\ SettingsAreHeld'
  BY <1>1 DEF AccountInv, TickersAreKnown, SettingsAreHeld
<1> QED
  BY <1>6, <1>7, <1>8 DEF AccountInv

\* Settings that are written have a ticker, and the active one is that of the last answer.
LEMMA SettingsKeep ==
    ASSUME AccountInv, NEW in, NEW current, NEW other, NEW end \in {"done", "refused", "lost"},
           end = "lost" => accountRows, TickerOf(in, current) # "none",
           StoreSettings(in, current, other, end),
           reqs' = reqs \/ \E c \in Clients : reqs' = [reqs EXCEPT ![c] = AtRest]
    PROVE  AccountInv'
<1> DEFINE new == [ticker |-> TickerOf(in, current), other |-> other]
<1>1. /\ UNCHANGED <<accountRows, accounts, feedback, feedbackMem, toldAccounts, toldFeedback, misread>>
      /\ settings' = After(end, settings, new)
      /\ settingsMem' = IF accountRows THEN settingsMem ELSE After(end, settingsMem, new)
      /\ toldSettings' = ToldOf(end, toldSettings, new)
      /\ tickers' = CASE in # "none" -> ToldOf(end, tickers, in)
                      [] in = "none" /\ current \in tickers -> tickers
                      [] OTHER -> ToldOf(end, tickers, current)
  BY DEF StoreSettings
<1>2. AccountTypeOK /\ AccountsStand /\ TickersAreKnown /\ SettingsAreHeld
  BY DEF AccountInv
<1>3. new.ticker = TickerOf(in, current) /\ new.ticker # "none" /\ new # NoSettings
  BY DEF NoSettings
<1> HIDE DEF new
<1>4. /\ reqs' = [c \in Clients |-> reqs'[c]]
      /\ \A c \in Clients : reqs'[c] \in {reqs[c], AtRest}
  BY <1>2 DEF AccountTypeOK
<1>5. AccountTypeOK'
  BY <1>1, <1>2, <1>4 DEF AccountTypeOK
<1>6. TickersAreKnown'
  <2>1. AtRest.step # "put"
    BY DEF AtRest
  <2>2. \A c \in Clients : reqs'[c].step = "put" => reqs'[c].seen # "none"
    BY <1>2, <1>4, <2>1 DEF TickersAreKnown
  <2> QED
    BY <1>1, <1>2, <1>3, <2>2 DEF TickersAreKnown, After
<1>7. SettingsAreHeld'
  BY <1>1, <1>2 DEF SettingsAreHeld
<1>8. ASSUME ~misread PROVE settings' \in toldSettings' /\ ReadSettings'.ticker \in tickers'
  <2>1. settings \in toldSettings /\ ReadSettings.ticker \in tickers
    BY <1>2, <1>8 DEF AccountsStand
  <2>2. settings' \in toldSettings'
    BY <1>1, <2>1, ToldFollows
  <2>3. CASE end = "refused"
    <3>1. tickers' = tickers
      BY <1>1, <2>3 DEF ToldOf
    <3>2. settings' = settings /\ settingsMem' = settingsMem
      BY <1>1, <2>3 DEF After
    <3>3. ReadSettings' = ReadSettings
      BY <1>1, <3>2 DEF ReadSettings
    <3> QED
      BY <2>1, <2>2, <3>1, <3>3
  <2>4. CASE end # "refused"
    <3>1. ReadSettings' = new
      BY <1>1, <1>3, <2>4 DEF After, ReadSettings
    <3>2. TickerOf(in, current) \in tickers'
      <4>1. CASE in # "none"
        BY <1>1, <2>4, <4>1 DEF TickerOf, ToldOf
      <4>2. CASE in = "none" /\ current \in tickers
        BY <1>1, <4>2 DEF TickerOf
      <4>3. CASE in = "none" /\ current \notin tickers
        BY <1>1, <2>4, <4>3 DEF TickerOf, ToldOf
      <4> QED
        BY <4>1, <4>2, <4>3
    <3> QED
      BY <1>3, <2>2, <3>1, <3>2
  <2> QED
    BY <2>3, <2>4
<1>9. AccountsStand'
  BY <1>1, <1>2, <1>8 DEF AccountsStand
<1> QED
  BY <1>5, <1>6, <1>7, <1>9 DEF AccountInv

\* Feedback that is written is what is told of it, also by a table that memory rewrites.
LEMMA FeedbackKeeps ==
    ASSUME AccountInv, NEW i, NEW status, NEW end \in {"done", "refused", "lost"},
           StoreFeedback(i, status, end),
           reqs' = reqs \/ \E c \in Clients : reqs' = [reqs EXCEPT ![c] = AtRest]
    PROVE  AccountInv'
<1> DEFINE new == [feedbackMem EXCEPT ![i] = status]
<1>1. /\ UNCHANGED <<accountRows, accounts, settings, settingsMem, toldAccounts, toldSettings,
                     tickers, misread>>
      /\ feedback' = After(end, feedback, new)
      /\ feedbackMem' = IF end = "done" THEN new ELSE feedbackMem
      /\ toldFeedback' = [toldFeedback EXCEPT ![i] = ToldOf(end, @, status)]
  BY DEF StoreFeedback
<1>2. AccountTypeOK /\ AccountsStand /\ TickersAreKnown /\ SettingsAreHeld
  BY DEF AccountInv
<1>3. /\ new = [j \in Feedbacks |-> new[j]]
      /\ \A j \in Feedbacks : new[j] = IF j = i THEN status ELSE feedbackMem[j]
  BY <1>2 DEF AccountTypeOK
<1> HIDE DEF new
<1>4. /\ toldFeedback' = [j \in Feedbacks |-> toldFeedback'[j]]
      /\ \A j \in Feedbacks : toldFeedback'[j] = IF j = i THEN ToldOf(end, toldFeedback[j], status)
                                                 ELSE toldFeedback[j]
  BY <1>1, <1>2 DEF AccountTypeOK
<1>5. /\ reqs' = [c \in Clients |-> reqs'[c]]
      /\ \A c \in Clients : reqs'[c] \in {reqs[c], AtRest}
  BY <1>2 DEF AccountTypeOK
<1>6. AccountTypeOK'
  BY <1>1, <1>2, <1>3, <1>4, <1>5 DEF AccountTypeOK, After
<1>7. TickersAreKnown'
  <2>1. AtRest.step # "put"
    BY DEF AtRest
  <2> QED
    BY <1>1, <1>2, <1>5, <2>1 DEF TickersAreKnown
<1>8. SettingsAreHeld'
  BY <1>1, <1>2 DEF SettingsAreHeld
<1>9. ASSUME ~misread, NEW j \in Feedbacks
      PROVE  feedback'[j] \in toldFeedback'[j] /\ feedbackMem'[j] \in toldFeedback'[j]
  <2>1. feedback[j] \in toldFeedback[j] /\ feedbackMem[j] \in toldFeedback[j]
    BY <1>2, <1>9 DEF AccountsStand
  <2>2. CASE j = i
    <3>1. toldFeedback'[j] = ToldOf(end, toldFeedback[j], status) /\ new[j] = status
      BY <1>3, <1>4, <2>2
    <3> QED
      BY <1>1, <2>1, <3>1 DEF ToldOf, After
  <2>3. CASE j # i
    <3>1. toldFeedback'[j] = toldFeedback[j] /\ new[j] = feedbackMem[j]
      BY <1>3, <1>4, <2>3
    <3> QED
      BY <1>1, <2>1, <3>1 DEF After
  <2> QED
    BY <2>2, <2>3
<1>10. AccountsStand'
  BY <1>1, <1>2, <1>9 DEF AccountsStand, ReadSettings
<1> QED
  BY <1>6, <1>7, <1>8, <1>10 DEF AccountInv

\* What a client reads first, and a start.
LEMMA AccountRestKeeps ==
    ASSUME AccountInv,
           \/ \E unread \in BOOLEAN : StartServices(unread)
           \/ \E c \in Clients : ReadForPut(c) \/ \E i \in Feedbacks : GetFeedback(c, i)
           \/ UNCHANGED accountVars
    PROVE  AccountInv'
<1>1. AccountTypeOK /\ AccountsStand /\ TickersAreKnown /\ SettingsAreHeld
  BY DEF AccountInv
<1>2. CASE \E c \in Clients : ReadForPut(c) \/ \E i \in Feedbacks : GetFeedback(c, i)
  <2>1. UNCHANGED <<accountRows, accounts, settings, settingsMem, feedback, feedbackMem, toldAccounts,
                    toldSettings, toldFeedback, tickers, misread>>
    BY <1>2 DEF ReadForPut, GetFeedback
  <2>2. PICK c \in Clients : ReadForPut(c) \/ \E i \in Feedbacks : GetFeedback(c, i)
    BY <1>2
  <2>3. /\ reqs' = [d \in Clients |-> reqs'[d]]
        /\ \A d \in Clients : reqs'[d].step = "put" => reqs'[d].seen # "none"
    <3>1. CASE ReadForPut(c)
      <4>1. reqs' = [reqs EXCEPT ![c] = [step |-> "put", on |-> "none", seen |-> ReadSettings.ticker]]
        BY <3>1 DEF ReadForPut
      <4> QED
        BY <1>1, <4>1, ReadHasTicker DEF AccountTypeOK, TickersAreKnown
    <3>2. CASE \E i \in Feedbacks : GetFeedback(c, i)
      <4>1. PICK i \in Feedbacks :
               reqs' = [reqs EXCEPT ![c] = [step |-> "patch", on |-> i, seen |-> feedbackMem[i]]]
        BY <3>2 DEF GetFeedback
      <4> QED
        BY <1>1, <4>1 DEF AccountTypeOK, TickersAreKnown
    <3> QED
      BY <2>2, <3>1, <3>2
  <2> QED
    BY <1>1, <2>1, <2>3 DEF AccountInv, AccountTypeOK, TickersAreKnown, SettingsAreHeld, AccountsStand,
       ReadSettings
<1>3. CASE \E unread \in BOOLEAN : StartServices(unread)
  <2>1. PICK unread \in BOOLEAN : StartServices(unread)
    BY <1>3
  <2>2. /\ UNCHANGED <<accountRows, accounts, settings, feedback, toldAccounts, toldSettings,
                       toldFeedback, tickers>>
        /\ reqs' = [c \in Clients |-> AtRest]
        /\ settingsMem' = IF accountRows \/ unread THEN NoSettings ELSE settings
        /\ feedbackMem' = IF unread THEN [i \in Feedbacks |-> NoItem] ELSE feedback
        /\ misread' = (misread \/ unread)
    BY <2>1 DEF StartServices
  <2>3. ~misread' => ~misread /\ ~unread
    BY <2>2
  <2>4. AccountTypeOK'
    BY <1>1, <2>2 DEF AccountTypeOK
  <2>5. TickersAreKnown' /\ SettingsAreHeld'
    BY <1>1, <2>2, <2>3 DEF TickersAreKnown, SettingsAreHeld, AtRest
  <2>6. ~misread' => ReadSettings' = ReadSettings
    BY <1>1, <2>2, <2>3 DEF ReadSettings, SettingsAreHeld
  <2>7. AccountsStand'
    BY <1>1, <2>2, <2>3, <2>6 DEF AccountsStand
  <2> QED
    BY <2>4, <2>5, <2>7 DEF AccountInv
<1>4. CASE UNCHANGED accountVars
  BY <1>1, <1>4 DEF accountVars, AccountInv, AccountTypeOK, TickersAreKnown, SettingsAreHeld,
     AccountsStand, ReadSettings
<1> QED
  BY <1>2, <1>3, <1>4

\* The requests.
LEMMA AccountRequestKeeps ==
    ASSUME AccountInv, NEW end \in EndsOfWrite,
           \/ \E e \in Emails : \/ CreateUser(e, end)
                              \/ \E sub \in GoogleSubs : FindOrLinkGoogleUser(e, sub, end)
           \/ \E ticker, other \in AccountValues : PutSettings(ticker, other, end)
           \/ \E c \in Clients, other \in AccountValues : PutWithoutTicker(c, other, end)
           \/ \E c \in Clients, status \in FeedbackStates \cup {"none"} : ReplaceFeedback(c, status, end)
           \/ \E i \in Feedbacks : AddFeedback(i, end) \/ DeleteFeedback(i, end)
    PROVE  AccountInv'
<1>1. end \in {"done", "refused", "lost"} /\ (end = "lost" => accountRows)
  BY DEF EndsOfWrite
<1>2. CASE \E e \in Emails : \/ CreateUser(e, end)
                            \/ \E sub \in GoogleSubs : FindOrLinkGoogleUser(e, sub, end)
  BY <1>1, <1>2, AccountKeeps DEF CreateUser, FindOrLinkGoogleUser
<1>3. CASE \E ticker, other \in AccountValues : PutSettings(ticker, other, end)
  <2>1. PICK ticker \in AccountValues, other \in AccountValues : PutSettings(ticker, other, end)
    BY <1>3
  <2>2. TickerOf(ticker, ticker) # "none"
    BY AccountAssumption DEF TickerOf
  <2> QED
    BY <1>1, <2>1, <2>2, SettingsKeep DEF PutSettings
<1>4. CASE \E c \in Clients, other \in AccountValues : PutWithoutTicker(c, other, end)
  <2>1. PICK c \in Clients, other \in AccountValues : PutWithoutTicker(c, other, end)
    BY <1>4
  <2>2. TickerOf("none", reqs[c].seen) # "none"
    BY <2>1 DEF TickerOf, PutWithoutTicker, AccountInv, TickersAreKnown
  <2> QED
    BY <1>1, <2>1, <2>2, SettingsKeep DEF PutWithoutTicker
<1>5. CASE \E c \in Clients, status \in FeedbackStates \cup {"none"} : ReplaceFeedback(c, status, end)
  BY <1>1, <1>5, FeedbackKeeps DEF ReplaceFeedback
<1>6. CASE \E i \in Feedbacks : AddFeedback(i, end) \/ DeleteFeedback(i, end)
  BY <1>1, <1>6, FeedbackKeeps DEF AddFeedback, DeleteFeedback
<1> QED
  BY <1>2, <1>3, <1>4, <1>5, <1>6

(***************************************************************************)
(* What the user was told of the account, the settings and the feedback is *)
(* what there is (auth/store.go, auth/settings.go, feedback/store.go), for *)
(* any number of clients, of items and of writes that fail or lose their   *)
(* answer.                                                                 *)
(***************************************************************************)
THEOREM AccountsAreAsTold == AccountSpec => []AccountsStand
<1>1. AccountInit => AccountInv
  <2> SUFFICES ASSUME AccountInit PROVE AccountInv
    OBVIOUS
  <2>1. AccountTypeOK
    BY DEF AccountInit, AccountTypeOK
  <2>2. TickersAreKnown /\ SettingsAreHeld
    BY DEF AccountInit, TickersAreKnown, SettingsAreHeld, AtRest
  <2>3. AccountsStand
    BY DEF AccountInit, AccountsStand, ReadSettings, DefaultSettings
  <2> QED
    BY <2>1, <2>2, <2>3 DEF AccountInv
<1>2. AccountInv /\ [AccountNext]_accountVars => AccountInv'
  BY AccountRestKeeps, AccountRequestKeeps DEF AccountNext
<1>3. AccountInv => AccountsStand
  BY DEF AccountInv
<1> QED
  BY <1>1, <1>2, <1>3, PTL DEF AccountSpec

-----------------------------------------------------------------------------
(***************************************************************************)
(* Evidence and its links (EvidenceStore).                                 *)
(***************************************************************************)
\* Each document is a table; a record that was saved has a note.
EvidenceIsTyped ==
    /\ recordsDoc = [e \in Records |-> recordsDoc[e]]
    /\ linksDoc = [l \in Cited \X Records |-> linksDoc[l]]
    /\ \A e \in Records : recordsDoc[e] = NoRecord \/ "note" \in DOMAIN recordsDoc[e]

\* Memory is the document, or a load has failed and nothing is written until the next start.
EvidenceIsHeld ==
    \/ latched # {}
    \/ recordsMem \in {Unread, recordsDoc} /\ linksMem \in {Unread, linksDoc}

EvidenceInv ==
    /\ onRows \in BOOLEAN /\ excused \in BOOLEAN
    /\ ~excused => EvidenceIsTyped /\ EvidenceIsHeld
    /\ EvidenceIsKept

\* What loading a document shows, unless it fails: then a row latches and a file is excused.
LEMMA LoadShows ==
    ASSUME NEW held, NEW doc, NEW empty, NEW name, NEW load \in Loads(held, doc, empty, name)
    PROVE  /\ load.faults \in {0, 1} /\ load.latch \in {{}, {name}}
           /\ held # Unread => load.shown = held /\ load.latch = {}
           /\ held = Unread =>
                 \/ load.shown = doc
                 \/ load.faults = 1 /\ load.shown = empty /\ (onRows => load.latch = {name})
BY DEF Loads

\* A record that was saved, or noted, is not the absence of one.
LEMMA SavedIsThere ==
    ASSUME NEW source
    PROVE  /\ [source |-> source, note |-> FALSE] # NoRecord
           /\ "note" \in DOMAIN [source |-> source, note |-> FALSE]
           /\ \A r : "note" \in DOMAIN r => /\ r # NoRecord
                                            /\ "note" \in DOMAIN [r EXCEPT !.note = TRUE]
<1>1. "note" \notin DOMAIN NoRecord
  BY DEF NoRecord
<1>2. \A r : DOMAIN [r EXCEPT !.note = TRUE] = DOMAIN r
  OBVIOUS
<1>3. "note" \in DOMAIN [source |-> source, note |-> FALSE]
  OBVIOUS
<1> QED
  BY <1>1, <1>2, <1>3

\* An operation that no file failed under, and that may write, shows both documents.
LEMMA OperateBasis ==
    ASSUME EvidenceInv, NEW c, NEW rec \in RecordLoads, NEW lnk \in LinkLoads, NEW write, NEW end,
           NEW after, Operate(c, rec, lnk, write, end, after), ~excused',
           end = "unwritable" <=> ~Writable(latched \cup rec.latch \cup lnk.latch)
    PROVE  /\ ~excused /\ EvidenceIsTyped /\ EvidenceIsHeld
           /\ promised \subseteq Saved(recordsDoc)
           /\ \A l \in Cited \X Records :
                 linksDoc[l] = "live" => l[2] \in Saved(recordsDoc) \/ l \in relinked
           /\ ~onRows => end \notin {"refused", "half", "torn"}
           /\ end # "unwritable" => rec.shown = recordsDoc /\ lnk.shown = linksDoc
<1>1. excused' = (excused \/ (~onRows /\ (rec.faults + lnk.faults > 0
                                         \/ end \in {"refused", "half", "torn"})))
  BY DEF Operate
<1>2. /\ rec.faults \in {0, 1} /\ lnk.faults \in {0, 1}
      /\ recordsMem # Unread => rec.shown = recordsMem
      /\ recordsMem = Unread => rec.shown = recordsDoc \/ (rec.faults = 1 /\ (onRows => rec.latch # {}))
      /\ linksMem # Unread => lnk.shown = linksMem
      /\ linksMem = Unread => lnk.shown = linksDoc \/ (lnk.faults = 1 /\ (onRows => lnk.latch # {}))
  BY LoadShows DEF RecordLoads, LinkLoads
<1>3. ~excused /\ (~onRows => ~(rec.faults + lnk.faults > 0) /\ end \notin {"refused", "half", "torn"})
  BY <1>1
<1>4. /\ onRows \in BOOLEAN /\ EvidenceIsTyped /\ EvidenceIsHeld
      /\ ~onRows => rec.faults = 0 /\ lnk.faults = 0
  BY <1>2, <1>3 DEF EvidenceInv
<1>5. ASSUME end # "unwritable" PROVE rec.shown = recordsDoc /\ lnk.shown = linksDoc
  <2>1. latched = {} /\ rec.latch = {} /\ lnk.latch = {}
    BY <1>5 DEF Writable
  <2> QED
    BY <1>2, <1>4, <2>1 DEF EvidenceIsHeld
<1>6. /\ promised \subseteq Saved(recordsDoc)
      /\ \A l \in Cited \X Records :
            linksDoc[l] = "live" => l[2] \in Saved(recordsDoc) \/ l \in relinked
  BY <1>3 DEF EvidenceInv, EvidenceIsKept
<1> QED
  BY <1>3, <1>4, <1>5, <1>6

\* Then what it writes is what memory holds next.
LEMMA OperateHolds ==
    ASSUME EvidenceInv, NEW c, NEW rec \in RecordLoads, NEW lnk \in LinkLoads, NEW write, NEW end,
           NEW after, Operate(c, rec, lnk, write, end, after), ~excused',
           end \in {"done", "none", "unwritable", "refused", "lost", "half", "torn"},
           end = "unwritable" <=> ~Writable(latched \cup rec.latch \cup lnk.latch),
           end \in {"none", "unwritable"} => DOMAIN write = {},
           end \in {"half", "torn"} => ~onRows,
           "links" \in DOMAIN write => write.links = [l \in Cited \X Records |-> write.links[l]],
           "records" \in DOMAIN write =>
              /\ write.records = [e \in Records |-> write.records[e]]
              /\ \A e \in Records : write.records[e] = NoRecord \/ "note" \in DOMAIN write.records[e]
    PROVE  /\ recordsDoc' = IF "records" \in DOMAIN write /\ end \in {"done", "lost"}
                            THEN write.records ELSE recordsDoc
           /\ linksDoc' = IF "links" \in DOMAIN write /\ end \in {"done", "lost"}
                          THEN write.links ELSE linksDoc
           /\ EvidenceIsTyped' /\ EvidenceIsHeld'
<1>0. /\ EvidenceIsTyped /\ EvidenceIsHeld
      /\ ~onRows => end \notin {"refused", "half", "torn"}
      /\ end # "unwritable" => rec.shown = recordsDoc /\ lnk.shown = linksDoc
  BY OperateBasis
<1>2. /\ EvidenceIsTyped /\ EvidenceIsHeld
      /\ end \notin {"half", "torn"} /\ (~onRows => end # "refused")
      /\ end # "unwritable" => rec.shown = recordsDoc /\ lnk.shown = linksDoc
  BY <1>0
<1> DEFINE wroteRecords == "records" \in DOMAIN write
           wroteLinks == "links" \in DOMAIN write
           nextRecords == IF wroteRecords THEN write.records ELSE rec.shown
           nextLinks == IF wroteLinks THEN write.links ELSE lnk.shown
<1>1. /\ recordsDoc' = IF wroteRecords /\ Durable(end) THEN nextRecords ELSE recordsDoc
      /\ linksDoc' = IF wroteLinks /\ Durable(end) /\ end \notin {"half", "torn"} THEN nextLinks
                     ELSE linksDoc
      /\ recordsMem' = InMemory(end, wroteRecords, nextRecords, rec.shown)
      /\ linksMem' = InMemory(end, wroteLinks, nextLinks, lnk.shown)
      /\ latched' = IF Stopped(end) THEN {} ELSE latched \cup rec.latch \cup lnk.latch
  BY DEF Operate
<1>3. /\ recordsDoc' = IF wroteRecords /\ end \in {"done", "lost"} THEN write.records ELSE recordsDoc
      /\ linksDoc' = IF wroteLinks /\ end \in {"done", "lost"} THEN write.links ELSE linksDoc
  BY <1>1, <1>2 DEF Durable
<1>4. EvidenceIsTyped'
  BY <1>2, <1>3 DEF EvidenceIsTyped
<1>5. EvidenceIsHeld'
  <2>1. CASE end = "unwritable"
    <3>1. latched' # {}
      BY <1>1, <2>1 DEF Writable, Stopped
    <3> QED
      BY <3>1 DEF EvidenceIsHeld
  <2>2. CASE end # "unwritable"
    <3>1. recordsMem' \in {Unread, recordsDoc'}
      <4>1. CASE wroteRecords
        BY <1>1, <1>2, <1>3, <2>2, <4>1 DEF InMemory, Stopped
      <4>2. CASE ~wroteRecords
        BY <1>1, <1>2, <1>3, <2>2, <4>2 DEF InMemory
      <4> QED
        BY <4>1, <4>2
    <3>2. linksMem' \in {Unread, linksDoc'}
      <4>1. CASE wroteLinks
        BY <1>1, <1>2, <1>3, <2>2, <4>1 DEF InMemory, Stopped
      <4>2. CASE ~wroteLinks
        BY <1>1, <1>2, <1>3, <2>2, <4>2 DEF InMemory
      <4> QED
        BY <4>1, <4>2
    <3> QED
      BY <3>1, <3>2 DEF EvidenceIsHeld
  <2> QED
    BY <2>1, <2>2
<1> QED
  BY <1>3, <1>4, <1>5

\* Whatever is excused once stays so: only what no file failed under has to be shown.
LEMMA EvidenceExcused ==
    ASSUME excused' \in BOOLEAN, onRows' \in BOOLEAN,
           ~excused' => EvidenceIsTyped' /\ EvidenceIsHeld' /\ EvidenceIsKept'
    PROVE  EvidenceInv'
BY DEF EvidenceInv, EvidenceIsKept

\* What an operation does to the two flags.
LEMMA OperateFlags ==
    ASSUME EvidenceInv, NEW c, NEW rec, NEW lnk, NEW write, NEW end, NEW after,
           Operate(c, rec, lnk, write, end, after)
    PROVE  excused' \in BOOLEAN /\ onRows' \in BOOLEAN
<1>1. /\ excused' = (excused \/ (~onRows /\ (rec.faults + lnk.faults > 0
                                             \/ end \in {"refused", "half", "torn"})))
      /\ onRows' = onRows
  BY DEF Operate
<1> QED
  BY <1>1 DEF EvidenceInv

\* A save adds a record, or answers with the one that has its source.
LEMMA SaveEvidenceKeeps ==
    ASSUME EvidenceInv, NEW c \in Tabs, SaveEvidence(c)
    PROVE  EvidenceInv'
<1>1. PICK rec \in RecordLoads, lnk \in LinkLoads, e \in Records, source \in Sources \cup {"own"},
           thesis \in Cited \cup {"none"} :
         LET same == IF source = "own" THEN {} ELSE SameSource(rec.shown, source)
             answer == IF same = {} THEN e ELSE CHOOSE d \in same : TRUE
             after == IF thesis = "none" THEN NoRequest
                      ELSE [step |-> "link", link |-> <<thesis, answer>>, saving |-> TRUE]
             next == [rec.shown EXCEPT ![e] = [source |-> source, note |-> FALSE]] IN
         /\ requests[c] = NoRequest
         /\ e \notin Saved(recordsDoc) \cup Saved(rec.shown)
         /\ \A l \in Cited \X {e} : linksDoc[l] = "none"
         /\ e \notin promised
         /\ \E end \in IF ~Writable(latched \cup rec.latch \cup lnk.latch) THEN {"unwritable"}
                       ELSE IF same # {} THEN {"none"}
                       ELSE WriteEnds(rec.faults + lnk.faults, FALSE) :
               /\ Operate(c, rec, lnk,
                          IF end \in {"none", "unwritable"} THEN Nowhere ELSE [records |-> next],
                          end, after)
               /\ promised' = IF end \in {"done", "none"} /\ thesis = "none"
                              THEN promised \cup {answer} ELSE promised
         /\ UNCHANGED relinked
  BY DEF SaveEvidence
<1> DEFINE same == IF source = "own" THEN {} ELSE SameSource(rec.shown, source)
           answer == IF same = {} THEN e ELSE CHOOSE d \in same : TRUE
           after == IF thesis = "none" THEN NoRequest
                    ELSE [step |-> "link", link |-> <<thesis, answer>>, saving |-> TRUE]
           record == [source |-> source, note |-> FALSE]
           next == [rec.shown EXCEPT ![e] = record]
           write(end) == IF end \in {"none", "unwritable"} THEN Nowhere ELSE [records |-> next]
<1>2. PICK end \in {"done", "none", "unwritable", "refused", "lost"} :
         /\ end = "unwritable" <=> ~Writable(latched \cup rec.latch \cup lnk.latch)
         /\ end = "none" => same # {}
         /\ end \in {"done", "refused", "lost"} => same = {}
         /\ Operate(c, rec, lnk, write(end), end, after)
         /\ promised' = IF end \in {"done", "none"} /\ thesis = "none"
                        THEN promised \cup {answer} ELSE promised
  BY <1>1 DEF WriteEnds
<1>3. same # {} => answer \in Saved(rec.shown)
  BY DEF SameSource
<1>4. same = {} => answer = e
  OBVIOUS
<1>5. record # NoRecord /\ "note" \in DOMAIN record
  BY SavedIsThere
<1>6. DOMAIN write(end) = IF end \in {"none", "unwritable"} THEN {} ELSE {"records"}
  BY DEF Nowhere
<1>a. end \notin {"none", "unwritable"} => write(end).records = next
  OBVIOUS
<1> HIDE DEF same, answer, after, record, write
<1>7. ASSUME ~excused'
      PROVE  EvidenceIsTyped' /\ EvidenceIsHeld' /\ EvidenceIsKept'
  <2>1. /\ EvidenceIsTyped /\ promised \subseteq Saved(recordsDoc)
        /\ \A l \in Cited \X Records :
              linksDoc[l] = "live" => l[2] \in Saved(recordsDoc) \/ l \in relinked
        /\ end # "unwritable" => rec.shown = recordsDoc
    BY <1>2, <1>7, OperateBasis
  <2>2. end # "unwritable" =>
           /\ next = [d \in Records |-> next[d]]
           /\ \A d \in Records : next[d] = IF d = e THEN record ELSE recordsDoc[d]
    BY <2>1 DEF EvidenceIsTyped
  <2>3. end # "unwritable" => \A d \in Records : next[d] = NoRecord \/ "note" \in DOMAIN next[d]
    BY <1>5, <2>1, <2>2 DEF EvidenceIsTyped
  <2> HIDE DEF next
  <2>4. /\ recordsDoc' = IF end \in {"done", "lost"} THEN next ELSE recordsDoc
        /\ linksDoc' = linksDoc
        /\ EvidenceIsTyped' /\ EvidenceIsHeld'
    BY <1>2, <1>6, <1>a, <1>7, <2>2, <2>3, OperateHolds
  <2>5. Saved(recordsDoc) \subseteq Saved(recordsDoc')
    BY <1>5, <2>1, <2>2, <2>4 DEF Saved
  <2>6. promised' \subseteq Saved(recordsDoc')
    <3>1. end = "none" => answer \in Saved(recordsDoc')
      BY <1>2, <1>3, <2>1, <2>5
    <3>2. end = "done" => answer \in Saved(recordsDoc')
      BY <1>2, <1>4, <1>5, <2>2, <2>4 DEF Saved
    <3> QED
      BY <1>2, <2>1, <2>5, <3>1, <3>2
  <2>7. relinked' = relinked
    BY <1>1
  <2> QED
    BY <2>1, <2>4, <2>5, <2>6, <2>7 DEF EvidenceIsKept
<1>8. excused' \in BOOLEAN /\ onRows' \in BOOLEAN
  BY <1>2, OperateFlags
<1> QED
  BY <1>7, <1>8, EvidenceExcused

\* A write of a link either finds its record or is noted as one that did not.
LEMMA WriteLinkKeeps ==
    ASSUME EvidenceInv, NEW c, NEW link, NEW value, NEW saving, WriteLink(c, link, value, saving)
    PROVE  EvidenceInv'
<1>1. PICK rec \in RecordLoads, lnk \in LinkLoads :
        \E end \in IF Writable(latched \cup rec.latch \cup lnk.latch)
                   THEN WriteEnds(rec.faults + lnk.faults, FALSE) ELSE {"unwritable"} :
          /\ Operate(c, rec, lnk,
                     IF end = "unwritable" THEN Nowhere
                     ELSE [links |-> [lnk.shown EXCEPT ![link] = value]],
                     end, NoRequest)
          /\ relinked' = IF value = "live" /\ Durable(end) /\ link[2] \notin Saved(rec.shown)
                         THEN relinked \cup {link} ELSE relinked
          /\ promised' = IF saving /\ end = "done" /\ link[2] \in Saved(rec.shown)
                         THEN promised \cup {link[2]} ELSE promised
  BY DEF WriteLink
<1> DEFINE next == [lnk.shown EXCEPT ![link] = value]
           write(end) == IF end = "unwritable" THEN Nowhere ELSE [links |-> next]
<1>2. PICK end \in {"done", "unwritable", "refused", "lost"} :
         /\ end = "unwritable" <=> ~Writable(latched \cup rec.latch \cup lnk.latch)
         /\ Operate(c, rec, lnk, write(end), end, NoRequest)
         /\ relinked' = IF value = "live" /\ Durable(end) /\ link[2] \notin Saved(rec.shown)
                        THEN relinked \cup {link} ELSE relinked
         /\ promised' = IF saving /\ end = "done" /\ link[2] \in Saved(rec.shown)
                        THEN promised \cup {link[2]} ELSE promised
  BY <1>1 DEF WriteEnds
<1>3. DOMAIN write(end) = IF end = "unwritable" THEN {} ELSE {"links"}
  BY DEF Nowhere
<1>4. end # "unwritable" => write(end).links = next
  OBVIOUS
<1> HIDE DEF write
<1>5. ASSUME ~excused'
      PROVE  EvidenceIsTyped' /\ EvidenceIsHeld' /\ EvidenceIsKept'
  <2>1. /\ EvidenceIsTyped /\ promised \subseteq Saved(recordsDoc)
        /\ \A l \in Cited \X Records :
              linksDoc[l] = "live" => l[2] \in Saved(recordsDoc) \/ l \in relinked
        /\ end # "unwritable" => rec.shown = recordsDoc /\ lnk.shown = linksDoc
    BY <1>2, <1>5, OperateBasis
  <2>2. end # "unwritable" =>
           /\ next = [l \in Cited \X Records |-> next[l]]
           /\ \A l \in Cited \X Records : next[l] = IF l = link THEN value ELSE linksDoc[l]
    BY <2>1 DEF EvidenceIsTyped
  <2> HIDE DEF next
  <2>3. /\ recordsDoc' = recordsDoc
        /\ linksDoc' = IF end \in {"done", "lost"} THEN next ELSE linksDoc
        /\ EvidenceIsTyped' /\ EvidenceIsHeld'
    BY <1>2, <1>3, <1>4, <1>5, <2>2, OperateHolds
  <2>4. promised' \subseteq Saved(recordsDoc')
    BY <1>2, <2>1, <2>3
  <2>5. ASSUME NEW l \in Cited \X Records, linksDoc'[l] = "live"
        PROVE  l[2] \in Saved(recordsDoc') \/ l \in relinked'
    <3>1. CASE end \in {"done", "lost"} /\ l = link
      BY <1>2, <2>1, <2>2, <2>3, <2>5, <3>1 DEF Durable
    <3>2. CASE ~(end \in {"done", "lost"} /\ l = link)
      BY <1>2, <2>1, <2>2, <2>3, <2>5, <3>2
    <3> QED
      BY <3>1, <3>2
  <2> QED
    BY <2>3, <2>4, <2>5 DEF EvidenceIsKept
<1>6. excused' \in BOOLEAN /\ onRows' \in BOOLEAN
  BY <1>2, OperateFlags
<1> QED
  BY <1>5, <1>6, EvidenceExcused

\* A note is written on a record that is there.
LEMMA NoteEvidenceKeeps ==
    ASSUME EvidenceInv, NEW c \in Tabs, NoteEvidence(c)
    PROVE  EvidenceInv'
<1>1. PICK rec \in RecordLoads, lnk \in LinkLoads :
        \E e \in Saved(rec.shown) :
          \E end \in IF Writable(latched \cup rec.latch \cup lnk.latch)
                     THEN WriteEnds(rec.faults + lnk.faults, FALSE) ELSE {"unwritable"} :
            /\ Operate(c, rec, lnk,
                       IF end = "unwritable" THEN Nowhere
                       ELSE [records |-> [rec.shown EXCEPT ![e].note = TRUE]],
                       end, NoRequest)
            /\ UNCHANGED <<promised, relinked>>
  BY DEF NoteEvidence
<1>2. PICK e \in Saved(rec.shown) :
          \E end \in IF Writable(latched \cup rec.latch \cup lnk.latch)
                     THEN WriteEnds(rec.faults + lnk.faults, FALSE) ELSE {"unwritable"} :
            /\ Operate(c, rec, lnk,
                       IF end = "unwritable" THEN Nowhere
                       ELSE [records |-> [rec.shown EXCEPT ![e].note = TRUE]],
                       end, NoRequest)
            /\ UNCHANGED <<promised, relinked>>
  BY <1>1
<1> DEFINE noted == [rec.shown[e] EXCEPT !.note = TRUE]
           next == [rec.shown EXCEPT ![e] = noted]
           write(end) == IF end = "unwritable" THEN Nowhere ELSE [records |-> next]
<1>3. PICK end \in {"done", "unwritable", "refused", "lost"} :
         /\ end = "unwritable" <=> ~Writable(latched \cup rec.latch \cup lnk.latch)
         /\ Operate(c, rec, lnk, write(end), end, NoRequest)
         /\ UNCHANGED <<promised, relinked>>
  BY <1>2 DEF WriteEnds
<1>4. /\ DOMAIN write(end) = IF end = "unwritable" THEN {} ELSE {"records"}
      /\ end # "unwritable" => write(end).records = next
  BY DEF Nowhere
<1> HIDE DEF write, noted
<1>5. ASSUME ~excused'
      PROVE  EvidenceIsTyped' /\ EvidenceIsHeld' /\ EvidenceIsKept'
  <2>1. /\ EvidenceIsTyped /\ promised \subseteq Saved(recordsDoc)
        /\ \A l \in Cited \X Records :
              linksDoc[l] = "live" => l[2] \in Saved(recordsDoc) \/ l \in relinked
        /\ end # "unwritable" => rec.shown = recordsDoc /\ lnk.shown = linksDoc
    BY <1>3, <1>5, OperateBasis
  <2>2. end # "unwritable" => noted # NoRecord /\ "note" \in DOMAIN noted
    BY <1>2, <2>1, SavedIsThere DEF Saved, EvidenceIsTyped, noted
  <2>3. end # "unwritable" =>
           /\ next = [d \in Records |-> next[d]]
           /\ \A d \in Records : next[d] = IF d = e THEN noted ELSE recordsDoc[d]
    BY <2>1 DEF EvidenceIsTyped
  <2>4. end # "unwritable" => \A d \in Records : next[d] = NoRecord \/ "note" \in DOMAIN next[d]
    BY <2>1, <2>2, <2>3 DEF EvidenceIsTyped
  <2> HIDE DEF next
  <2>5. /\ recordsDoc' = IF end \in {"done", "lost"} THEN next ELSE recordsDoc
        /\ linksDoc' = linksDoc
        /\ EvidenceIsTyped' /\ EvidenceIsHeld'
    BY <1>3, <1>4, <1>5, <2>3, <2>4, OperateHolds
  <2>6. Saved(recordsDoc) \subseteq Saved(recordsDoc')
    BY <2>2, <2>3, <2>5 DEF Saved
  <2> QED
    BY <1>3, <2>1, <2>5, <2>6 DEF EvidenceIsKept
<1>6. excused' \in BOOLEAN /\ onRows' \in BOOLEAN
  BY <1>3, OperateFlags
<1> QED
  BY <1>5, <1>6, EvidenceExcused

\* A delete takes a record that no live link names, or the links go with it.
LEMMA DeleteEvidenceKeeps ==
    ASSUME EvidenceInv, NEW c \in Tabs, DeleteEvidence(c)
    PROVE  EvidenceInv'
<1>1. PICK rec \in RecordLoads, lnk \in LinkLoads, force \in BOOLEAN :
        \E e \in Saved(rec.shown) :
          LET nextRecords == [rec.shown EXCEPT ![e] = NoRecord]
              nextLinks == [l \in Cited \X Records |-> IF l[2] = e THEN "none" ELSE lnk.shown[l]] IN
          /\ force \/ Blocking(lnk.shown, e) = {}
          /\ \E end \in IF Writable(latched \cup rec.latch \cup lnk.latch)
                        THEN WriteEnds(rec.faults + lnk.faults, force /\ ~onRows) ELSE {"unwritable"} :
              /\ Operate(c, rec, lnk,
                         IF end = "unwritable" THEN Nowhere
                         ELSE IF (~force /\ (~onRows \/ end = "done")) \/ (end = "refused" /\ ~onRows)
                         THEN [records |-> nextRecords]
                         ELSE [records |-> nextRecords, links |-> IF force THEN nextLinks ELSE lnk.shown],
                         end, NoRequest)
              /\ promised' = IF end = "unwritable" THEN promised ELSE promised \ {e}
          /\ UNCHANGED relinked
  BY ZenonT(30) DEF DeleteEvidence
<1>2. PICK e \in Saved(rec.shown) :
          LET nextRecords == [rec.shown EXCEPT ![e] = NoRecord]
              nextLinks == [l \in Cited \X Records |-> IF l[2] = e THEN "none" ELSE lnk.shown[l]] IN
          /\ force \/ Blocking(lnk.shown, e) = {}
          /\ \E end \in IF Writable(latched \cup rec.latch \cup lnk.latch)
                        THEN WriteEnds(rec.faults + lnk.faults, force /\ ~onRows) ELSE {"unwritable"} :
              /\ Operate(c, rec, lnk,
                         IF end = "unwritable" THEN Nowhere
                         ELSE IF (~force /\ (~onRows \/ end = "done")) \/ (end = "refused" /\ ~onRows)
                         THEN [records |-> nextRecords]
                         ELSE [records |-> nextRecords, links |-> IF force THEN nextLinks ELSE lnk.shown],
                         end, NoRequest)
              /\ promised' = IF end = "unwritable" THEN promised ELSE promised \ {e}
          /\ UNCHANGED relinked
  BY <1>1
<1> DEFINE nextRecords == [rec.shown EXCEPT ![e] = NoRecord]
           cut == [l \in Cited \X Records |-> IF l[2] = e THEN "none" ELSE lnk.shown[l]]
           nextLinks == IF force THEN cut ELSE lnk.shown
           single(end) == (~force /\ (~onRows \/ end = "done")) \/ (end = "refused" /\ ~onRows)
           write(end) == IF end = "unwritable" THEN Nowhere
                         ELSE IF single(end) THEN [records |-> nextRecords]
                         ELSE [records |-> nextRecords, links |-> nextLinks]
<1>3. PICK end \in {"done", "unwritable", "refused", "lost", "half", "torn"} :
         /\ end = "unwritable" <=> ~Writable(latched \cup rec.latch \cup lnk.latch)
         /\ end \in {"half", "torn"} => ~onRows
         /\ Operate(c, rec, lnk, write(end), end, NoRequest)
         /\ promised' = IF end = "unwritable" THEN promised ELSE promised \ {e}
  BY <1>2 DEF WriteEnds
<1>4. /\ DOMAIN write(end) = IF end = "unwritable" THEN {}
                            ELSE IF single(end) THEN {"records"} ELSE {"records", "links"}
      /\ end # "unwritable" => write(end).records = nextRecords
      /\ end # "unwritable" /\ ~single(end) => write(end).links = nextLinks
  BY DEF Nowhere
<1>5. force \/ Blocking(lnk.shown, e) = {}
  BY <1>2
<1>6. relinked' = relinked
  BY <1>2
<1>7. end \in {"done", "lost"} /\ single(end) => ~force
  OBVIOUS
<1> HIDE DEF write, single
<1>8. ASSUME ~excused'
      PROVE  EvidenceIsTyped' /\ EvidenceIsHeld' /\ EvidenceIsKept'
  <2>1. /\ EvidenceIsTyped /\ promised \subseteq Saved(recordsDoc)
        /\ \A l \in Cited \X Records :
              linksDoc[l] = "live" => l[2] \in Saved(recordsDoc) \/ l \in relinked
        /\ end # "unwritable" => rec.shown = recordsDoc /\ lnk.shown = linksDoc
    BY <1>3, <1>8, OperateBasis
  <2>2. end # "unwritable" =>
           /\ nextRecords = [d \in Records |-> nextRecords[d]]
           /\ \A d \in Records : nextRecords[d] = IF d = e THEN NoRecord ELSE recordsDoc[d]
    BY <2>1 DEF EvidenceIsTyped
  <2>3. end # "unwritable" =>
           \A d \in Records : nextRecords[d] = NoRecord \/ "note" \in DOMAIN nextRecords[d]
    BY <2>1, <2>2 DEF EvidenceIsTyped
  <2>4. end # "unwritable" =>
           /\ nextLinks = [l \in Cited \X Records |-> nextLinks[l]]
           /\ \A l \in Cited \X Records :
                 nextLinks[l] \in {"none", linksDoc[l]} /\ (force /\ l[2] = e => nextLinks[l] = "none")
    <3>1. CASE force
      BY <2>1, <3>1 DEF EvidenceIsTyped
    <3>2. CASE ~force
      BY <2>1, <3>2 DEF EvidenceIsTyped
    <3> QED
      BY <3>1, <3>2
  <2> HIDE DEF nextRecords, nextLinks, cut
  <2>5. /\ recordsDoc' = IF end \in {"done", "lost"} THEN nextRecords ELSE recordsDoc
        /\ linksDoc' = IF end \in {"done", "lost"} /\ ~single(end) THEN nextLinks ELSE linksDoc
        /\ EvidenceIsTyped' /\ EvidenceIsHeld'
    BY ZenonT(30), <1>3, <1>4, <1>8, <2>2, <2>3, <2>4, OperateHolds
  <2>6. Saved(recordsDoc) \ {e} \subseteq Saved(recordsDoc')
    BY <2>2, <2>5 DEF Saved
  <2>7. end \notin {"done", "lost"} => recordsDoc' = recordsDoc /\ linksDoc' = linksDoc
    BY <2>5
  <2>8. promised' \subseteq Saved(recordsDoc')
    BY <1>3, <2>1, <2>6, <2>7
  <2>9. ASSUME NEW l \in Cited \X Records, linksDoc'[l] = "live"
        PROVE  l[2] \in Saved(recordsDoc') \/ l \in relinked'
    <3>1. CASE end \notin {"done", "lost"}
      BY <1>6, <2>1, <2>7, <2>9, <3>1
    <3>2. CASE end \in {"done", "lost"}
      <4>1. linksDoc[l] = "live"
        <5>1. CASE single(end)
          BY <2>5, <2>9, <5>1
        <5>2. CASE ~single(end)
          <6>1. nextLinks[l] = "live" /\ end # "unwritable"
            BY <2>5, <2>9, <3>2, <5>2
          <6>2. nextLinks[l] \in {"none", linksDoc[l]}
            BY <2>4, <6>1
          <6> QED
            BY <6>1, <6>2
        <5> QED
          BY <5>1, <5>2
      <4>2. l[2] # e \/ l \in relinked
        <5>1. CASE force
          <6>1. nextLinks[l] = "live" /\ end # "unwritable"
            BY <1>7, <2>5, <2>9, <3>2, <5>1
          <6>2. l[2] = e => nextLinks[l] = "none"
            BY <2>4, <5>1, <6>1
          <6> QED
            BY <6>1, <6>2
        <5>2. CASE ~force
          <6>1. l \notin Blocking(lnk.shown, e) /\ lnk.shown[l] = "live"
            BY <1>5, <2>1, <3>2, <4>1, <5>2
          <6>2. l[2] = e => l \in Cited \X {e}
            OBVIOUS
          <6> QED
            BY <6>1, <6>2 DEF Blocking
        <5> QED
          BY <5>1, <5>2
      <4> QED
        BY <1>6, <2>1, <2>6, <4>1, <4>2
    <3> QED
      BY <3>1, <3>2
  <2> QED
    BY <2>5, <2>8, <2>9 DEF EvidenceIsKept
<1>9. excused' \in BOOLEAN /\ onRows' \in BOOLEAN
  BY <1>3, OperateFlags
<1> QED
  BY <1>8, <1>9, EvidenceExcused

\* A listing, the checks before a link and a start write nothing.
LEMMA EvidenceRestKeeps ==
    ASSUME EvidenceInv,
           ListEvidence \/ RestartEvidence \/ (\E c \in Tabs : CheckLink(c)) \/ UNCHANGED evidenceVars
    PROVE  EvidenceInv'
<1>1. UNCHANGED <<onRows, recordsDoc, linksDoc, promised, relinked>>
  BY DEF ListEvidence, RestartEvidence, CheckLink, evidenceVars
<1>2. onRows \in BOOLEAN /\ excused \in BOOLEAN /\ EvidenceIsKept
  BY DEF EvidenceInv
<1>3. CASE ListEvidence
  <2>1. PICK rec \in RecordLoads, lnk \in LinkLoads :
           /\ recordsMem' = rec.shown /\ linksMem' = lnk.shown
           /\ latched' = latched \cup rec.latch \cup lnk.latch
           /\ excused' = (excused \/ (~onRows /\ rec.faults + lnk.faults > 0))
    BY <1>3 DEF ListEvidence
  <2>2. /\ rec.faults \in {0, 1} /\ lnk.faults \in {0, 1}
        /\ recordsMem # Unread => rec.shown = recordsMem
        /\ recordsMem = Unread => rec.shown = recordsDoc \/ (rec.faults = 1 /\ (onRows => rec.latch # {}))
        /\ linksMem # Unread => lnk.shown = linksMem
        /\ linksMem = Unread => lnk.shown = linksDoc \/ (lnk.faults = 1 /\ (onRows => lnk.latch # {}))
    BY LoadShows DEF RecordLoads, LinkLoads
  <2>3. ASSUME ~excused'
        PROVE  EvidenceIsTyped' /\ EvidenceIsHeld' /\ EvidenceIsKept'
    <3>1. ~excused /\ (~onRows => ~(rec.faults + lnk.faults > 0))
      BY <2>1, <2>3
    <3>2. EvidenceIsTyped /\ EvidenceIsHeld /\ (~onRows => rec.faults = 0 /\ lnk.faults = 0)
      BY <2>2, <3>1 DEF EvidenceInv
    <3>3. EvidenceIsHeld'
      BY <1>1, <2>1, <2>2, <3>2 DEF EvidenceIsHeld
    <3> QED
      BY <1>1, <1>2, <3>1, <3>2, <3>3 DEF EvidenceIsTyped, EvidenceIsKept
  <2>4. excused' \in BOOLEAN /\ onRows' \in BOOLEAN
    BY <1>1, <1>2, <2>1
  <2> QED
    BY <2>3, <2>4, EvidenceExcused
<1>4. CASE RestartEvidence
  BY <1>1, <1>2, <1>4 DEF RestartEvidence, EvidenceInv, EvidenceIsTyped, EvidenceIsHeld, EvidenceIsKept
<1>5. CASE \E c \in Tabs : CheckLink(c)
  <2>1. PICK c \in Tabs, rec \in RecordLoads : Saved(rec.shown) # {} /\ recordsMem' = rec.shown
    BY <1>5 DEF CheckLink
  <2>2. rec.shown # NoRecords
    BY <2>1 DEF Saved, NoRecords
  <2>3. recordsMem' \in {recordsMem, recordsDoc}
    BY <2>1, <2>2, LoadShows DEF RecordLoads
  <2>4. UNCHANGED <<latched, linksMem, excused>>
    BY <1>5 DEF CheckLink
  <2> QED
    BY <1>1, <1>2, <2>3, <2>4 DEF EvidenceInv, EvidenceIsTyped, EvidenceIsHeld, EvidenceIsKept
<1>6. CASE UNCHANGED evidenceVars
  BY <1>2, <1>6 DEF evidenceVars, EvidenceInv, EvidenceIsTyped, EvidenceIsHeld, EvidenceIsKept
<1> QED
  BY <1>3, <1>4, <1>5, <1>6

(***************************************************************************)
(* Evidence whose save was acknowledged is durable until somebody deletes  *)
(* it, and no record is deleted from under a live link                     *)
(* (evidence_store.go), for any number of records, theses and requests, on *)
(* rows whatever fails, and on files as long as none does.                 *)
(***************************************************************************)
THEOREM EvidenceStaysSaved == EvidenceSpec => []EvidenceIsKept
<1>1. EvidenceInit => EvidenceInv
  <2> SUFFICES ASSUME EvidenceInit PROVE EvidenceInv
    OBVIOUS
  <2>1. EvidenceIsTyped
    BY DEF EvidenceInit, EvidenceIsTyped, NoRecords, NoLinks
  <2>2. EvidenceIsHeld
    BY DEF EvidenceInit, EvidenceIsHeld
  <2>3. EvidenceIsKept
    BY DEF EvidenceInit, EvidenceIsKept, NoLinks
  <2> QED
    BY <2>1, <2>2, <2>3 DEF EvidenceInv, EvidenceInit
<1>2. EvidenceInv /\ [EvidenceNext]_evidenceVars => EvidenceInv'
  <2> SUFFICES ASSUME EvidenceInv, [EvidenceNext]_evidenceVars PROVE EvidenceInv'
    OBVIOUS
  <2>1. CASE \E c \in Tabs : FinishLink(c) \/ EditLink(c)
    BY <2>1, WriteLinkKeeps DEF FinishLink, EditLink
  <2> QED
    BY <2>1, SaveEvidenceKeeps, NoteEvidenceKeeps, DeleteEvidenceKeeps, EvidenceRestKeeps
       DEF EvidenceNext
<1>3. EvidenceInv => EvidenceIsKept
  BY DEF EvidenceInv
<1> QED
  BY <1>1, <1>2, <1>3, PTL DEF EvidenceSpec

-----------------------------------------------------------------------------
(***************************************************************************)
(* Theses (ThesisBook).                                                    *)
(***************************************************************************)
\* Memory is the document as a load normalizes it, unless the user is broken.
MemoryIsLoaded ==
    broken \/ memory = NotLoaded
    \/ /\ memory = [id \in ThesisIds |-> memory[id]]
       /\ \A id \in ThesisIds : memory[id] \in AsLoaded(document[id])

ThesisInv ==
    /\ broken \in BOOLEAN /\ inPostgres \in BOOLEAN
    /\ document = [id \in ThesisIds |-> document[id]]
    /\ believed = [id \in ThesisIds |-> believed[id]]
    /\ MemoryIsLoaded
    /\ NothingIsClobbered

\* Loading twice is loading once.
LEMMA LoadedOnce ==
    ASSUME NEW t, NEW u \in AsLoaded(t), NEW v \in AsLoaded(u)
    PROVE  v \in AsLoaded(t)
<1>1. \A r : Normalized(Normalized(r)) = Normalized(r)
  <2> TAKE r
  <2>1. CASE r.status \in {"closed", Nothing}
    BY <2>1 DEF Normalized
  <2>2. CASE r.status \notin {"closed", Nothing}
    <3> DEFINE n == [r EXCEPT !.reason = FALSE, !.dated = FALSE, !.by = Nothing]
    <3>1. Normalized(r) = n
      BY <2>2 DEF Normalized
    <3>2. n.status = r.status
      OBVIOUS
    <3>3. [n EXCEPT !.reason = FALSE, !.dated = FALSE, !.by = Nothing] = n
      OBVIOUS
    <3> QED
      BY <2>2, <3>1, <3>2, <3>3 DEF Normalized
  <2> QED
    BY <2>1, <2>2
<1>2. Normalized(Absent) = Absent
  BY DEF Normalized, Absent
<1> QED
  BY <1>1, <1>2 DEF AsLoaded

\* A load that does not break the user shows the document.
LEMMA LoadIsDocument ==
    ASSUME ThesisInv, NEW load \in LoadResults
    PROVE  /\ load.broken \in BOOLEAN
           /\ \/ load.broken
              \/ /\ load.book = [id \in ThesisIds |-> load.book[id]]
                 /\ \A id \in ThesisIds : load.book[id] \in AsLoaded(document[id])
           /\ load.faults \in {0, 1}
<1>1. CASE memory # NotLoaded
  <2>1. load = [book |-> memory, broken |-> broken, faults |-> 0]
    BY <1>1 DEF LoadResults
  <2> QED
    BY <1>1, <2>1 DEF ThesisInv, MemoryIsLoaded
<1>2. CASE memory = NotLoaded
  <2>1. \/ load = [book |-> [id \in ThesisIds |-> Normalized(document[id])], broken |-> broken,
                 faults |-> 0]
        \/ load = [book |-> [id \in ThesisIds |-> Absent], broken |-> TRUE, faults |-> 1]
    BY <1>2 DEF LoadResults
  <2>2. \A id \in ThesisIds : Normalized(document[id]) \in AsLoaded(document[id])
    BY DEF AsLoaded, Normalized, Absent
  <2>3. broken \in BOOLEAN
    BY DEF ThesisInv
  <2>4. CASE load = [book |-> [id \in ThesisIds |-> Normalized(document[id])], broken |-> broken,
                     faults |-> 0]
    BY <2>2, <2>3, <2>4
  <2>5. CASE load = [book |-> [id \in ThesisIds |-> Absent], broken |-> TRUE, faults |-> 1]
    BY <2>5
  <2> QED
    BY <2>1, <2>4, <2>5
<1> QED
  BY <1>1, <1>2

\* What a request leaves behind.
LEMMA SettleKeepsMemory ==
    ASSUME ThesisInv, NEW load \in LoadResults, NEW book, NEW outcome,
           outcome \in {"done", "refused", "lost", "unwritable", "read"},
           outcome \in {"done", "refused", "lost"} => ~load.broken,
           book = [id \in ThesisIds |-> book[id]] \/ outcome \notin {"done", "lost"},
           Settle(load, book, outcome), inPostgres' = inPostgres
    PROVE  /\ broken' \in BOOLEAN
           /\ document' = [id \in ThesisIds |-> document'[id]]
           /\ document' = IF outcome \in {"done", "lost"} THEN book ELSE document
           /\ MemoryIsLoaded'
<1>1. /\ memory' = IF outcome = "lost" /\ ~inPostgres THEN NotLoaded
                   ELSE IF outcome = "done" THEN book ELSE load.book
      /\ document' = IF outcome \in {"done", "lost"} THEN book ELSE document
      /\ broken' = IF outcome = "lost" /\ ~inPostgres THEN FALSE
                   ELSE load.broken \/ (inPostgres /\ outcome \in {"refused", "lost"})
  BY DEF Settle
<1>2. /\ load.broken \in BOOLEAN /\ inPostgres \in BOOLEAN
      /\ \/ load.broken
         \/ /\ load.book = [id \in ThesisIds |-> load.book[id]]
            /\ \A id \in ThesisIds : load.book[id] \in AsLoaded(document[id])
  BY LoadIsDocument DEF ThesisInv
<1>3. broken' \in BOOLEAN
  BY <1>1, <1>2
<1>4. document' = [id \in ThesisIds |-> document'[id]]
  BY <1>1 DEF ThesisInv
<1>5. MemoryIsLoaded'
  <2>1. CASE outcome = "done"
    BY <1>1, <2>1 DEF MemoryIsLoaded, AsLoaded
  <2>2. CASE outcome = "lost"
    BY <1>1, <2>2 DEF MemoryIsLoaded
  <2>3. CASE outcome \in {"refused", "unwritable", "read"}
    <3>1. memory' = load.book /\ document' = document /\ (load.broken => broken')
      BY <1>1, <2>3
    <3> QED
      BY <1>2, <3>1 DEF MemoryIsLoaded
  <2> QED
    BY <2>1, <2>2, <2>3
<1> QED
  BY <1>1, <1>3, <1>4, <1>5

\* A change writes the record of one thesis; every other is what its load made of it.
LEMMA ChangeKeeps ==
    ASSUME ThesisInv, NEW id \in ThesisIds, NEW load \in LoadResults, NEW next, Change(id, load, next)
    PROVE  ThesisInv'
<1> DEFINE book == [load.book EXCEPT ![id] = next]
<1>1. PICK outcome \in IF MayPersist(load.broken) THEN WriteResults(load.faults) ELSE {"unwritable"} :
         /\ changes' = changes + 1
         /\ Settle(load, book, outcome)
         /\ believed' = CASE outcome = "done" -> [believed EXCEPT ![id] = {next}]
                          [] outcome = "lost" -> [believed EXCEPT ![id] = @ \cup {next}]
                          [] OTHER -> believed
         /\ lived' = IF \/ outcome \notin {"done", "lost"} \/ next = Absent
                        \/ lived[id] # <<>> /\ Last(lived[id]) = next.status
                     THEN lived ELSE [lived EXCEPT ![id] = Append(@, next.status)]
         /\ UNCHANGED <<inPostgres, thesisStarts>>
  BY DEF Change
<1>2. /\ outcome \in {"done", "refused", "lost", "unwritable"}
      /\ outcome \in {"done", "refused", "lost"} => ~load.broken
  BY DEF MayPersist, WriteResults
<1>3. ~load.broken => /\ load.book = [i \in ThesisIds |-> load.book[i]]
                      /\ \A i \in ThesisIds : load.book[i] \in AsLoaded(document[i])
  BY LoadIsDocument
<1>4. ~load.broken => /\ book = [i \in ThesisIds |-> book[i]]
                      /\ book[id] = next
                      /\ \A i \in ThesisIds \ {id} : book[i] \in AsLoaded(document[i])
  BY <1>3
<1> HIDE DEF book
<1>5. /\ broken' \in BOOLEAN
      /\ document' = [i \in ThesisIds |-> document'[i]]
      /\ document' = IF outcome \in {"done", "lost"} THEN book ELSE document
      /\ MemoryIsLoaded'
  BY <1>1, <1>2, <1>4, SettleKeepsMemory
<1>6. /\ believed' = [i \in ThesisIds |-> believed'[i]]
      /\ \A i \in ThesisIds \ {id} : believed'[i] = believed[i]
      /\ outcome = "done" => believed'[id] = {next}
      /\ outcome = "lost" => next \in believed'[id]
      /\ outcome \notin {"done", "lost"} => believed' = believed
  <2>1. believed = [i \in ThesisIds |-> believed[i]]
    BY DEF ThesisInv
  <2>2. CASE outcome = "done"
    BY <1>1, <2>1, <2>2
  <2>3. CASE outcome = "lost"
    BY <1>1, <2>1, <2>3
  <2>4. CASE outcome \notin {"done", "lost"}
    BY <1>1, <2>1, <2>4
  <2> QED
    BY <2>2, <2>3, <2>4
<1>7. ASSUME NEW i \in ThesisIds PROVE \E t \in believed'[i] : document'[i] \in AsLoaded(t)
  <2>1. PICK t \in believed[i] : document[i] \in AsLoaded(t)
    BY DEF ThesisInv, NothingIsClobbered
  <2>2. CASE outcome \notin {"done", "lost"}
    BY <1>5, <1>6, <2>1, <2>2
  <2>3. CASE outcome \in {"done", "lost"} /\ i = id
    <3>1. document'[i] = next /\ next \in believed'[i]
      BY <1>2, <1>4, <1>5, <1>6, <2>3
    <3> QED
      BY <3>1 DEF AsLoaded
  <2>4. CASE outcome \in {"done", "lost"} /\ i # id
    <3>1. document'[i] \in AsLoaded(document[i]) /\ believed'[i] = believed[i]
      BY <1>2, <1>4, <1>5, <1>6, <2>4
    <3> QED
      BY <2>1, <3>1, LoadedOnce
  <2> QED
    BY <2>2, <2>3, <2>4
<1>8. inPostgres' \in BOOLEAN
  BY <1>1 DEF ThesisInv
<1> QED
  BY <1>5, <1>6, <1>7, <1>8 DEF ThesisInv, NothingIsClobbered

\* What the history of a thesis is told from.
Events == [from : Statuses \cup {Nothing}]
HasHistory(t) ==
    /\ {"status", "versions", "cut"} \subseteq DOMAIN t
    /\ t.status \in Statuses /\ t.versions \in Seq(Events) /\ t.cut \in BOOLEAN

\* The theses as the document has them: each tells its life, until its history is cut.
LivesOK ==
    /\ lived = [id \in ThesisIds |-> lived[id]]
    /\ \A id \in ThesisIds :
        /\ lived[id] \in Seq(Statuses)
        /\ \/ document[id] = Absent
           \/ HasHistory(document[id]) /\ (~document[id].cut => Tells(document[id], lived[id]))

\* A load changes nothing that the history is told from.
LEMMA LoadKeepsHistory ==
    ASSUME NEW t, t = Absent \/ HasHistory(t), NEW u \in AsLoaded(t)
    PROVE  /\ u = Absent <=> t = Absent
           /\ u # Absent => /\ HasHistory(u) /\ u.status = t.status /\ u.versions = t.versions
                            /\ u.cut = t.cut
<1>1. Absent.status = Nothing /\ Nothing \notin Statuses
  BY DEF Absent, Nothing, Statuses
<1>2. CASE t = Absent
  BY <1>2 DEF AsLoaded
<1>3. CASE t # Absent
  <2>1. HasHistory(t)
    BY <1>3
  <2>2. u = t \/ u = [t EXCEPT !.reason = FALSE, !.dated = FALSE, !.by = Nothing]
    BY <1>3 DEF AsLoaded, Normalized
  <2>3. CASE u = [t EXCEPT !.reason = FALSE, !.dated = FALSE, !.by = Nothing]
    <3>1. u.status = t.status /\ u.versions = t.versions /\ u.cut = t.cut /\ DOMAIN u = DOMAIN t
      BY <2>3
    <3> QED
      BY <1>1, <1>3, <2>1, <3>1 DEF HasHistory
  <2> QED
    BY <1>3, <2>1, <2>2, <2>3
<1> QED
  BY <1>2, <1>3

\* What is told counts its moves.
LEMMA MovesAreFinite ==
    ASSUME NEW t, t.versions \in Seq(Events)
    PROVE  /\ IsFiniteSet(Moves(t)) /\ Moves(t) \subseteq 1..Len(t.versions)
           /\ Cardinality(Moves(t)) \in Nat
<1>1. Len(t.versions) \in Nat /\ DOMAIN t.versions = 1..Len(t.versions)
  OBVIOUS
<1>2. Moves(t) \subseteq 1..Len(t.versions)
  BY <1>1 DEF Moves
<1>3. IsFiniteSet(1..Len(t.versions))
  BY <1>1, FS_Interval
<1> QED
  BY <1>2, <1>3, FS_Subset, FS_CardinalityType

\* The place of a move in the life.
LEMMA MoveHasPlace ==
    ASSUME NEW t, t.versions \in Seq(Events), NEW i \in Moves(t)
    PROVE  Cardinality({j \in Moves(t) : j =< i}) \in 1..Cardinality(Moves(t))
<1> DEFINE upTo == {j \in Moves(t) : j =< i}
<1>1. i \in Nat /\ IsFiniteSet(Moves(t)) /\ Cardinality(Moves(t)) \in Nat
  BY MovesAreFinite
<1>2. upTo \subseteq Moves(t) /\ i \in upTo
  BY <1>1
<1> HIDE DEF upTo
<1>3. IsFiniteSet(upTo) /\ Cardinality(upTo) =< Cardinality(Moves(t))
  BY <1>1, <1>2, FS_Subset
<1>4. Cardinality(upTo) \in Nat /\ Cardinality(upTo) # 0
  BY <1>2, <1>3, FS_CardinalityType, FS_EmptySet
<1> QED
  BY <1>1, <1>3, <1>4 DEF upTo

\* Without an event, the thesis tells the same life; so it does with one that is no move.
LEMMA StaysTold ==
    ASSUME NEW t, NEW u, NEW life, HasHistory(t), Tells(t, life), u.status = t.status,
           \/ u.versions = t.versions
           \/ u.versions = Append(t.versions, [from |-> Nothing])
    PROVE  Tells(u, life)
<1>1. t.versions \in Seq(Events) /\ Len(t.versions) \in Nat /\ DOMAIN t.versions = 1..Len(t.versions)
  BY DEF HasHistory
<1>2. CASE u.versions = t.versions
  <2>1. Moves(u) = Moves(t)
    BY <1>2 DEF Moves
  <2> QED
    BY <1>2, <2>1 DEF Tells
<1>3. CASE u.versions = Append(t.versions, [from |-> Nothing])
  <2> DEFINE n == Len(t.versions)
  <2>1. /\ DOMAIN u.versions = 1..n + 1 /\ \A i \in 1..n : u.versions[i] = t.versions[i]
        /\ u.versions[n + 1] = [from |-> Nothing]
    BY <1>1, <1>3
  <2>2. u.versions[n + 1].from = Nothing
    BY <2>1
  <2>3. Moves(u) = Moves(t)
    BY <1>1, <2>1, <2>2 DEF Moves
  <2>4. \A i \in Moves(u) : u.versions[i] = t.versions[i]
    BY <1>1, <2>1, <2>3 DEF Moves
  <2> QED
    BY <2>3, <2>4 DEF Tells
<1> QED
  BY <1>2, <1>3

\* A move that leaves its event adds one status to the life.
LEMMA MoveIsTold ==
    ASSUME NEW t, NEW u, NEW life, life \in Seq(Statuses), HasHistory(t), Tells(t, life),
           u.status \in Statuses, u.versions = Append(t.versions, [from |-> t.status])
    PROVE  Tells(u, Append(life, u.status))
<1> DEFINE n == Len(t.versions)
           more == Append(life, u.status)
           before(v, i) == {j \in Moves(v) : j =< i}
<1>1. /\ t.versions \in Seq(Events) /\ n \in Nat /\ DOMAIN t.versions = 1..n
      /\ t.status \in Statuses /\ Nothing \notin Statuses
  BY DEF HasHistory, Nothing, Statuses
<1>2. /\ DOMAIN u.versions = 1..n + 1 /\ \A i \in 1..n : u.versions[i] = t.versions[i]
      /\ u.versions[n + 1] = [from |-> t.status]
  BY <1>1
<1>3. u.versions[n + 1].from = t.status /\ t.status # Nothing
  BY <1>1, <1>2
<1>4. IsFiniteSet(Moves(t)) /\ Moves(t) \subseteq 1..n /\ Cardinality(Moves(t)) \in Nat
  BY <1>1, MovesAreFinite
<1>5. Moves(u) = Moves(t) \cup {n + 1} /\ n + 1 \notin Moves(t)
  BY <1>1, <1>2, <1>3, <1>4 DEF Moves
<1>6. Cardinality(Moves(u)) = Cardinality(Moves(t)) + 1
  BY <1>4, <1>5, FS_AddElement
<1>7. /\ Len(life) \in Nat /\ Len(life) = Cardinality(Moves(t)) + 1 /\ life[Len(life)] = t.status
      /\ \A i \in Moves(t) : life[Cardinality(before(t, i))] = t.versions[i].from
  BY DEF Tells, Last
<1>8. /\ Len(more) = Len(life) + 1 /\ more[Len(life) + 1] = u.status
      /\ \A k \in 1..Len(life) : more[k] = life[k]
  BY <1>7
<1>9. Len(more) = Cardinality(Moves(u)) + 1 /\ Last(more) = u.status
  BY <1>6, <1>7, <1>8 DEF Last
<1>10. ASSUME NEW i \in Moves(t) PROVE more[Cardinality(before(u, i))] = u.versions[i].from
  <2>1. before(u, i) = before(t, i)
    BY <1>1, <1>4, <1>5
  <2>2. Cardinality(before(t, i)) \in 1..Cardinality(Moves(t))
    BY <1>1, MoveHasPlace
  <2>3. u.versions[i] = t.versions[i]
    BY <1>2, <1>4
  <2>4. Cardinality(before(t, i)) \in 1..Len(life)
    BY <1>4, <1>7, <2>2
  <2> HIDE DEF before, more
  <2> QED
    BY <1>7, <1>8, <2>1, <2>3, <2>4
<1>11. more[Cardinality(before(u, n + 1))] = u.versions[n + 1].from
  <2>1. before(u, n + 1) = Moves(u)
    BY <1>1, <1>4, <1>5
  <2>3. Cardinality(before(u, n + 1)) = Cardinality(Moves(u))
    BY <2>1
  <2> HIDE DEF before
  <2>2. Cardinality(before(u, n + 1)) = Len(life) /\ Len(life) \in 1..Len(life)
    BY <1>4, <1>6, <1>7, <2>3
  <2> HIDE DEF before, more
  <2> QED
    BY <1>3, <1>7, <1>8, <2>2
<1>12. \A i \in Moves(u) : more[Cardinality(before(u, i))] = u.versions[i].from
  <2> HIDE DEF before, more
  <2> QED
    BY <1>5, <1>10, <1>11
<1> QED
  BY <1>9, <1>12 DEF Tells

\* What a change may make of a thesis: its status stays, or it moves and an event says from where.
HistoryFollows(t, u) ==
    /\ HasHistory(u)
    /\ ~u.cut =>
        /\ ~t.cut
        /\ \/ /\ u.status = t.status
              /\ u.versions = t.versions \/ u.versions = Append(t.versions, [from |-> Nothing])
           \/ /\ u.status # t.status
              /\ u.versions = Append(t.versions, [from |-> t.status])

\* The document after a change tells the lives as they went on.
LEMMA ChangeKeepsLives ==
    ASSUME ThesisInv, LivesOK, NEW id \in ThesisIds, NEW load \in LoadResults, NEW next,
           Change(id, load, next),
           ~load.broken =>
              \/ next = Absent
              \/ HasHistory(next) /\ next.versions = <<>> /\ lived[id] = <<>>
              \/ load.book[id] # Absent /\ HistoryFollows(load.book[id], next)
    PROVE  LivesOK'
<1> DEFINE book == [load.book EXCEPT ![id] = next]
<1>1. PICK outcome \in IF MayPersist(load.broken) THEN WriteResults(load.faults) ELSE {"unwritable"} :
         /\ Settle(load, book, outcome)
         /\ lived' = IF \/ outcome \notin {"done", "lost"} \/ next = Absent
                        \/ lived[id] # <<>> /\ Last(lived[id]) = next.status
                     THEN lived ELSE [lived EXCEPT ![id] = Append(@, next.status)]
  BY DEF Change
<1>2. outcome \in {"done", "lost"} => ~load.broken
  BY DEF MayPersist
<1>3. document' = IF outcome \in {"done", "lost"} THEN book ELSE document
  BY <1>1 DEF Settle
<1>4. CASE outcome \notin {"done", "lost"}
  <2>1. document' = document /\ lived' = lived
    BY <1>1, <1>3, <1>4
  <2> QED
    BY <2>1 DEF LivesOK
<1>5. CASE outcome \in {"done", "lost"}
  <2>1. /\ load.book = [i \in ThesisIds |-> load.book[i]]
        /\ \A i \in ThesisIds : load.book[i] \in AsLoaded(document[i])
    BY <1>2, <1>5, LoadIsDocument
  <2>2. document' = book /\ book[id] = next /\ \A i \in ThesisIds \ {id} : book[i] = load.book[i]
    BY <1>3, <1>5, <2>1
  <2> HIDE DEF book
  <2>3. /\ lived' = [i \in ThesisIds |-> lived'[i]]
        /\ \A i \in ThesisIds \ {id} : lived'[i] = lived[i]
        /\ lived'[id] = IF next = Absent \/ (lived[id] # <<>> /\ Last(lived[id]) = next.status)
                        THEN lived[id] ELSE Append(lived[id], next.status)
    BY <1>1, <1>5 DEF LivesOK
  <2>4. ASSUME NEW i \in ThesisIds \ {id}
        PROVE  /\ lived'[i] \in Seq(Statuses)
               /\ \/ document'[i] = Absent
                  \/ HasHistory(document'[i]) /\ (~document'[i].cut => Tells(document'[i], lived'[i]))
    <3>1. PICK t, u, life : t = document[i] /\ u = load.book[i] /\ life = lived[i]
      OBVIOUS
    <3>2. /\ u \in AsLoaded(t) /\ life \in Seq(Statuses)
          /\ t = Absent \/ (HasHistory(t) /\ (~t.cut => Tells(t, life)))
      BY <2>1, <3>1 DEF LivesOK
    <3>3. \/ u = Absent
          \/ t # Absent /\ HasHistory(u) /\ u.status = t.status /\ u.versions = t.versions /\ u.cut = t.cut
      BY <3>2, LoadKeepsHistory
    <3>4. u = Absent \/ (HasHistory(u) /\ (~u.cut => Tells(u, life)))
      BY <3>2, <3>3, StaysTold
    <3>5. document'[i] = u /\ lived'[i] = life
      BY <2>2, <2>3, <3>1
    <3> QED
      BY <3>2, <3>4, <3>5
  <2>5. /\ lived'[id] \in Seq(Statuses)
        /\ \/ next = Absent
           \/ HasHistory(next) /\ (~next.cut => Tells(next, lived'[id]))
    <3>1. PICK t, u, life : t = document[id] /\ u = load.book[id] /\ life = lived[id]
      OBVIOUS
    <3>2. /\ u \in AsLoaded(t) /\ life \in Seq(Statuses)
          /\ t = Absent \/ (HasHistory(t) /\ (~t.cut => Tells(t, life)))
      BY <2>1, <3>1 DEF LivesOK
    <3>3. CASE next = Absent
      BY <2>3, <3>1, <3>2, <3>3
    <3>4. CASE next # Absent /\ HasHistory(next) /\ next.versions = <<>> /\ life = <<>>
      <4>1. lived'[id] = <<next.status>>
        BY <2>3, <3>1, <3>4
      <4>2. next.status \in Statuses
        BY <3>4 DEF HasHistory
      <4>3. Moves(next) = {}
        BY <3>4 DEF Moves
      <4>4. Tells(next, <<next.status>>)
        BY <4>2, <4>3, FS_EmptySet DEF Tells, Last
      <4> QED
        BY <3>4, <4>1, <4>2, <4>4
    <3>5. CASE next # Absent /\ u # Absent /\ HistoryFollows(u, next)
      <4>1. t # Absent /\ HasHistory(u) /\ u.status = t.status /\ u.versions = t.versions /\ u.cut = t.cut
        BY <3>2, <3>5, LoadKeepsHistory
      <4>2. HasHistory(next) /\ next.status \in Statuses
        BY <3>5 DEF HistoryFollows, HasHistory
      <4>3. lived'[id] \in {life, Append(life, next.status)}
        BY <2>3, <3>1
      <4>4. lived'[id] \in Seq(Statuses)
        BY <3>2, <4>2, <4>3
      <4>5. ASSUME ~next.cut PROVE Tells(next, lived'[id])
        <5>1. ~u.cut
          BY <3>5, <4>5 DEF HistoryFollows
        <5>2. Tells(u, life)
          BY <3>2, <4>1, <5>1, StaysTold
        <5>3. life # <<>> /\ Last(life) = u.status
          <6>1. Len(life) = Cardinality(Moves(u)) + 1 /\ Last(life) = u.status
            BY <5>2 DEF Tells
          <6>2. Cardinality(Moves(u)) \in Nat
            BY <4>1, MovesAreFinite DEF HasHistory
          <6> QED
            BY <6>1, <6>2
        <5>4. CASE next.status = u.status
          <6>1. lived'[id] = life
            BY <2>3, <3>1, <5>3, <5>4
          <6>2. next.versions = u.versions \/ next.versions = Append(u.versions, [from |-> Nothing])
            BY <3>5, <4>5, <5>4 DEF HistoryFollows
          <6> QED
            BY <4>1, <5>2, <5>4, <6>1, <6>2, StaysTold
        <5>5. CASE next.status # u.status
          <6>1. lived'[id] = Append(life, next.status)
            BY <2>3, <3>1, <3>5, <5>3, <5>5
          <6>2. next.versions = Append(u.versions, [from |-> u.status])
            BY <3>5, <4>5, <5>5 DEF HistoryFollows
          <6> QED
            BY <3>2, <4>1, <4>2, <5>2, <6>1, <6>2, MoveIsTold
        <5> QED
          BY <5>4, <5>5
      <4> QED
        BY <4>2, <4>4, <4>5
    <3> QED
      BY <1>2, <1>5, <3>1, <3>3, <3>4, <3>5
  <2>6. \A i \in ThesisIds :
          /\ lived'[i] \in Seq(Statuses)
          /\ \/ document'[i] = Absent
             \/ HasHistory(document'[i]) /\ (~document'[i].cut => Tells(document'[i], lived'[i]))
    BY <2>2, <2>4, <2>5
  <2> QED
    BY <2>3, <2>6 DEF LivesOK
<1> QED
  BY <1>4, <1>5

\* applyThesisPatch touches nothing of the history but the status.
LEMMA PatchKeepsHistory ==
    ASSUME NEW t, HasHistory(t), NEW items, NEW check, NEW status \in Statuses, NEW reason, NEW by,
           NEW next, next = Patched(t, items, check, status, reason, by)
    PROVE  /\ HasHistory(next) /\ next.status = status
           /\ next.versions = t.versions /\ next.cut = t.cut
<1>1. PICK a : a = [t EXCEPT !.checked = (@ \/ check), !.items = items]
  OBVIOUS
<1>2. DOMAIN a = DOMAIN t /\ a.status = t.status /\ a.versions = t.versions /\ a.cut = t.cut
  BY <1>1
<1>3. PICK b : b = [a EXCEPT !.reason = IF reason = Nothing THEN @ ELSE reason = "given",
                             !.by = IF by = "same" THEN @ ELSE by]
  OBVIOUS
<1>4. DOMAIN b = DOMAIN a /\ b.status = a.status /\ b.versions = a.versions /\ b.cut = a.cut
  BY <1>3
<1>5. next = IF status = a.status THEN b
             ELSE IF a.status = "closed"
                  THEN [b EXCEPT !.status = status, !.reason = FALSE, !.dated = FALSE, !.by = Nothing]
                  ELSE [b EXCEPT !.status = status, !.dated = (@ \/ status = "closed")]
  BY <1>1, <1>3 DEF Patched, Moved
<1>6. "status" \in DOMAIN b
  BY <1>2, <1>4 DEF HasHistory
<1>7. DOMAIN next = DOMAIN b /\ next.status = status /\ next.versions = b.versions /\ next.cut = b.cut
  <2>1. CASE status = a.status
    BY <1>2, <1>4, <1>5, <2>1
  <2>2. CASE status # a.status /\ a.status = "closed"
    <3>1. next = [b EXCEPT !.status = status, !.reason = FALSE, !.dated = FALSE, !.by = Nothing]
      BY <1>5, <2>2
    <3> QED
      BY <1>6, <3>1
  <2>3. CASE status # a.status /\ a.status # "closed"
    <3>1. next = [b EXCEPT !.status = status, !.dated = (@ \/ status = "closed")]
      BY <1>5, <2>3
    <3> QED
      BY <1>6, <3>1
  <2> QED
    BY <2>1, <2>2, <2>3
<1> QED
  BY <1>2, <1>4, <1>7 DEF HasHistory

\* The version event, when the change is material.
LEMMA VersionedFollows ==
    ASSUME NEW t, NEW p, NEW edited, HasHistory(t), HasHistory(p),
           p.versions = t.versions, p.cut = t.cut,
           NEW next, next = Versioned(t, p, edited)
    PROVE  HistoryFollows(t, next)
<1>1. PICK event, versions, over :
        /\ event = [from |-> IF t.status = p.status THEN Nothing ELSE t.status]
        /\ versions = Append(t.versions, event)
        /\ over = Len(versions) - MaxVersions
  OBVIOUS
<1>2. next = IF ~Material(t, p, edited) THEN p
             ELSE IF over =< 0 THEN [p EXCEPT !.versions = versions]
             ELSE [p EXCEPT !.versions = SubSeq(versions, over + 1, Len(versions)), !.cut = TRUE]
  BY <1>1 DEF Versioned
<1>3. event \in Events
  BY <1>1 DEF HasHistory, Events
<1>4. versions \in Seq(Events) /\ Len(versions) \in Nat /\ MaxVersions \in Nat \ {0}
  BY <1>1, <1>3, ThesisBookAssumption DEF HasHistory
<1>5. CASE ~Material(t, p, edited)
  <2>1. t.status = p.status
    BY <1>5 DEF Material
  <2> QED
    BY <1>2, <1>5, <2>1 DEF HistoryFollows, HasHistory
<1>6. CASE Material(t, p, edited) /\ over =< 0
  <2>1. next = [p EXCEPT !.versions = versions]
    BY <1>2, <1>6
  <2>2. DOMAIN next = DOMAIN p /\ next.status = p.status /\ next.versions = versions /\ next.cut = p.cut
    BY <2>1 DEF HasHistory
  <2>3. HasHistory(next)
    BY <1>4, <2>2 DEF HasHistory
  <2> QED
    BY <1>1, <2>2, <2>3 DEF HistoryFollows
<1>7. CASE Material(t, p, edited) /\ ~(over =< 0)
  <2>1. PICK latest : latest = SubSeq(versions, over + 1, Len(versions))
    OBVIOUS
  <2>2. next = [p EXCEPT !.versions = latest, !.cut = TRUE]
    BY <1>2, <1>7, <2>1
  <2>3. DOMAIN next = DOMAIN p /\ next.status = p.status /\ next.versions = latest /\ next.cut = TRUE
    BY <2>2 DEF HasHistory
  <2>4. latest \in Seq(Events)
    <3>1. over + 1 \in 1..Len(versions) + 1 /\ Len(versions) \in over..Len(versions)
      BY <1>1, <1>4, <1>7
    <3> QED
      BY <1>4, <2>1, <3>1, SubSeqProperties
  <2>5. HasHistory(next)
    BY <2>3, <2>4 DEF HasHistory
  <2> QED
    BY <2>3, <2>5 DEF HistoryFollows
<1> QED
  BY <1>5, <1>6, <1>7

\* A thesis as a request reads it.
LEMMA ReadHasHistory ==
    ASSUME ThesisInv, LivesOK, NEW load \in LoadResults, ~load.broken, NEW id \in ThesisIds,
           load.book[id] # Absent
    PROVE  HasHistory(load.book[id])
<1>1. load.book[id] \in AsLoaded(document[id])
  BY LoadIsDocument
<1>2. document[id] = Absent \/ HasHistory(document[id])
  BY DEF LivesOK
<1> QED
  BY <1>1, <1>2, LoadKeepsHistory

(***************************************************************************)
(* The history of a thesis tells the life it had (theses.go): every status *)
(* it went through, in order, until its versions are cut; for any number of*)
(* theses, changes, failed and lost writes, failed loads and starts.       *)

\* The invariant of the documents and of what memory makes of them.
LEMMA ThesisInvHolds == ThesisSpec => []ThesisInv
<1>1. ThesisInit => ThesisInv
  <2> SUFFICES ASSUME ThesisInit PROVE ThesisInv
    OBVIOUS
  <2>1. /\ document = [id \in ThesisIds |-> document[id]]
        /\ believed = [id \in ThesisIds |-> believed[id]]
        /\ \A id \in ThesisIds : believed[id] = {document[id]}
    BY DEF ThesisInit
  <2>2. NothingIsClobbered
    BY <2>1 DEF NothingIsClobbered, AsLoaded
  <2> QED
    BY <2>1, <2>2 DEF ThesisInv, ThesisInit, MemoryIsLoaded
<1>2. ThesisInv /\ [ThesisNext]_thesisVars => ThesisInv'
  <2> SUFFICES ASSUME ThesisInv, [ThesisNext]_thesisVars PROVE ThesisInv'
    OBVIOUS
  <2>1. CASE ListTheses
    <3>1. PICK load \in LoadResults : Settle(load, load.book, "read")
      BY <2>1 DEF ListTheses
    <3>2. inPostgres' = inPostgres /\ believed' = believed
      BY <2>1 DEF ListTheses
    <3>3. broken' \in BOOLEAN /\ document' = document /\ MemoryIsLoaded'
      BY <3>1, <3>2, SettleKeepsMemory
    <3> QED
      BY <3>2, <3>3 DEF ThesisInv, NothingIsClobbered
  <2>2. CASE CreateThesis
    <3>1. \E load \in LoadResults, id \in ThesisIds : \E next : Change(id, load, next)
      BY <2>2 DEF CreateThesis, ThesisIds
    <3> QED
      BY <3>1, ChangeKeeps
  <2>3. CASE PatchThesis
    <3>1. \E load \in LoadResults, id \in ThesisIds : \E next : Change(id, load, next)
      BY <2>3 DEF PatchThesis, Exists
    <3> QED
      BY <3>1, ChangeKeeps
  <2>4. CASE ReviewOrCheckThesis
    <3>1. \E load \in LoadResults, id \in ThesisIds : \E next : Change(id, load, next)
      BY <2>4 DEF ReviewOrCheckThesis
    <3> QED
      BY <3>1, ChangeKeeps
  <2>5. CASE DeleteThesis
    BY <2>5, ChangeKeeps DEF DeleteThesis
  <2>6. CASE RestartTheses
    BY <2>6 DEF RestartTheses, ThesisInv, MemoryIsLoaded, NothingIsClobbered
  <2>7. CASE UNCHANGED thesisVars
    BY <2>7 DEF thesisVars, ThesisInv, MemoryIsLoaded, NothingIsClobbered
  <2> QED
    BY <2>1, <2>2, <2>3, <2>4, <2>5, <2>6, <2>7 DEF ThesisNext
<1> QED
  BY <1>1, <1>2, PTL DEF ThesisSpec

(***************************************************************************)
(* No thesis is overwritten by a memory that could not be loaded, or that  *)
(* missed a write whose answer was lost (theses.go, document_postgres.go), *)
(* for any number of theses, versions and failures.                        *)
(***************************************************************************)
THEOREM ThesesAreNotClobbered == ThesisSpec => []NothingIsClobbered
<1>1. ThesisInv => NothingIsClobbered
  BY DEF ThesisInv
<1> QED
  BY <1>1, ThesisInvHolds, PTL

(***************************************************************************)
(* The history of a thesis tells the life it had (theses.go): every status *)
(* it went through, in order, until its versions are cut; for any number of*)
(* theses, changes, failed and lost writes, failed loads and starts.       *)
(***************************************************************************)
THEOREM HistoriesTellTheLife == ThesisSpec => []HistoryTellsTheLife
<1>1. ThesisInit => LivesOK
  <2> SUFFICES ASSUME ThesisInit PROVE LivesOK
    OBVIOUS
  <2>1. /\ OldThesis.status = "active" /\ OldThesis.versions = <<>> /\ OldThesis.cut = FALSE
        /\ {"status", "versions", "cut"} \subseteq DOMAIN OldThesis
    BY DEF OldThesis
  <2>2. <<>> \in Seq(Events) /\ <<>> \in Seq(Statuses) /\ DOMAIN <<>> = {}
    OBVIOUS
  <2>3. HasHistory(OldThesis) /\ Moves(OldThesis) = {}
    BY <2>1, <2>2 DEF HasHistory, Statuses, Moves
  <2>4. <<"active">> \in Seq(Statuses) /\ Len(<<"active">>) = 1 /\ <<"active">>[1] = "active"
    BY DEF Statuses
  <2>5. Tells(OldThesis, <<"active">>)
    BY <2>1, <2>3, <2>4, FS_EmptySet DEF Tells, Last
  <2>6. /\ document = [id \in ThesisIds |-> IF id \in OldTheses THEN OldThesis ELSE Absent]
        /\ lived = [id \in ThesisIds |-> IF id \in OldTheses THEN <<"active">> ELSE <<>>]
    BY DEF ThesisInit
  <2> QED
    BY <2>2, <2>3, <2>4, <2>5, <2>6 DEF LivesOK
<1>2. ThesisInv /\ LivesOK /\ [ThesisNext]_thesisVars => LivesOK'
  <2> SUFFICES ASSUME ThesisInv, LivesOK, [ThesisNext]_thesisVars PROVE LivesOK'
    OBVIOUS
  <2>1. CASE CreateThesis
    <3>1. PICK load \in LoadResults, id \in NewTheses, status \in Statuses, dated \in BOOLEAN,
               fresh \in Fresh :
            /\ lived[id] = <<>>
            /\ Change(id, load,
                      [OldThesis EXCEPT !.status = status, !.reason = (status = "closed"),
                                        !.dated = (dated \/ status = "closed"), !.items = fresh])
      BY <2>1, ZenonT(40) DEF CreateThesis
    <3>2. PICK next : next = [OldThesis EXCEPT !.status = status, !.reason = (status = "closed"),
                                               !.dated = (dated \/ status = "closed"), !.items = fresh]
      OBVIOUS
    <3>3. next.status = status /\ next.versions = <<>> /\ next.cut = FALSE
          /\ {"status", "versions", "cut"} \subseteq DOMAIN next
      BY <3>2 DEF OldThesis
    <3>4. <<>> \in Seq(Events)
      OBVIOUS
    <3>5. HasHistory(next)
      BY <3>1, <3>3, <3>4 DEF HasHistory
    <3> QED
      BY <3>1, <3>2, <3>3, <3>5, ChangeKeepsLives DEF ThesisIds
  <2>2. CASE PatchThesis
    <3>1. PICK load \in LoadResults : \E id \in Exists(load.book), status \in Statuses :
            LET t == load.book[id] IN
            /\ MayMove(load.book, id, t.status, status)
            /\ \E stays \in Kept(t.items), fresh \in Fresh, reason \in {Nothing, "given", "cleared"},
                  by \in t.items \cup {Nothing, "same"}, edited \in BOOLEAN, check \in BOOLEAN :
                  LET next == Patched(t, stays \cup fresh, check, status, reason, by) IN
                  /\ Acceptable(next)
                  /\ Change(id, load, Versioned(t, next, edited))
                  /\ minted' = minted \cup fresh
      BY <2>2 DEF PatchThesis
    <3>2. PICK id \in Exists(load.book), status \in Statuses :
            LET t == load.book[id] IN
            /\ MayMove(load.book, id, t.status, status)
            /\ \E stays \in Kept(t.items), fresh \in Fresh, reason \in {Nothing, "given", "cleared"},
                  by \in t.items \cup {Nothing, "same"}, edited \in BOOLEAN, check \in BOOLEAN :
                  LET next == Patched(t, stays \cup fresh, check, status, reason, by) IN
                  /\ Acceptable(next)
                  /\ Change(id, load, Versioned(t, next, edited))
                  /\ minted' = minted \cup fresh
      BY <3>1
    <3>3. PICK t : /\ t = load.book[id]
                   /\ \E stays \in Kept(t.items), fresh \in Fresh, reason \in {Nothing, "given", "cleared"},
                         by \in t.items \cup {Nothing, "same"}, edited \in BOOLEAN, check \in BOOLEAN :
                         LET next == Patched(t, stays \cup fresh, check, status, reason, by) IN
                         /\ Acceptable(next)
                         /\ Change(id, load, Versioned(t, next, edited))
                         /\ minted' = minted \cup fresh
      BY <3>2
    <3>4. PICK stays \in Kept(t.items), fresh \in Fresh, reason \in {Nothing, "given", "cleared"},
               by \in t.items \cup {Nothing, "same"}, edited \in BOOLEAN, check \in BOOLEAN :
                  LET next == Patched(t, stays \cup fresh, check, status, reason, by) IN
                  /\ Acceptable(next)
                  /\ Change(id, load, Versioned(t, next, edited))
                  /\ minted' = minted \cup fresh
      BY <3>3
    <3>5. PICK next : /\ next = Patched(t, stays \cup fresh, check, status, reason, by)
                      /\ Change(id, load, Versioned(t, next, edited))
      BY <3>4
    <3>6. PICK after : after = Versioned(t, next, edited)
      OBVIOUS
    <3>7. id \in ThesisIds /\ t # Absent /\ t = load.book[id]
      BY <3>3 DEF Exists
    <3>8. ASSUME ~load.broken PROVE HistoryFollows(t, after)
      <4>1. HasHistory(t)
        BY <3>5, <3>6, <3>7, <3>8, ReadHasHistory
      <4>2. HasHistory(next) /\ next.versions = t.versions /\ next.cut = t.cut
        BY <3>5, <3>6, <4>1, PatchKeepsHistory
      <4> QED
        BY <3>6, <4>1, <4>2, VersionedFollows
    <3> QED
      BY <3>5, <3>6, <3>7, <3>8, ChangeKeepsLives
  <2>3. CASE ReviewOrCheckThesis
    <3>1. PICK load, id, next :
            /\ load \in LoadResults /\ id \in Exists(load.book)
            /\ \/ next = [load.book[id] EXCEPT !.checked = TRUE]
               \/ next = [load.book[id] EXCEPT !.reviewed = TRUE]
            /\ Change(id, load, next)
      BY <2>3 DEF ReviewOrCheckThesis
    <3>2. PICK t : t = load.book[id]
      OBVIOUS
    <3>3. id \in ThesisIds /\ t # Absent
      BY <3>1, <3>2 DEF Exists
    <3>4. ASSUME ~load.broken PROVE HistoryFollows(t, next)
      <4>1. HasHistory(t)
        BY <3>1, <3>2, <3>3, <3>4, ReadHasHistory
      <4>2. DOMAIN next = DOMAIN t /\ next.status = t.status /\ next.versions = t.versions /\ next.cut = t.cut
        <5>1. CASE next = [t EXCEPT !.checked = TRUE]
          BY <5>1
        <5>2. CASE next = [t EXCEPT !.reviewed = TRUE]
          BY <5>2
        <5> QED
          BY <3>1, <3>2, <5>1, <5>2
      <4> QED
        BY <4>1, <4>2 DEF HistoryFollows, HasHistory
    <3> QED
      BY <3>1, <3>2, <3>3, <3>4, ChangeKeepsLives
  <2>4. CASE DeleteThesis
    <3>1. PICK load, id : load \in LoadResults /\ id \in ThesisIds /\ Change(id, load, Absent)
      BY <2>4 DEF DeleteThesis
    <3> QED
      BY <3>1, ChangeKeepsLives
  <2>5. CASE ListTheses
    <3>1. PICK load : Settle(load, load.book, "read")
      BY <2>5 DEF ListTheses
    <3>2. document' = document /\ lived' = lived
      BY <2>5, <3>1 DEF Settle, ListTheses
    <3> QED
      BY <3>2 DEF LivesOK
  <2>6. CASE RestartTheses \/ UNCHANGED thesisVars
    <3>1. document' = document /\ lived' = lived
      BY <2>6 DEF RestartTheses, thesisVars
    <3> QED
      BY <3>1 DEF LivesOK
  <2> QED
    BY <2>1, <2>2, <2>3, <2>4, <2>5, <2>6 DEF ThesisNext
<1>3. LivesOK => HistoryTellsTheLife
  BY DEF LivesOK, HistoryTellsTheLife, Exists
<1> QED
  BY <1>1, <1>2, <1>3, ThesisInvHolds, PTL DEF ThesisSpec

-----------------------------------------------------------------------------
(***************************************************************************)
(* Decisions and the reviews of their outcomes (DecisionLog).              *)
(***************************************************************************)
Editions == Seq(SUBSET Assumptions)
DecisionsMade == [version : Nat, pinned : BOOLEAN, snapshot : SUBSET Assumptions, linked : BOOLEAN]
ReviewsMade == [market : {"none", "open", "closed"}, revised : BOOLEAN, graded : SUBSET Assumptions]

\* A decision whose version is one of the thesis, and whose snapshot is that version's.
Grounded(thesis, decision) ==
    /\ decision \in DecisionsMade
    /\ decision.version < Len(thesis)
    /\ ~decision.pinned => decision.snapshot = thesis[decision.version + 1]

GroundedAll(thesis, listed) ==
    /\ listed = [d \in DecisionIds |-> listed[d]]
    /\ \A d \in DecisionIds : listed[d] = NoDecision \/ Grounded(thesis, listed[d])
ReviewedAll(listed) ==
    /\ listed = [d \in DecisionIds |-> listed[d]]
    /\ \A d \in DecisionIds : listed[d] = NoOutcome \/ listed[d] \in ReviewsMade

\* Memory is a document that can be written, unless a load latched or a file failed.
LogOnLoad ==
    /\ \/ decisionsMem \in {NotRead, decisionsDoc}
       \/ logOnRows /\ "decisions" \in logLatched
       \/ ~logOnRows /\ logExcused
    /\ \/ outcomesMem \in {NotRead, outcomesDoc}
       \/ logOnRows /\ "outcomes" \in logLatched
       \/ ~logOnRows /\ logExcused

\* What is being composed.
DeskOK(thesis, desk) ==
    /\ desk.step = "decide" => Grounded(thesis, Decision(desk))
    /\ desk.step = "review" => /\ desk.of \in DecisionIds /\ desk.graded \in SUBSET Assumptions
                               /\ desk.market \in {"none", "open", "closed"}

DecisionTypeOK ==
    /\ logOnRows \in BOOLEAN /\ logExcused \in BOOLEAN /\ taken \in Nat
    /\ trade \in {"open", "closed", "deleted"}
    /\ editions \in Editions /\ editions # <<>>

DecisionInv ==
    /\ DecisionTypeOK
    /\ GroundedAll(editions, decisionsDoc) /\ ReviewedAll(outcomesDoc)
    /\ decisionsMem = NotRead \/ GroundedAll(editions, decisionsMem)
    /\ outcomesMem = NotRead \/ ReviewedAll(outcomesMem)
    /\ desks = [c \in Desks |-> desks[c]]
    /\ \A c \in Desks : DeskOK(editions, desks[c])
    /\ LogOnLoad
    /\ LogIsWhole

\* A decision, and a review, is not the absence of one.
LEMMA DecisionIsThere ==
    ASSUME NEW thesis, NEW decision, Grounded(thesis, decision)
    PROVE  decision # NoDecision
<1>1. decision.version \in Nat
  BY DEF Grounded, DecisionsMade
<1>2. NoDecision.version = -1
  BY DEF NoDecision
<1> QED
  BY <1>1, <1>2

\* A review that was made is not the absence of one.
LEMMA ReviewIsThere == \A review \in ReviewsMade : review # NoOutcome
<1>1. NoOutcome.market = "no review"
  BY DEF NoOutcome
<1>2. \A review \in ReviewsMade : review.market \in {"none", "open", "closed"}
  BY DEF ReviewsMade
<1> QED
  BY <1>1, <1>2

\* What a request finds of the decisions.
LEMMA DecisionLoadIs ==
    ASSUME DecisionInv, NEW dec \in DecisionLoads
    PROVE  /\ GroundedAll(editions, dec.shown)
           /\ dec.faults \in {0, 1} /\ dec.latch \subseteq {"decisions"}
           /\ \/ dec.shown = decisionsDoc
              \/ logOnRows /\ "decisions" \in logLatched \cup dec.latch
              \/ ~logOnRows /\ (logExcused \/ dec.faults = 1)
<1>1. GroundedAll(editions, decisionsDoc) /\ LogOnLoad /\ logOnRows \in BOOLEAN
      /\ (decisionsMem = NotRead \/ GroundedAll(editions, decisionsMem))
  BY DEF DecisionInv, DecisionTypeOK
<1>2. GroundedAll(editions, NoDecisions)
  BY DEF GroundedAll, NoDecisions
<1>3. \/ decisionsMem # NotRead /\ dec = [shown |-> decisionsMem, latch |-> {}, faults |-> 0]
      \/ dec = [shown |-> decisionsDoc, latch |-> {}, faults |-> 0]
      \/ dec = [shown |-> NoDecisions, latch |-> IF logOnRows THEN {"decisions"} ELSE {}, faults |-> 1]
  BY DEF DecisionLoads, LoadsOf
<1>4. CASE decisionsMem # NotRead /\ dec = [shown |-> decisionsMem, latch |-> {}, faults |-> 0]
  BY <1>1, <1>4 DEF LogOnLoad
<1>5. CASE dec = [shown |-> decisionsDoc, latch |-> {}, faults |-> 0]
  BY <1>1, <1>5
<1>6. CASE dec = [shown |-> NoDecisions, latch |-> IF logOnRows THEN {"decisions"} ELSE {}, faults |-> 1]
  <2>1. dec.shown = NoDecisions /\ dec.faults = 1
        /\ dec.latch = IF logOnRows THEN {"decisions"} ELSE {}
    BY <1>6
  <2> QED
    BY <1>1, <1>2, <2>1
<1> QED
  BY <1>3, <1>4, <1>5, <1>6

\* What a request finds of the reviews.
LEMMA OutcomeLoadIs ==
    ASSUME DecisionInv, NEW out \in OutcomeLoads
    PROVE  /\ ReviewedAll(out.shown)
           /\ out.faults \in {0, 1} /\ out.latch \subseteq {"outcomes"}
           /\ \/ out.shown = outcomesDoc
              \/ logOnRows /\ "outcomes" \in logLatched \cup out.latch
              \/ ~logOnRows /\ (logExcused \/ out.faults = 1)
<1>1. ReviewedAll(outcomesDoc) /\ LogOnLoad /\ logOnRows \in BOOLEAN
      /\ (outcomesMem = NotRead \/ ReviewedAll(outcomesMem))
  BY DEF DecisionInv, DecisionTypeOK
<1>2. ReviewedAll(NoOutcomes)
  BY DEF ReviewedAll, NoOutcomes
<1>3. \/ outcomesMem # NotRead /\ out = [shown |-> outcomesMem, latch |-> {}, faults |-> 0]
      \/ out = [shown |-> outcomesDoc, latch |-> {}, faults |-> 0]
      \/ out = [shown |-> NoOutcomes, latch |-> IF logOnRows THEN {"outcomes"} ELSE {}, faults |-> 1]
  BY DEF OutcomeLoads, LoadsOf
<1>4. CASE outcomesMem # NotRead /\ out = [shown |-> outcomesMem, latch |-> {}, faults |-> 0]
  BY <1>1, <1>4 DEF LogOnLoad
<1>5. CASE out = [shown |-> outcomesDoc, latch |-> {}, faults |-> 0]
  BY <1>1, <1>5
<1>6. CASE out = [shown |-> NoOutcomes, latch |-> IF logOnRows THEN {"outcomes"} ELSE {}, faults |-> 1]
  <2>1. out.shown = NoOutcomes /\ out.faults = 1
        /\ out.latch = IF logOnRows THEN {"outcomes"} ELSE {}
    BY <1>6
  <2> QED
    BY <1>1, <1>2, <2>1
<1> QED
  BY <1>3, <1>4, <1>5, <1>6

\* What an operation may hand to LogWrite.
WriteFits(dec, out, decisions, outcomes, end) ==
    /\ end \in {"done", "refused", "lost", "half", "torn", "unwritable", "conflict"}
    /\ end \in {"half", "torn"} => ~logOnRows
    /\ decisions.written \in BOOLEAN /\ outcomes.written \in BOOLEAN
    /\ decisions.written => GroundedAll(editions, decisions.to)
    /\ outcomes.written => ReviewedAll(outcomes.to)
    /\ decisions.written \/ outcomes.written =>
          logLatched \cup dec.latch \cup out.latch = {} /\ end \notin {"unwritable", "conflict"}

\* What it leaves: all but the wholeness of the log, for which it says what the documents become.
LogSound(dec, out, decisions, outcomes, end) ==
    /\ DecisionTypeOK'
    /\ GroundedAll(editions', decisionsDoc') /\ ReviewedAll(outcomesDoc')
    /\ decisionsMem' = NotRead \/ GroundedAll(editions', decisionsMem')
    /\ outcomesMem' = NotRead \/ ReviewedAll(outcomesMem')
    /\ desks' = [c \in Desks |-> desks'[c]]
    /\ \A c \in Desks : DeskOK(editions', desks'[c])
    /\ LogOnLoad'
    /\ ~logExcused' => ~logExcused
    /\ ~logExcused' /\ ~UNCHANGED <<decisionsDoc, outcomesDoc>> =>
          dec.shown = decisionsDoc /\ out.shown = outcomesDoc /\ end \in {"done", "lost"}
    /\ ~logExcused' /\ (decisions.written \/ outcomes.written) =>
          dec.shown = decisionsDoc /\ out.shown = outcomesDoc
    /\ ~logExcused' /\ end \in {"done", "lost"} =>
          /\ decisionsDoc' = IF decisions.written THEN decisions.to ELSE decisionsDoc
          /\ outcomesDoc' = IF outcomes.written THEN outcomes.to ELSE outcomesDoc

\* One locked operation: what it writes is what it had read, unless a file failed; memory and the
\* requests being composed stay sound.
LEMMA LogWriteKeeps ==
    ASSUME DecisionInv, NEW served, NEW dec \in DecisionLoads, NEW out \in OutcomeLoads,
           NEW decisions, NEW outcomes, NEW end,
           LogWrite(served, dec, out, decisions, outcomes, end), taken' \in Nat,
           WriteFits(dec, out, decisions, outcomes, end)
    PROVE  LogSound(dec, out, decisions, outcomes, end)
<1> USE DEF WriteFits
<1>1. PICK nextD, nextO :
        /\ nextD = IF ~decisions.written THEN dec.shown ELSE decisions.to
        /\ nextO = IF ~outcomes.written THEN out.shown ELSE outcomes.to
  OBVIOUS
<1>2. /\ decisionsDoc' = IF decisions.written /\ end \in {"done", "lost", "half", "torn"}
                         THEN nextD ELSE decisionsDoc
      /\ outcomesDoc' = IF outcomes.written /\ end \in {"done", "lost"} THEN nextO ELSE outcomesDoc
      /\ decisionsMem' = LogMemory(end, decisions.written, nextD, dec.shown)
      /\ outcomesMem' = LogMemory(end, outcomes.written, nextO, out.shown)
      /\ logLatched' = IF LogStopped(end) THEN {} ELSE logLatched \cup dec.latch \cup out.latch
      /\ logExcused' = (logExcused \/ (~logOnRows /\ (dec.faults + out.faults > 0
                                                      \/ end \in {"refused", "half", "torn"})))
      /\ desks' = IF LogStopped(end) THEN [d \in Desks |-> Free]
                  ELSE [d \in Desks |-> IF d \in served THEN Free ELSE desks[d]]
      /\ UNCHANGED <<logOnRows, editions, trade>>
  BY <1>1 DEF LogWrite
<1>3. /\ GroundedAll(editions, dec.shown)
      /\ dec.faults \in {0, 1} /\ dec.latch \subseteq {"decisions"}
      /\ \/ dec.shown = decisionsDoc
         \/ logOnRows /\ "decisions" \in logLatched \cup dec.latch
         \/ ~logOnRows /\ (logExcused \/ dec.faults = 1)
  BY DecisionLoadIs
<1>4. /\ ReviewedAll(out.shown)
      /\ out.faults \in {0, 1} /\ out.latch \subseteq {"outcomes"}
      /\ \/ out.shown = outcomesDoc
         \/ logOnRows /\ "outcomes" \in logLatched \cup out.latch
         \/ ~logOnRows /\ (logExcused \/ out.faults = 1)
  BY OutcomeLoadIs
<1>5. /\ DecisionTypeOK
      /\ GroundedAll(editions, decisionsDoc) /\ ReviewedAll(outcomesDoc)
      /\ \A c \in Desks : DeskOK(editions, desks[c])
      /\ logOnRows \in BOOLEAN /\ logExcused \in BOOLEAN
  BY DEF DecisionInv, DecisionTypeOK
<1>6. GroundedAll(editions, nextD) /\ ReviewedAll(nextO)
  BY <1>1, <1>3, <1>4
<1>7. DecisionTypeOK'
  BY <1>2, <1>5 DEF DecisionTypeOK
<1>8. GroundedAll(editions, decisionsDoc') /\ ReviewedAll(outcomesDoc') /\ editions' = editions
  BY <1>2, <1>5, <1>6
<1>9. decisionsMem' \in {NotRead, nextD, dec.shown} /\ outcomesMem' \in {NotRead, nextO, out.shown}
  BY <1>2 DEF LogMemory
<1>10. /\ decisionsMem' = NotRead \/ GroundedAll(editions, decisionsMem')
       /\ outcomesMem' = NotRead \/ ReviewedAll(outcomesMem')
  BY <1>3, <1>4, <1>6, <1>9
<1>11. desks' = [c \in Desks |-> desks'[c]]
  BY <1>2
<1>12. ASSUME NEW c \in Desks PROVE DeskOK(editions', desks'[c])
  <2>1. desks'[c] \in {Free, desks[c]}
    BY <1>2
  <2>2. Free.step = "free"
    BY DEF Free
  <2>3. DeskOK(editions, Free)
    BY <2>2 DEF DeskOK
  <2> QED
    BY <1>2, <1>5, <2>1, <2>3
<1>13. ~logExcused' => ~logExcused
  BY <1>2
<1>14. ~logExcused' /\ logLatched \cup dec.latch \cup out.latch = {} =>
          dec.shown = decisionsDoc /\ out.shown = outcomesDoc
  <2>1. dec.faults = 1 \/ out.faults = 1 => dec.faults + out.faults > 0
    BY <1>3, <1>4
  <2>2. ~logOnRows /\ (dec.faults = 1 \/ out.faults = 1) => logExcused'
    BY <1>2, <2>1
  <2> QED
    BY <1>3, <1>4, <1>13, <2>2
<1>15. ~logExcused' => ~(end \in {"refused", "half", "torn"}) \/ logOnRows
  BY <1>2
<1>16. LogOnLoad'
  <2>1. CASE LogStopped(end)
    BY <1>2, <2>1 DEF LogMemory, LogOnLoad
  <2>2. CASE ~LogStopped(end) /\ ~logOnRows /\ logExcused'
    BY <1>2, <2>2 DEF LogOnLoad
  <2>3. CASE ~LogStopped(end) /\ (logOnRows \/ ~logExcused')
    <3>1. logLatched' = logLatched \cup dec.latch \cup out.latch
      BY <1>2, <2>3
    <3>4. logOnRows' = logOnRows /\ (~logOnRows => ~logExcused /\ dec.faults # 1 /\ out.faults # 1)
      <4>1. dec.faults = 1 \/ out.faults = 1 => dec.faults + out.faults > 0
        BY <1>3, <1>4
      <4> QED
        BY <1>2, <1>13, <2>3, <4>1
    <3>2. \/ decisionsMem' \in {NotRead, decisionsDoc'}
          \/ logOnRows' /\ "decisions" \in logLatched'
      <4>1. CASE ~decisions.written
        <5>1. decisionsDoc' = decisionsDoc
          BY <1>2, <4>1
        <5>2. decisionsMem' = dec.shown
          BY <1>2, <2>3, <4>1 DEF LogMemory
        <5> QED
          BY <1>3, <3>1, <3>4, <5>1, <5>2
      <4>2. CASE decisions.written /\ logOnRows /\ end # "done"
        BY <1>2, <2>3, <4>2 DEF LogMemory
      <4>3. CASE decisions.written /\ ~(logOnRows /\ end # "done")
        <5>1. decisionsMem' = nextD
          BY <1>2, <2>3, <4>3 DEF LogMemory
        <5>2. end \in {"done", "lost"}
          BY <1>15, <2>3, <4>3
        <5> QED
          BY <1>2, <4>3, <5>1, <5>2
      <4> QED
        BY <4>1, <4>2, <4>3
    <3>3. \/ outcomesMem' \in {NotRead, outcomesDoc'}
          \/ logOnRows' /\ "outcomes" \in logLatched'
      <4>1. CASE ~outcomes.written
        <5>1. outcomesDoc' = outcomesDoc
          BY <1>2, <4>1
        <5>2. outcomesMem' = out.shown
          BY <1>2, <2>3, <4>1 DEF LogMemory
        <5> QED
          BY <1>4, <3>1, <3>4, <5>1, <5>2
      <4>2. CASE outcomes.written /\ logOnRows /\ end # "done"
        BY <1>2, <2>3, <4>2 DEF LogMemory
      <4>3. CASE outcomes.written /\ ~(logOnRows /\ end # "done")
        <5>1. outcomesMem' = nextO
          BY <1>2, <2>3, <4>3 DEF LogMemory
        <5>2. end \in {"done", "lost"}
          BY <1>15, <2>3, <4>3
        <5> QED
          BY <1>2, <4>3, <5>1, <5>2
      <4> QED
        BY <4>1, <4>2, <4>3
    <3> QED
      BY <3>2, <3>3 DEF LogOnLoad
  <2> QED
    BY <1>5, <2>1, <2>2, <2>3
<1>17. ~logExcused' /\ (decisions.written \/ outcomes.written) =>
          dec.shown = decisionsDoc /\ out.shown = outcomesDoc
  BY <1>14
<1>18. ~logExcused' /\ end \in {"done", "lost"} =>
          /\ decisionsDoc' = IF decisions.written THEN decisions.to ELSE decisionsDoc
          /\ outcomesDoc' = IF outcomes.written THEN outcomes.to ELSE outcomesDoc
  BY <1>1, <1>2
<1>19. ~logExcused' /\ ~UNCHANGED <<decisionsDoc, outcomesDoc>> =>
          end \in {"done", "lost"} /\ (decisions.written \/ outcomes.written)
  BY <1>2, <1>15
<1> QED
  BY <1>7, <1>8, <1>10, <1>11, <1>12, <1>13, <1>16, <1>17, <1>18, <1>19 DEF LogSound

\* What is unwritable is not written, and half a write is of two files.
LEMMA EndsAre ==
    ASSUME NEW dec, NEW out, NEW twoFiles \in BOOLEAN, NEW end \in Ends(dec, out, twoFiles)
    PROVE  /\ end \in {"done", "refused", "lost", "half", "torn", "unwritable", "conflict"}
           /\ end # "conflict"
           /\ end # "unwritable" => logLatched \cup dec.latch \cup out.latch = {}
           /\ end \in {"half", "torn"} => twoFiles
  BY DEF Ends, LogEnds, BothWritable

\* A change of one decision into another leaves the rest.
LEMMA OneGrounded ==
    ASSUME NEW thesis, NEW listed, GroundedAll(thesis, listed), NEW d \in DecisionIds, NEW decision,
           decision = NoDecision \/ Grounded(thesis, decision)
    PROVE  /\ GroundedAll(thesis, [listed EXCEPT ![d] = decision])
           /\ Recorded([listed EXCEPT ![d] = decision]) \ {d} = Recorded(listed) \ {d}
           /\ d \in Recorded([listed EXCEPT ![d] = decision]) <=> decision # NoDecision
<1>1. PICK next : next = [listed EXCEPT ![d] = decision]
  OBVIOUS
<1>2. /\ next = [e \in DecisionIds |-> next[e]] /\ next[d] = decision
      /\ \A e \in DecisionIds \ {d} : next[e] = listed[e]
  BY <1>1 DEF GroundedAll
<1>3. GroundedAll(thesis, next)
  BY <1>2 DEF GroundedAll
<1>4. Recorded(next) \ {d} = Recorded(listed) \ {d} /\ (d \in Recorded(next) <=> decision # NoDecision)
  BY <1>2 DEF Recorded
<1> QED
  BY <1>1, <1>3, <1>4

\* With one review more a log is still one of reviews, and has reviewed that decision too.
LEMMA OneReviewed ==
    ASSUME NEW listed, ReviewedAll(listed), NEW d \in DecisionIds, NEW review \in ReviewsMade
    PROVE  /\ ReviewedAll([listed EXCEPT ![d] = review])
           /\ Reviewed([listed EXCEPT ![d] = review]) = Reviewed(listed) \cup {d}
<1>1. PICK next : next = [listed EXCEPT ![d] = review]
  OBVIOUS
<1>2. /\ next = [e \in DecisionIds |-> next[e]] /\ next[d] = review
      /\ \A e \in DecisionIds \ {d} : next[e] = listed[e]
  BY <1>1 DEF ReviewedAll
<1>3. ReviewedAll(next)
  BY <1>2 DEF ReviewedAll
<1>4. Reviewed(next) = Reviewed(listed) \cup {d}
  BY <1>2, ReviewIsThere DEF Reviewed
<1> QED
  BY <1>1, <1>3, <1>4

\* PATCH /outcomes/{id}.
LEMMA PatchOutcomeKeeps ==
    ASSUME DecisionInv, PatchOutcome
    PROVE  DecisionInv'
<1>1. PICK dec \in DecisionLoads, out \in OutcomeLoads : \E end \in Ends(dec, out, FALSE),
         d \in Reviewed(out.shown) :
            /\ LogWrite({}, dec, out, Same,
                        IF end = "unwritable" THEN Same
                        ELSE [written |-> TRUE, to |-> [out.shown EXCEPT ![d] = Revised(@)]],
                        end)
            /\ UNCHANGED <<taken, acked, evicted, orphaned>>
  BY DEF PatchOutcome
<1>2. PICK end \in Ends(dec, out, FALSE), d \in Reviewed(out.shown) :
            /\ LogWrite({}, dec, out, Same,
                        IF end = "unwritable" THEN Same
                        ELSE [written |-> TRUE, to |-> [out.shown EXCEPT ![d] = Revised(@)]],
                        end)
            /\ UNCHANGED <<taken, acked, evicted, orphaned>>
  BY <1>1
<1>3. ReviewedAll(out.shown) /\ d \in DecisionIds /\ out.shown[d] \in ReviewsMade
  BY OutcomeLoadIs DEF Reviewed, ReviewedAll
<1>4. PICK review : review = Revised(out.shown[d])
  OBVIOUS
<1>5. review \in ReviewsMade
  BY <1>3, <1>4 DEF ReviewsMade, Revised
<1>6. PICK next : next = [out.shown EXCEPT ![d] = review]
  OBVIOUS
<1>7. ReviewedAll(next) /\ Reviewed(next) = Reviewed(out.shown) \cup {d} /\ d \in Reviewed(out.shown)
  BY <1>3, <1>5, <1>6, OneReviewed
<1>8. PICK decisions, outcomes :
        /\ decisions = Same
        /\ outcomes = IF end = "unwritable" THEN Same ELSE [written |-> TRUE, to |-> next]
  OBVIOUS
<1>9. LogWrite({}, dec, out, decisions, outcomes, end)
  BY <1>2, <1>4, <1>6, <1>8
<1>10. /\ decisions.written = FALSE /\ outcomes.written = (end # "unwritable")
       /\ end # "unwritable" => outcomes.to = next
  BY <1>8 DEF Same
<1>11. WriteFits(dec, out, decisions, outcomes, end) /\ taken' \in Nat
  BY <1>2, <1>7, <1>10, EndsAre DEF WriteFits, DecisionInv, DecisionTypeOK
<1>12. LogSound(dec, out, decisions, outcomes, end)
  BY <1>9, <1>11, LogWriteKeeps
<1>13. ~logExcused' /\ ~UNCHANGED <<decisionsDoc, outcomesDoc>> =>
          decisionsDoc' = decisionsDoc /\ Reviewed(outcomesDoc') = Reviewed(outcomesDoc)
  BY <1>7, <1>10, <1>12 DEF LogSound
<1>14. LogIsWhole'
  BY <1>2, <1>12, <1>13 DEF DecisionInv, LogSound, LogIsWhole, Recorded, Reviewed
<1> QED
  BY <1>12, <1>14 DEF DecisionInv, LogSound

\* PATCH /decisions/{id}.
LEMMA LinkTradeKeeps ==
    ASSUME DecisionInv, LinkTrade
    PROVE  DecisionInv'
<1>1. PICK dec \in DecisionLoads, out \in OutcomeLoads : \E end \in Ends(dec, out, FALSE),
         d \in Recorded(dec.shown), tied \in BOOLEAN :
            /\ LogWrite({}, dec, out,
                        IF end = "unwritable" THEN Same
                        ELSE [written |-> TRUE, to |-> [dec.shown EXCEPT ![d].linked = tied]],
                        Same, end)
            /\ UNCHANGED <<taken, acked, evicted, orphaned>>
  BY ZenonT(40) DEF LinkTrade
<1>2. PICK end \in Ends(dec, out, FALSE), d \in Recorded(dec.shown), tied \in BOOLEAN :
            /\ LogWrite({}, dec, out,
                        IF end = "unwritable" THEN Same
                        ELSE [written |-> TRUE, to |-> [dec.shown EXCEPT ![d].linked = tied]],
                        Same, end)
            /\ UNCHANGED <<taken, acked, evicted, orphaned>>
  BY <1>1
<1>3. GroundedAll(editions, dec.shown) /\ d \in DecisionIds /\ Grounded(editions, dec.shown[d])
  BY DecisionLoadIs DEF Recorded, GroundedAll
<1>4. PICK decision : decision = [dec.shown[d] EXCEPT !.linked = tied]
  OBVIOUS
<1>5. Grounded(editions, decision)
  <2>1. PICK old : old = dec.shown[d]
    OBVIOUS
  <2>2. old \in DecisionsMade /\ decision = [old EXCEPT !.linked = tied]
    BY <1>3, <1>4, <2>1 DEF Grounded
  <2>3. /\ decision \in DecisionsMade /\ decision.version = old.version
        /\ decision.pinned = old.pinned /\ decision.snapshot = old.snapshot
    BY <2>2 DEF DecisionsMade
  <2> QED
    BY <1>3, <2>1, <2>3 DEF Grounded
<1>6. PICK next : next = [dec.shown EXCEPT ![d] = decision]
  OBVIOUS
<1>7. GroundedAll(editions, next) /\ Recorded(next) = Recorded(dec.shown)
  <2>1. /\ GroundedAll(editions, next) /\ Recorded(next) \ {d} = Recorded(dec.shown) \ {d}
        /\ d \in Recorded(next) <=> decision # NoDecision
    BY <1>3, <1>5, <1>6, OneGrounded
  <2> QED
    BY <1>5, <2>1, DecisionIsThere
<1>8. PICK decisions, outcomes :
        /\ outcomes = Same
        /\ decisions = IF end = "unwritable" THEN Same ELSE [written |-> TRUE, to |-> next]
  OBVIOUS
<1>9. LogWrite({}, dec, out, decisions, outcomes, end)
  BY <1>2, <1>4, <1>6, <1>8
<1>10. /\ outcomes.written = FALSE /\ decisions.written = (end # "unwritable")
       /\ end # "unwritable" => decisions.to = next
  BY <1>8 DEF Same
<1>11. WriteFits(dec, out, decisions, outcomes, end) /\ taken' \in Nat
  BY <1>2, <1>7, <1>10, EndsAre DEF WriteFits, DecisionInv, DecisionTypeOK
<1>12. LogSound(dec, out, decisions, outcomes, end)
  BY <1>9, <1>11, LogWriteKeeps
<1>13. ~logExcused' /\ ~UNCHANGED <<decisionsDoc, outcomesDoc>> =>
          outcomesDoc' = outcomesDoc /\ Recorded(decisionsDoc') = Recorded(decisionsDoc)
  BY <1>7, <1>10, <1>12 DEF LogSound
<1>14. LogIsWhole'
  BY <1>2, <1>12, <1>13 DEF DecisionInv, LogSound, LogIsWhole, Recorded, Reviewed
<1> QED
  BY <1>12, <1>14 DEF DecisionInv, LogSound

\* DELETE /decisions/{id}.
LEMMA DeleteDecisionKeeps ==
    ASSUME DecisionInv, DeleteDecision
    PROVE  DecisionInv'
<1>1. PICK dec \in DecisionLoads, out \in OutcomeLoads : \E d \in Recorded(dec.shown) :
      LET cascade == Cascaded(out.shown, d)
          others == [e \in DecisionIds |-> IF e \in cascade THEN NoOutcome ELSE out.shown[e]] IN
      \E end \in Ends(dec, out, cascade # {} /\ ~logOnRows) :
        /\ LogWrite({}, dec, out,
                    IF end = "unwritable" THEN Same
                    ELSE [written |-> TRUE, to |-> [dec.shown EXCEPT ![d] = NoDecision]],
                    IF end = "unwritable" \/ (end = "refused" /\ ~logOnRows)
                       \/ (end = "done" /\ cascade = {}) THEN Same ELSE [written |-> TRUE, to |-> others],
                    end)
        /\ acked' = IF end = "unwritable" THEN acked ELSE acked \ {d}
        /\ UNCHANGED <<taken, evicted, orphaned>>
  BY DEF DeleteDecision
<1>2. PICK d, cascade, keeps, next, end, decisions, outcomes :
        /\ d \in Recorded(dec.shown)
        /\ cascade = Cascaded(out.shown, d)
        /\ keeps = [e \in DecisionIds |-> IF e \in cascade THEN NoOutcome ELSE out.shown[e]]
        /\ next = [dec.shown EXCEPT ![d] = NoDecision]
        /\ end \in Ends(dec, out, cascade # {} /\ ~logOnRows)
        /\ decisions = IF end = "unwritable" THEN Same ELSE [written |-> TRUE, to |-> next]
        /\ outcomes = IF end = "unwritable" \/ (end = "refused" /\ ~logOnRows)
                         \/ (end = "done" /\ cascade = {}) THEN Same ELSE [written |-> TRUE, to |-> keeps]
        /\ LogWrite({}, dec, out, decisions, outcomes, end)
        /\ acked' = IF end = "unwritable" THEN acked ELSE acked \ {d}
        /\ UNCHANGED <<taken, evicted, orphaned>>
  BY <1>1
<1>3. GroundedAll(editions, dec.shown) /\ ReviewedAll(out.shown) /\ d \in DecisionIds
  BY <1>2, DecisionLoadIs, OutcomeLoadIs DEF Recorded
<1>4. GroundedAll(editions, next) /\ Recorded(next) = Recorded(dec.shown) \ {d}
  <2>1. /\ GroundedAll(editions, next) /\ Recorded(next) \ {d} = Recorded(dec.shown) \ {d}
        /\ d \in Recorded(next) <=> NoDecision # NoDecision
    BY <1>2, <1>3, OneGrounded
  <2> QED
    BY <2>1
<1>5. ReviewedAll(keeps) /\ Reviewed(keeps) = Reviewed(out.shown) \ {d}
  <2>1. keeps = [e \in DecisionIds |-> keeps[e]]
    BY <1>2
  <2>2. \A e \in DecisionIds : keeps[e] = IF e = d THEN NoOutcome ELSE out.shown[e]
    BY <1>2, <1>3 DEF Cascaded, Reviewed
  <2> QED
    BY <1>3, <2>1, <2>2 DEF ReviewedAll, Reviewed
<1>6. /\ decisions.written = (end # "unwritable")
      /\ end # "unwritable" => decisions.to = next
      /\ outcomes.written \in BOOLEAN
      /\ outcomes.written => outcomes.to = keeps /\ end # "unwritable"
      /\ end \in {"done", "lost"} /\ ~outcomes.written => cascade = {}
  BY <1>2 DEF Same
<1>7. /\ end \in {"done", "refused", "lost", "half", "torn", "unwritable", "conflict"}
      /\ end # "conflict" /\ (end \in {"half", "torn"} => ~logOnRows)
      /\ end # "unwritable" => logLatched \cup dec.latch \cup out.latch = {}
  <2>1. PICK twoFiles \in BOOLEAN : twoFiles = (cascade # {} /\ ~logOnRows)
    OBVIOUS
  <2>2. end \in Ends(dec, out, twoFiles)
    BY <1>2, <2>1
  <2> QED
    BY <2>1, <2>2, EndsAre
<1>8. WriteFits(dec, out, decisions, outcomes, end) /\ taken' \in Nat
  BY <1>2, <1>4, <1>5, <1>6, <1>7 DEF WriteFits, DecisionInv, DecisionTypeOK
<1>9. LogSound(dec, out, decisions, outcomes, end)
  BY <1>2, <1>8, LogWriteKeeps
<1>10. ~logExcused' /\ ~UNCHANGED <<decisionsDoc, outcomesDoc>> =>
          /\ Recorded(decisionsDoc') = Recorded(decisionsDoc) \ {d} /\ d \notin acked'
          /\ Reviewed(outcomesDoc') = Reviewed(outcomesDoc) \ {d}
  <2>1. SUFFICES ASSUME ~logExcused', ~UNCHANGED <<decisionsDoc, outcomesDoc>>
                 PROVE  /\ Recorded(decisionsDoc') = Recorded(decisionsDoc) \ {d} /\ d \notin acked'
                        /\ Reviewed(outcomesDoc') = Reviewed(outcomesDoc) \ {d}
    OBVIOUS
  <2>2. /\ dec.shown = decisionsDoc /\ out.shown = outcomesDoc /\ end \in {"done", "lost"}
        /\ decisionsDoc' = IF decisions.written THEN decisions.to ELSE decisionsDoc
        /\ outcomesDoc' = IF outcomes.written THEN outcomes.to ELSE outcomesDoc
    BY <1>9, <2>1 DEF LogSound
  <2>3. Recorded(decisionsDoc') = Recorded(decisionsDoc) \ {d} /\ d \notin acked'
    BY <1>2, <1>4, <1>6, <2>2
  <2>4. cascade = {} => d \notin Reviewed(outcomesDoc)
    BY <1>2, <2>2 DEF Cascaded
  <2> QED
    BY <1>5, <1>6, <2>2, <2>3, <2>4
<1>11. acked' \subseteq acked
  BY <1>2
<1>12. LogIsWhole'
  BY <1>2, <1>9, <1>10, <1>11 DEF DecisionInv, LogSound, LogIsWhole, Recorded, Reviewed
<1> QED
  BY <1>9, <1>12 DEF DecisionInv, LogSound

\* addDecision.
LEMMA AddDecisionKeeps ==
    ASSUME DecisionInv, NEW c \in Desks, AddDecision(c)
    PROVE  DecisionInv'
<1>1. PICK dec \in DecisionLoads, out \in OutcomeLoads : \E end \in Ends(dec, out, FALSE) :
        LET added == [dec.shown EXCEPT ![taken + 1] = Decision(desks[c])]
            over == Trimmed(added)
            next == [d \in DecisionIds |-> IF d \in over THEN NoDecision ELSE added[d]] IN
        /\ taken' = taken + 1
        /\ LogWrite({c}, dec, out,
                    IF end = "unwritable" THEN Same ELSE [written |-> TRUE, to |-> next],
                    Same, end)
        /\ acked' = IF end = "done" THEN acked \cup {taken + 1} ELSE acked
        /\ evicted' = IF end = "unwritable" THEN evicted ELSE evicted \cup over
        /\ UNCHANGED orphaned
  BY DEF AddDecision
<1>2. PICK added, over, next, end, decisions, outcomes :
        /\ added = [dec.shown EXCEPT ![taken + 1] = Decision(desks[c])]
        /\ over = Trimmed(added)
        /\ next = [d \in DecisionIds |-> IF d \in over THEN NoDecision ELSE added[d]]
        /\ end \in Ends(dec, out, FALSE)
        /\ decisions = IF end = "unwritable" THEN Same ELSE [written |-> TRUE, to |-> next]
        /\ outcomes = Same
        /\ taken' = taken + 1
        /\ LogWrite({c}, dec, out, decisions, outcomes, end)
        /\ acked' = IF end = "done" THEN acked \cup {taken + 1} ELSE acked
        /\ evicted' = IF end = "unwritable" THEN evicted ELSE evicted \cup over
        /\ UNCHANGED orphaned
  BY <1>1
<1>3. taken + 1 \in DecisionIds /\ desks[c].step = "decide" /\ taken \in Nat
  BY DecisionAssumption DEF AddDecision, DecisionIds, DecisionInv, DecisionTypeOK
<1>4. GroundedAll(editions, dec.shown) /\ Grounded(editions, Decision(desks[c]))
  BY <1>3, DecisionLoadIs DEF DecisionInv, DeskOK
<1>5. GroundedAll(editions, added) /\ Recorded(added) = Recorded(dec.shown) \cup {taken + 1}
  <2>1. PICK decision : decision = Decision(desks[c])
    OBVIOUS
  <2>2. /\ GroundedAll(editions, added)
        /\ Recorded(added) \ {taken + 1} = Recorded(dec.shown) \ {taken + 1}
        /\ taken + 1 \in Recorded(added) <=> decision # NoDecision
    BY <1>2, <1>3, <1>4, <2>1, OneGrounded
  <2> QED
    BY <1>4, <2>1, <2>2, DecisionIsThere
<1>6. GroundedAll(editions, next) /\ Recorded(next) = Recorded(added) \ over
  <2>1. next = [d \in DecisionIds |-> next[d]]
    BY <1>2
  <2>2. \A d \in DecisionIds : next[d] = IF d \in over THEN NoDecision ELSE added[d]
    BY <1>2
  <2> QED
    BY <1>5, <2>1, <2>2 DEF GroundedAll, Recorded
<1>7. /\ outcomes.written = FALSE /\ decisions.written = (end # "unwritable")
      /\ end # "unwritable" => decisions.to = next
  BY <1>2 DEF Same
<1>8. WriteFits(dec, out, decisions, outcomes, end) /\ taken' \in Nat
  <2>1. /\ end \in {"done", "refused", "lost", "half", "torn", "unwritable", "conflict"}
        /\ end # "conflict" /\ end \notin {"half", "torn"}
        /\ end # "unwritable" => logLatched \cup dec.latch \cup out.latch = {}
    BY <1>2, EndsAre
  <2>2. taken' \in Nat
    BY <1>2, <1>3
  <2> QED
    BY <1>6, <1>7, <2>1, <2>2 DEF WriteFits
<1>9. LogSound(dec, out, decisions, outcomes, end)
  BY <1>2, <1>8, LogWriteKeeps
<1>10. evicted \subseteq evicted' /\ (end = "done" => evicted' = evicted \cup over)
  BY <1>2
<1>11. ~logExcused' /\ end \in {"done", "lost"} =>
          outcomesDoc' = outcomesDoc /\ Recorded(decisionsDoc') \cup evicted' =
                                        Recorded(dec.shown) \cup {taken + 1} \cup evicted \cup over
  <2>1. end \in {"done", "lost"} => evicted' = evicted \cup over /\ decisions.written
    BY <1>2, <1>7
  <2> QED
    BY <1>5, <1>6, <1>7, <1>9, <2>1 DEF LogSound
<1>12. LogIsWhole'
  <2>1. SUFFICES ASSUME ~logExcused'
                 PROVE  /\ acked' \subseteq Recorded(decisionsDoc') \cup evicted'
                        /\ Reviewed(outcomesDoc') \subseteq Recorded(decisionsDoc') \cup orphaned' \cup evicted'
    BY DEF LogIsWhole, Recorded, Reviewed
  <2>2. /\ acked \subseteq Recorded(decisionsDoc) \cup evicted
        /\ Reviewed(outcomesDoc) \subseteq Recorded(decisionsDoc) \cup orphaned \cup evicted
    BY <1>9, <2>1 DEF DecisionInv, LogIsWhole, LogSound
  <2>3. CASE end \notin {"done", "lost"}
    <3>1. UNCHANGED <<decisionsDoc, outcomesDoc>> /\ acked' = acked
      BY <1>2, <1>9, <2>1, <2>3 DEF LogSound
    <3> QED
      BY <1>2, <1>10, <2>2, <3>1
  <2>4. CASE end \in {"done", "lost"}
    <3>1. dec.shown = decisionsDoc
      BY <1>7, <1>9, <2>1, <2>4 DEF LogSound
    <3>2. acked' \subseteq acked \cup {taken + 1}
      BY <1>2
    <3> QED
      BY <1>2, <1>11, <2>1, <2>2, <2>4, <3>1, <3>2
  <2> QED
    BY <2>3, <2>4
<1> QED
  BY <1>9, <1>12 DEF DecisionInv, LogSound

\* addOutcome.
LEMMA AddOutcomeKeeps ==
    ASSUME DecisionInv, NEW c \in Desks, AddOutcome(c)
    PROVE  DecisionInv'
<1>1. PICK dec \in DecisionLoads, out \in OutcomeLoads :
      LET d == desks[c].of
          conflict == d \in Reviewed(out.shown) IN
      \E end \in IF conflict THEN {"conflict"} ELSE Ends(dec, out, FALSE) :
        /\ LogWrite({c}, dec, out, Same,
                    IF end \in {"conflict", "unwritable"} THEN Same
                    ELSE [written |-> TRUE,
                          to |-> [out.shown EXCEPT ![d] = [market |-> desks[c].market, revised |-> FALSE,
                                                           graded |-> desks[c].graded]]],
                    end)
        /\ orphaned' = IF end \in {"done", "lost"} /\ d \notin Recorded(dec.shown)
                       THEN orphaned \cup {d} ELSE orphaned
        /\ UNCHANGED <<taken, acked, evicted>>
  BY DEF AddOutcome
<1>2. PICK d, review, next, end, decisions, outcomes :
        /\ d = desks[c].of
        /\ review = [market |-> desks[c].market, revised |-> FALSE, graded |-> desks[c].graded]
        /\ next = [out.shown EXCEPT ![d] = review]
        /\ end \in IF d \in Reviewed(out.shown) THEN {"conflict"} ELSE Ends(dec, out, FALSE)
        /\ decisions = Same
        /\ outcomes = IF end \in {"conflict", "unwritable"} THEN Same ELSE [written |-> TRUE, to |-> next]
        /\ LogWrite({c}, dec, out, decisions, outcomes, end)
        /\ orphaned' = IF end \in {"done", "lost"} /\ d \notin Recorded(dec.shown)
                       THEN orphaned \cup {d} ELSE orphaned
        /\ UNCHANGED <<taken, acked, evicted>>
  BY <1>1
<1>3. /\ d \in DecisionIds /\ desks[c].graded \in SUBSET Assumptions
      /\ desks[c].market \in {"none", "open", "closed"}
  <2>1. desks[c].step = "review"
    BY DEF AddOutcome
  <2> QED
    BY <1>2, <2>1 DEF DecisionInv, DeskOK
<1>4. ReviewedAll(out.shown) /\ review \in ReviewsMade
  BY <1>2, <1>3, OutcomeLoadIs DEF ReviewsMade
<1>5. ReviewedAll(next) /\ Reviewed(next) = Reviewed(out.shown) \cup {d}
  BY <1>2, <1>3, <1>4, OneReviewed
<1>6. /\ decisions.written = FALSE /\ outcomes.written = (end \notin {"conflict", "unwritable"})
      /\ outcomes.written => outcomes.to = next
  BY <1>2 DEF Same
<1>7. /\ end \in {"done", "refused", "lost", "half", "torn", "unwritable", "conflict"}
      /\ end \notin {"half", "torn"}
      /\ end \notin {"conflict", "unwritable"} => logLatched \cup dec.latch \cup out.latch = {}
  BY <1>2, EndsAre
<1>8. WriteFits(dec, out, decisions, outcomes, end) /\ taken' \in Nat
  BY <1>2, <1>5, <1>6, <1>7 DEF WriteFits, DecisionInv, DecisionTypeOK
<1>9. LogSound(dec, out, decisions, outcomes, end)
  BY <1>2, <1>8, LogWriteKeeps
<1>10. ~logExcused' /\ ~UNCHANGED <<decisionsDoc, outcomesDoc>> =>
          /\ decisionsDoc' = decisionsDoc /\ Reviewed(outcomesDoc') = Reviewed(outcomesDoc) \cup {d}
          /\ d \in Recorded(decisionsDoc) \cup orphaned'
  BY <1>2, <1>5, <1>6, <1>9 DEF LogSound
<1>11. orphaned \subseteq orphaned'
  BY <1>2
<1>12. LogIsWhole'
  BY <1>2, <1>9, <1>10, <1>11 DEF DecisionInv, LogSound, LogIsWhole, Recorded, Reviewed
<1> QED
  BY <1>9, <1>12 DEF DecisionInv, LogSound

\* What is composed, edited or read without a write leaves the documents.
LEMMA ComposeDecisionKeeps ==
    ASSUME DecisionInv, NEW c \in Desks, ComposeDecision(c)
    PROVE  DecisionInv'
<1>1. PICK pin \in VersionsOf(editions) \cup {Unpinned}, tied \in {"none", trade} \ {"deleted"} :
        /\ desks' = [desks EXCEPT ![c] =
                       [step |-> "decide", pinned |-> pin # Unpinned,
                        version |-> IF pin = Unpinned THEN HeadVersion(editions) ELSE pin,
                        snapshot |-> Last(editions), linked |-> tied # "none"]]
        /\ UNCHANGED <<logOnRows, editions, trade, decisionsDoc, outcomesDoc, decisionsMem, outcomesMem,
                       logLatched, taken, acked, evicted, logExcused, orphaned>>
  BY DEF ComposeDecision
<1>2. PICK desk : desk = [step |-> "decide", pinned |-> pin # Unpinned,
                          version |-> IF pin = Unpinned THEN HeadVersion(editions) ELSE pin,
                          snapshot |-> Last(editions), linked |-> tied # "none"]
  OBVIOUS
<1>3. PICK n : n = Len(editions)
  OBVIOUS
<1>4. /\ n \in Nat \ {0} /\ editions \in Editions /\ Last(editions) = editions[n]
      /\ \A i \in 1..n : editions[i] \in SUBSET Assumptions
  BY <1>3 DEF DecisionInv, DecisionTypeOK, Editions, Last
<1>5. /\ pin = Unpinned \/ (pin \in Nat /\ pin < n)
      /\ HeadVersion(editions) = n - 1
  BY <1>3, <1>4 DEF VersionsOf, HeadVersion
<1>6. /\ desk.step = "decide" /\ desk.pinned = (pin # Unpinned)
      /\ desk.version = IF pin = Unpinned THEN n - 1 ELSE pin
      /\ desk.snapshot = editions[n] /\ desk.linked = (tied # "none")
  BY <1>2, <1>4, <1>5
<1>7. desk.version \in Nat /\ desk.version < n
  BY <1>4, <1>5, <1>6
<1>8. ~desk.pinned => desk.version + 1 = n
  <2>1. ~desk.pinned => pin = Unpinned
    BY <1>6, Zenon
  <2>2. pin = Unpinned => desk.version = n - 1
    BY <1>6
  <2> QED
    BY <1>4, <2>1, <2>2
<1>9. Decision(desk) \in DecisionsMade
  BY <1>4, <1>6, <1>7 DEF Decision, DecisionsMade
<1>10. Grounded(editions, Decision(desk))
  <2>1. /\ Decision(desk).version = desk.version /\ Decision(desk).pinned = desk.pinned
        /\ Decision(desk).snapshot = desk.snapshot
    BY DEF Decision
  <2> QED
    BY <1>3, <1>6, <1>7, <1>8, <1>9, <2>1 DEF Grounded
<1>11. DeskOK(editions, desk)
  BY <1>6, <1>10 DEF DeskOK
<1>12. /\ desks' = [e \in Desks |-> desks'[e]] /\ desks'[c] = desk
       /\ \A e \in Desks \ {c} : desks'[e] = desks[e]
  BY <1>1, <1>2 DEF DecisionInv
<1>13. \A e \in Desks : DeskOK(editions', desks'[e])
  BY <1>1, <1>11, <1>12 DEF DecisionInv
<1>14. DecisionTypeOK' /\ LogOnLoad' /\ LogIsWhole'
  BY <1>1 DEF DecisionInv, DecisionTypeOK, LogOnLoad, LogIsWhole, Recorded, Reviewed
<1>15. /\ GroundedAll(editions', decisionsDoc') /\ ReviewedAll(outcomesDoc')
       /\ decisionsMem' = NotRead \/ GroundedAll(editions', decisionsMem')
       /\ outcomesMem' = NotRead \/ ReviewedAll(outcomesMem')
  BY <1>1 DEF DecisionInv
<1> QED
  BY <1>12, <1>13, <1>14, <1>15 DEF DecisionInv

\* A review of an outcome is composed from the decision it is of, and written.
LEMMA ComposeOutcomeKeeps ==
    ASSUME DecisionInv, NEW c \in Desks, ComposeOutcome(c)
    PROVE  DecisionInv'
<1>1. PICK dec, graded, d :
        /\ dec \in DecisionLoads /\ d \in Recorded(dec.shown)
        /\ dec.faults = 0
        /\ graded \in SUBSET Assumptions
        /\ decisionsMem' = dec.shown
        /\ desks' = [desks EXCEPT ![c] = [step |-> "review", of |-> d, graded |-> graded,
                                          market |-> MarketOutcome(dec.shown[d])]]
        /\ UNCHANGED <<logOnRows, editions, trade, decisionsDoc, outcomesDoc, outcomesMem, logLatched,
                       taken, acked, evicted, logExcused, orphaned>>
  BY DEF ComposeOutcome
<1>2. PICK desk : desk = [step |-> "review", of |-> d, graded |-> graded,
                          market |-> MarketOutcome(dec.shown[d])]
  OBVIOUS
<1>3. GroundedAll(editions, dec.shown)
  BY <1>1, DecisionLoadIs
<1>4. MarketOutcome(dec.shown[d]) \in {"none", "open", "closed"}
  BY DEF MarketOutcome, DecisionInv, DecisionTypeOK
<1>5. DeskOK(editions, desk)
  BY <1>1, <1>2, <1>4 DEF DeskOK, Recorded
<1>6. /\ desks' = [e \in Desks |-> desks'[e]] /\ desks'[c] = desk
      /\ \A e \in Desks \ {c} : desks'[e] = desks[e]
  BY <1>1, <1>2 DEF DecisionInv
<1>7. \A e \in Desks : DeskOK(editions', desks'[e])
  BY <1>1, <1>5, <1>6 DEF DecisionInv
<1>8. \/ dec.shown = decisionsDoc
      \/ logOnRows /\ "decisions" \in logLatched
      \/ ~logOnRows /\ logExcused
  <2>1. dec.latch = {}
    <3>1. \/ dec = [shown |-> decisionsMem, latch |-> {}, faults |-> 0]
          \/ dec = [shown |-> decisionsDoc, latch |-> {}, faults |-> 0]
          \/ dec.faults = 1
      BY <1>1 DEF DecisionLoads, LoadsOf
    <3> QED
      BY <1>1, <3>1
  <2> QED
    BY <1>1, <2>1, DecisionLoadIs
<1>9. LogOnLoad'
  BY <1>1, <1>8 DEF DecisionInv, LogOnLoad
<1>10. DecisionTypeOK' /\ LogIsWhole'
  BY <1>1 DEF DecisionInv, DecisionTypeOK, LogIsWhole, Recorded, Reviewed
<1>11. /\ GroundedAll(editions', decisionsDoc') /\ ReviewedAll(outcomesDoc')
       /\ decisionsMem' = NotRead \/ GroundedAll(editions', decisionsMem')
       /\ outcomesMem' = NotRead \/ ReviewedAll(outcomesMem')
  BY <1>1, <1>3 DEF DecisionInv
<1> QED
  BY <1>6, <1>7, <1>9, <1>10, <1>11 DEF DecisionInv

\* A listing loads the decisions and the reviews, and writes nothing.
LEMMA ListLogKeeps ==
    ASSUME DecisionInv, ListLog
    PROVE  DecisionInv'
<1>1. PICK dec \in DecisionLoads, out \in OutcomeLoads :
        /\ decisionsMem' = dec.shown /\ outcomesMem' = out.shown
        /\ logLatched' = logLatched \cup dec.latch \cup out.latch
        /\ logExcused' = (logExcused \/ (~logOnRows /\ dec.faults + out.faults > 0))
        /\ UNCHANGED <<logOnRows, editions, trade, decisionsDoc, outcomesDoc, desks, taken,
                       acked, evicted, orphaned>>
  BY DEF ListLog
<1>2. /\ GroundedAll(editions, dec.shown) /\ dec.faults \in {0, 1}
      /\ \/ dec.shown = decisionsDoc
         \/ logOnRows /\ "decisions" \in logLatched \cup dec.latch
         \/ ~logOnRows /\ (logExcused \/ dec.faults = 1)
  BY DecisionLoadIs
<1>3. /\ ReviewedAll(out.shown) /\ out.faults \in {0, 1}
      /\ \/ out.shown = outcomesDoc
         \/ logOnRows /\ "outcomes" \in logLatched \cup out.latch
         \/ ~logOnRows /\ (logExcused \/ out.faults = 1)
  BY OutcomeLoadIs
<1>4. dec.faults = 1 \/ out.faults = 1 => dec.faults + out.faults > 0
  BY <1>2, <1>3
<1>5. LogOnLoad'
  BY <1>1, <1>2, <1>3, <1>4 DEF LogOnLoad
<1>6. DecisionTypeOK' /\ LogIsWhole'
  BY <1>1 DEF DecisionInv, DecisionTypeOK, LogIsWhole, Recorded, Reviewed
<1>7. /\ GroundedAll(editions', decisionsDoc') /\ ReviewedAll(outcomesDoc')
      /\ decisionsMem' = NotRead \/ GroundedAll(editions', decisionsMem')
      /\ outcomesMem' = NotRead \/ ReviewedAll(outcomesMem')
      /\ desks' = [c \in Desks |-> desks'[c]] /\ \A c \in Desks : DeskOK(editions', desks'[c])
  BY <1>1, <1>2, <1>3 DEF DecisionInv
<1> QED
  BY <1>5, <1>6, <1>7 DEF DecisionInv

\* A new edition leaves those there were.
LEMMA EditThesisKeeps ==
    ASSUME DecisionInv, EditThesis
    PROVE  DecisionInv'
<1>1. PICK items \in SUBSET Assumptions : editions' = Append(editions, items)
  BY DEF EditThesis
<1>2. UNCHANGED <<logOnRows, trade, decisionsDoc, outcomesDoc, decisionsMem, outcomesMem, logLatched,
                  desks, taken, acked, evicted, logExcused, orphaned>>
  BY DEF EditThesis
<1>3. editions \in Editions
  BY DEF DecisionInv, DecisionTypeOK
<1>4. /\ editions' \in Editions /\ editions' # <<>> /\ Len(editions) \in Nat
      /\ Len(editions') = Len(editions) + 1
      /\ \A i \in 1..Len(editions) : editions'[i] = editions[i]
  BY <1>1, <1>3 DEF Editions
<1>5. ASSUME NEW decision, Grounded(editions, decision) PROVE Grounded(editions', decision)
  <2>1. decision \in DecisionsMade /\ decision.version \in Nat /\ decision.version < Len(editions)
    BY <1>5 DEF Grounded, DecisionsMade
  <2>2. decision.version < Len(editions') /\ decision.version + 1 \in 1..Len(editions)
    BY <1>4, <2>1
  <2>3. editions'[decision.version + 1] = editions[decision.version + 1]
    BY <1>4, <2>2
  <2> QED
    BY <1>5, <2>1, <2>2, <2>3 DEF Grounded
<1>6. DecisionTypeOK' /\ LogOnLoad' /\ LogIsWhole'
  BY <1>2, <1>4 DEF DecisionInv, DecisionTypeOK, LogOnLoad, LogIsWhole, Recorded, Reviewed
<1>7. ASSUME NEW listed, GroundedAll(editions, listed) PROVE GroundedAll(editions', listed)
  BY <1>5, <1>7 DEF GroundedAll
<1>8. \A c \in Desks : DeskOK(editions', desks'[c])
  BY <1>2, <1>5 DEF DecisionInv, DeskOK
<1>9. /\ GroundedAll(editions', decisionsDoc') /\ ReviewedAll(outcomesDoc')
      /\ decisionsMem' = NotRead \/ GroundedAll(editions', decisionsMem')
      /\ outcomesMem' = NotRead \/ ReviewedAll(outcomesMem')
      /\ desks' = [c \in Desks |-> desks'[c]]
  BY <1>2, <1>7 DEF DecisionInv
<1> QED
  BY <1>6, <1>8, <1>9 DEF DecisionInv

\* The trade moves on, the process starts again, and nothing happens.
LEMMA LogRestKeeps ==
    ASSUME DecisionInv, MoveTrade \/ RestartLog \/ UNCHANGED decisionVars
    PROVE  DecisionInv'
<1>1. /\ trade' \in {"open", "closed", "deleted"}
      /\ UNCHANGED <<logOnRows, editions, decisionsDoc, outcomesDoc, taken, acked, evicted, logExcused,
                     orphaned>>
      /\ \/ UNCHANGED <<decisionsMem, outcomesMem, logLatched, desks>>
         \/ /\ decisionsMem' = NotRead /\ outcomesMem' = NotRead
            /\ desks' = [c \in Desks |-> Free]
  <2>1. CASE MoveTrade
    BY <2>1 DEF MoveTrade, DecisionInv, DecisionTypeOK
  <2>2. CASE RestartLog
    BY <2>2 DEF RestartLog, DecisionInv, DecisionTypeOK
  <2>3. CASE UNCHANGED decisionVars
    BY <2>3 DEF decisionVars, DecisionInv, DecisionTypeOK
  <2> QED
    BY <2>1, <2>2, <2>3
<1>2. DecisionTypeOK' /\ LogOnLoad' /\ LogIsWhole'
  BY <1>1 DEF DecisionInv, DecisionTypeOK, LogOnLoad, LogIsWhole, Recorded, Reviewed
<1>3. DeskOK(editions, Free)
  BY DEF DeskOK, Free
<1>4. \A c \in Desks : DeskOK(editions', desks'[c])
  BY <1>1, <1>3 DEF DecisionInv
<1>5. /\ GroundedAll(editions', decisionsDoc') /\ ReviewedAll(outcomesDoc')
      /\ decisionsMem' = NotRead \/ GroundedAll(editions', decisionsMem')
      /\ outcomesMem' = NotRead \/ ReviewedAll(outcomesMem')
      /\ desks' = [c \in Desks |-> desks'[c]]
  BY <1>1 DEF DecisionInv
<1> QED
  BY <1>2, <1>4, <1>5 DEF DecisionInv

(***************************************************************************)
(* What was decided stands (decision_store.go, decisions.go, outcomes.go): *)
(* the decisions that were acknowledged, the reviews that go with them, and*)
(* the snapshot of the version that a decision names; for any number of    *)
(* requests being composed, editions of the thesis, refused, lost or half  *)
(* done writes, failed reads and starts.                                   *)
(***************************************************************************)
THEOREM DecisionsStandAsMade == DecisionSpec => []DecisionsStand
<1>1. DecisionInit => DecisionInv
  <2> SUFFICES ASSUME DecisionInit PROVE DecisionInv
    OBVIOUS
  <2>1. GroundedAll(editions, decisionsDoc) /\ ReviewedAll(outcomesDoc)
    BY DEF DecisionInit, GroundedAll, ReviewedAll, NoDecisions, NoOutcomes
  <2>2. DeskOK(editions, Free)
    BY DEF DeskOK, Free
  <2>3. desks = [c \in Desks |-> desks[c]] /\ \A c \in Desks : DeskOK(editions, desks[c])
    BY <2>2 DEF DecisionInit
  <2>4. DecisionTypeOK
    <3>1. <<Assumptions>> \in Seq(SUBSET Assumptions) /\ <<Assumptions>> # <<>>
      OBVIOUS
    <3>2. logOnRows \in BOOLEAN
      BY DecisionAssumption DEF DecisionInit
    <3> QED
      BY <3>1, <3>2 DEF DecisionInit, DecisionTypeOK, Editions
  <2>5. LogOnLoad
    BY DEF DecisionInit, LogOnLoad
  <2>6. Reviewed(outcomesDoc) = {}
    BY DEF DecisionInit, Reviewed, NoOutcomes
  <2>7. LogIsWhole
    BY <2>6 DEF DecisionInit, LogIsWhole
  <2> QED
    BY <2>1, <2>3, <2>4, <2>5, <2>7 DEF DecisionInv, DecisionInit
<1>2. DecisionInv /\ [DecisionNext]_decisionVars => DecisionInv'
  <2> SUFFICES ASSUME DecisionInv, [DecisionNext]_decisionVars PROVE DecisionInv'
    OBVIOUS
  <2> QED
    BY ListLogKeeps, EditThesisKeeps, LogRestKeeps, LinkTradeKeeps, DeleteDecisionKeeps,
       PatchOutcomeKeeps, ComposeDecisionKeeps, AddDecisionKeeps, ComposeOutcomeKeeps,
       AddOutcomeKeeps DEF DecisionNext
<1>3. DecisionInv => DecisionsStand
  BY DEF DecisionInv, DecisionsStand, SnapshotIsTheVersion, Recorded, GroundedAll, Grounded
<1> QED
  BY <1>1, <1>2, <1>3, PTL DEF DecisionSpec

-----------------------------------------------------------------------------
(***************************************************************************)
(* Portfolios, their snapshots and their reviews (PortfolioBook). A read   *)
(* loads a document and changes nothing else that counts: what the next    *)
(* operation works on, Working, is memory, or the document that the next   *)
(* load finds.                                                             *)
(***************************************************************************)
Working(k) ==
    IF buckets[k].loaded /\ ~buckets[k].err THEN buckets[k].items ELSE docs[k]

BookTypeOK ==
    /\ docs = [k \in Docs |-> docs[k]]
    /\ buckets = [k \in Docs |-> buckets[k]]
    /\ \A k \in Docs :
        /\ buckets[k] = [loaded |-> buckets[k].loaded, items |-> buckets[k].items, err |-> buckets[k].err]
        /\ buckets[k].err => buckets[k] = Unreadable
    /\ asks = [r \in Requests |-> asks[r]]
    /\ papersTold = [k \in Papers |-> papersTold[k]]
    /\ bookWrites \in Nat /\ second \in Nat

\* A version that was answered, and any other portfolio of its id: never an older one, and of one
\* version only this one.
Precedes(s, p) == p.id = s.id => p.version >= s.version /\ (p.version = s.version => p = s)
Leads(s, items) ==
    /\ \A p \in items : Precedes(s, p)
    /\ s.id \in deletions \/ \E p \in items : p.id = s.id

PortfolioOK(p) == p.id \in 0..bookWrites /\ p.version \in Nat

\* What was answered leads to the document and to memory, and memory leads to the document, which
\* is ahead of it when a commit has lost its answer.
PortfoliosOK ==
    /\ \A p \in docs["portfolios"] \cup Working("portfolios") \cup shown : PortfolioOK(p)
    /\ \A p, q \in docs["portfolios"] : p.id = q.id => p = q
    /\ \A p, q \in Working("portfolios") : p.id = q.id => p = q
    /\ \A s \in shown : Leads(s, docs["portfolios"]) /\ Leads(s, Working("portfolios"))
    /\ \A s \in Working("portfolios") : Leads(s, docs["portfolios"])
    /\ \A s, t \in shown : s.id = t.id /\ s.version = t.version => s = t

\* What a paper, or a request that is to write one, says of the papers there are.
There(k) == docs[k] \cup Working(k)
Judged(k, x) ==
    /\ x.base \in 0..bookWrites /\ x.known \subseteq 1..bookWrites
    /\ k = "snapshots" => /\ \A id \in x.known : id =< x.base
                          /\ \A q \in There(k) : q.id = x.base => q.context # x.context
    /\ k = "reviews" => \A q \in There(k) : q.context = x.context /\ q.of = x.of => q.id \notin x.known

\* An acknowledged paper is among the items, or as many of its portfolio as the limit are, and no
\* older; and one of its portfolio that is no older by its id is there in any case.
KeptIn(items, p) ==
    p \in items \/ Cardinality({q \in PapersOf(items, p.of) : q.at >= p.at}) >= PaperLimit
FollowedIn(items, p) == \E q \in PapersOf(items, p.of) : q.id >= p.id

PaperOK(p) == p.id \in 1..bookWrites /\ p.at \in 0..second
PapersOK(k) ==
    /\ IsFiniteSet(docs[k]) /\ IsFiniteSet(Working(k))
    /\ \A p \in There(k) \cup papersTold[k] : PaperOK(p)
    /\ \A p, q \in There(k) \cup papersTold[k] : p.id = q.id => p = q
    /\ \A p \in papersTold[k] :
        /\ KeptIn(docs[k], p) /\ KeptIn(Working(k), p)
        /\ FollowedIn(docs[k], p) /\ FollowedIn(Working(k), p)
        /\ p \in docs[k] => p \in Working(k)
    /\ \A p \in There(k) : Judged(k, p)

AskOK(r) ==
    /\ asks[r].step \in {"built", "write"} => asks[r].kind \in Papers
    /\ asks[r].step = "write" => Judged(asks[r].kind, asks[r])

BookInv ==
    /\ BookTypeOK
    /\ PortfoliosOK
    /\ \A k \in Papers : PapersOK(k)
    /\ \A r \in Requests : AskOK(r)

-----------------------------------------------------------------------------
\* A bucket with other items.
LEMMA BucketWith ==
    ASSUME NEW b, NEW items,
           b = [loaded |-> b.loaded, items |-> b.items, err |-> b.err]
    PROVE  [b EXCEPT !.items = items] = [loaded |-> b.loaded, items |-> items, err |-> b.err]
<1>1. ASSUME NEW x, NEW y, NEW z
      PROVE  [[loaded |-> x, items |-> y, err |-> z] EXCEPT !.items = items]
                = [loaded |-> x, items |-> items, err |-> z]
  OBVIOUS
<1> QED
  BY <1>1

\* What a load shows, unless it fails, is what the operation works on.
LEMMA LoadsWorking ==
    ASSUME BookTypeOK, NEW k \in Docs, NEW b \in LoadLocked(k)
    PROVE  /\ ~b.err => b.items = Working(k)
           /\ b = [loaded |-> b.loaded, items |-> b.items, err |-> b.err]
           /\ b.err => b = Unreadable /\ (buckets[k].loaded => buckets[k] = b)
           /\ b.loaded
           /\ b.items \subseteq Working(k)
<1>1. /\ buckets[k] = [loaded |-> buckets[k].loaded, items |-> buckets[k].items, err |-> buckets[k].err]
      /\ buckets[k].err => buckets[k] = Unreadable
  BY DEF BookTypeOK
<1>2. /\ Unreadable = [loaded |-> TRUE, items |-> {}, err |-> TRUE]
      /\ Unreadable.err = TRUE /\ Unreadable.items = {} /\ Unreadable.loaded = TRUE
  BY DEF Unreadable
<1>3. CASE buckets[k].loaded
  <2>1. b = buckets[k]
    BY <1>3 DEF LoadLocked
  <2> QED
    BY <1>1, <1>2, <1>3, <2>1 DEF Working
<1>4. CASE ~buckets[k].loaded
  <2>1. b \in {[loaded |-> TRUE, items |-> docs[k], err |-> FALSE], Unreadable}
    BY <1>4 DEF LoadLocked
  <2>2. CASE b = [loaded |-> TRUE, items |-> docs[k], err |-> FALSE]
    BY <1>4, <2>2 DEF Working
  <2>3. CASE b = Unreadable
    BY <1>2, <1>4, <2>3
  <2> QED
    BY <2>1, <2>2, <2>3
<1> QED
  BY <1>3, <1>4

\* A read changes nothing that an operation works on.
LEMMA ReadKeepsWorking ==
    ASSUME BookTypeOK, NEW r \in Requests, NEW k \in Docs, NEW b \in LoadLocked(k), NEW next,
           Reads(r, k, b, next), UNCHANGED second
    PROVE  /\ BookTypeOK'
           /\ docs' = docs /\ bookWrites' = bookWrites /\ papersTold' = papersTold
           /\ deletions' = deletions
           /\ \A j \in Docs : Working(j)' = Working(j)
           /\ asks' = [asks EXCEPT ![r] = IF b.err THEN Waiting ELSE next]
<1>1. /\ ~b.err => b.items = Working(k)
      /\ b = [loaded |-> b.loaded, items |-> b.items, err |-> b.err]
      /\ b.err => b = Unreadable /\ (buckets[k].loaded => buckets[k] = b)
      /\ b.loaded
  BY LoadsWorking
<1>2. /\ docs' = docs /\ bookWrites' = bookWrites /\ papersTold' = papersTold /\ second' = second
      /\ buckets' = [buckets EXCEPT ![k] = b] /\ deletions' = deletions
      /\ asks' = [asks EXCEPT ![r] = IF b.err THEN Waiting ELSE next]
  BY DEF Reads
<1>3. /\ buckets' = [j \in Docs |-> buckets'[j]] /\ buckets'[k] = b
      /\ \A j \in Docs \ {k} : buckets'[j] = buckets[j]
  BY <1>2 DEF BookTypeOK
<1>4. asks' = [s \in Requests |-> asks'[s]]
  BY <1>2 DEF BookTypeOK
<1>5. BookTypeOK'
  BY <1>1, <1>2, <1>3, <1>4 DEF BookTypeOK
<1>6. ASSUME NEW j \in Docs PROVE Working(j)' = Working(j)
  <2>1. CASE j # k
    BY <1>2, <1>3, <2>1 DEF Working
  <2>2. CASE j = k /\ ~b.err
    BY <1>1, <1>3, <2>2 DEF Working
  <2>3. CASE j = k /\ b.err
    BY <1>1, <1>2, <1>3, <2>3 DEF Working
  <2> QED
    BY <2>1, <2>2, <2>3
<1> QED
  BY <1>2, <1>5, <1>6

\* A write changes the document, the memory, or neither.
LEMMA WriteMovesWorking ==
    ASSUME BookTypeOK, NEW k \in Docs, NEW b \in LoadLocked(k), NEW items, NEW end,
           end \in BookEnds(k, b), PersistLocked(k, b, items, end)
    PROVE  /\ end \in {"done", "refused", "lost"} /\ b.items = Working(k)
           /\ docs' = [j \in Docs |-> docs'[j]] /\ buckets' = [j \in Docs |-> buckets'[j]]
           /\ \A j \in Docs :
                /\ buckets'[j] = [loaded |-> buckets'[j].loaded, items |-> buckets'[j].items,
                                  err |-> buckets'[j].err]
                /\ buckets'[j].err => buckets'[j] = Unreadable
           /\ bookWrites' = bookWrites + 1
           /\ docs'[k] = IF end = "refused" THEN docs[k] ELSE items
           /\ Working(k)' = IF end = "done" THEN items ELSE Working(k)
           /\ \A j \in Docs \ {k} : docs'[j] = docs[j] /\ Working(j)' = Working(j)
<1>1. /\ ~b.err => b.items = Working(k)
      /\ b = [loaded |-> b.loaded, items |-> b.items, err |-> b.err]
      /\ b.loaded
  BY LoadsWorking
<1>2. /\ ~b.err /\ bookWrites' = bookWrites + 1
      /\ docs' = IF end = "refused" THEN docs ELSE [docs EXCEPT ![k] = items]
      /\ buckets' = [buckets EXCEPT ![k] = IF end = "done" THEN [b EXCEPT !.items = items] ELSE b]
  BY DEF PersistLocked
<1>3. end \in {"done", "refused", "lost"}
  BY DEF BookEnds
<1> DEFINE c == [loaded |-> b.loaded, items |-> items, err |-> b.err]
<1>4. [b EXCEPT !.items = items] = c
  BY <1>1, BucketWith
<1>5. c.loaded = b.loaded /\ c.items = items /\ c.err = b.err
  OBVIOUS
<1> HIDE DEF c
<1>6. /\ buckets' = [j \in Docs |-> buckets'[j]]
      /\ buckets'[k] = IF end = "done" THEN c ELSE b
      /\ \A j \in Docs \ {k} : buckets'[j] = buckets[j]
  BY <1>2, <1>4 DEF BookTypeOK
<1>7. /\ docs' = [j \in Docs |-> docs'[j]]
      /\ docs'[k] = IF end = "refused" THEN docs[k] ELSE items
      /\ \A j \in Docs \ {k} : docs'[j] = docs[j]
  BY <1>2 DEF BookTypeOK
<1>8. Working(k)' = IF end = "done" THEN items ELSE Working(k)
  <2>1. CASE end = "done"
    BY <1>1, <1>2, <1>5, <1>6, <2>1 DEF Working
  <2>2. CASE end # "done"
    <3>1. buckets'[k] = b
      BY <1>6, <2>2
    <3> QED
      BY <1>1, <1>2, <2>2, <3>1 DEF Working
  <2> QED
    BY <2>1, <2>2
<1>9. ASSUME NEW j \in Docs \ {k} PROVE Working(j)' = Working(j)
  BY <1>6, <1>7 DEF Working
<1>10. ASSUME NEW j \in Docs
       PROVE  /\ buckets'[j] = [loaded |-> buckets'[j].loaded, items |-> buckets'[j].items,
                                err |-> buckets'[j].err]
              /\ buckets'[j].err => buckets'[j] = Unreadable
  <2>1. CASE j # k
    BY <1>6, <2>1 DEF BookTypeOK
  <2>2. CASE j = k
    <3>1. c = [loaded |-> c.loaded, items |-> c.items, err |-> c.err]
      BY <1>5 DEF c
    <3>2. buckets'[j] \in {b, c}
      BY <1>6, <2>2
    <3> QED
      BY <1>1, <1>2, <1>5, <3>1, <3>2
  <2> QED
    BY <2>1, <2>2
<1> QED
  BY <1>1, <1>2, <1>3, <1>6, <1>7, <1>8, <1>9, <1>10

\* What is answered of memory, or nothing, keeps the portfolios.
LEMMA AnswersKeepPortfolios ==
    ASSUME PortfoliosOK,
           docs' = docs, Working("portfolios")' = Working("portfolios"),
           bookWrites' = bookWrites, deletions' = deletions,
           shown \subseteq shown', shown' \subseteq shown \cup Working("portfolios")
    PROVE  PortfoliosOK'
<1>1. \A p \in docs'["portfolios"] \cup Working("portfolios")' \cup shown' : PortfolioOK(p)'
  BY DEF PortfoliosOK, PortfolioOK
<1>2. ASSUME NEW s \in Working("portfolios") PROVE Leads(s, Working("portfolios"))
  <2>1. ASSUME NEW p \in Working("portfolios") PROVE Precedes(s, p)
    BY DEF PortfoliosOK, PortfolioOK, Precedes
  <2> QED
    BY <2>1 DEF Leads
<1>3. \A s \in shown' : Leads(s, docs["portfolios"]) /\ Leads(s, Working("portfolios"))
  BY <1>2 DEF PortfoliosOK
<1>5. ASSUME NEW s \in shown', NEW t \in shown', s.id = t.id, s.version = t.version PROVE s = t
  <2>1. CASE s \in shown /\ t \in shown
    BY <1>5, <2>1 DEF PortfoliosOK
  <2>2. CASE s \in Working("portfolios")
    BY <1>3, <1>5, <2>2 DEF Leads, Precedes
  <2>3. CASE t \in Working("portfolios")
    BY <1>3, <1>5, <2>3 DEF Leads, Precedes
  <2> QED
    BY <2>1, <2>2, <2>3
<1>6. \A s \in Working("portfolios") : Leads(s, docs["portfolios"])
  BY DEF PortfoliosOK
<1>7. /\ \A p, q \in docs["portfolios"] : p.id = q.id => p = q
      /\ \A p, q \in Working("portfolios") : p.id = q.id => p = q
  BY DEF PortfoliosOK
<1> QED
  BY <1>1, <1>3, <1>5, <1>6, <1>7 DEF PortfoliosOK, Leads

\* A write of items that memory leads to keeps the portfolios.
LEMMA WriteKeepsPortfolios ==
    ASSUME PortfoliosOK, bookWrites \in Nat, NEW items, NEW end,
           docs'["portfolios"] = IF end = "refused" THEN docs["portfolios"] ELSE items,
           Working("portfolios")' = IF end = "done" THEN items ELSE Working("portfolios"),
           bookWrites' = bookWrites + 1, deletions \subseteq deletions',
           \A p \in items : p.id \in 0..bookWrites + 1 /\ p.version \in Nat,
           \A p, q \in items : p.id = q.id => p = q,
           \A p \in items : p.id = bookWrites + 1 \/ \E q \in Working("portfolios") : q.id = p.id,
           \A s \in Working("portfolios") :
                /\ \A p \in items : Precedes(s, p)
                /\ s.id \in deletions' \/ \E p \in items : p.id = s.id,
           shown \subseteq shown', shown' \subseteq shown \cup IF end = "done" THEN items ELSE {}
    PROVE  PortfoliosOK'
<1> DEFINE D == docs["portfolios"]
           W == Working("portfolios")
<1>1. /\ \A p \in D \cup W \cup shown : p.id \in 0..bookWrites /\ p.version \in Nat
      /\ \A p, q \in D : p.id = q.id => p = q
      /\ \A p, q \in W : p.id = q.id => p = q
      /\ \A s \in shown : Leads(s, D) /\ Leads(s, W)
      /\ \A s \in W : Leads(s, D)
      /\ \A s, t \in shown : s.id = t.id /\ s.version = t.version => s = t
  BY DEF PortfoliosOK, PortfolioOK
<1>2. ASSUME NEW s, NEW S, Leads(s, S)
      PROVE  /\ \A p \in S : Precedes(s, p)
             /\ s.id \in deletions' \/ \E p \in S : p.id = s.id
  BY <1>2 DEF Leads
<1>3. ASSUME NEW s \in shown
      PROVE  /\ \A p \in items : Precedes(s, p)
             /\ s.id \in deletions' \/ \E p \in items : p.id = s.id
  <2>1. Leads(s, W) /\ s.id \in 0..bookWrites /\ s.version \in Nat
    BY <1>1
  <2>2. ASSUME NEW p \in items, p.id = s.id PROVE Precedes(s, p)
    <3>1. p.id # bookWrites + 1
      BY <2>1, <2>2
    <3>2. PICK q \in W : q.id = p.id
      BY <3>1
    <3>3. q.version >= s.version /\ (q.version = s.version => q = s)
      BY <2>1, <2>2, <3>2 DEF Leads, Precedes
    <3>4. p.version >= q.version /\ (p.version = q.version => p = q)
      BY <3>2 DEF Precedes
    <3>5. p.version \in Nat /\ q.version \in Nat
      BY <1>1
    <3>6. p.version >= s.version /\ (p.version = s.version => p.version = q.version /\ q.version = s.version)
      BY <2>1, <3>3, <3>4, <3>5
    <3> QED
      BY <3>3, <3>4, <3>6 DEF Precedes
  <2>3. \A p \in items : Precedes(s, p)
    BY <2>2 DEF Precedes
  <2>4. s.id \in deletions' \/ \E p \in items : p.id = s.id
    <3>1. CASE s.id \in deletions
      BY <3>1
    <3>2. CASE s.id \notin deletions
      <4>1. PICK p \in W : p.id = s.id
        BY <2>1, <3>2 DEF Leads
      <4>2. p.id \in deletions' \/ \E q \in items : q.id = p.id
        OBVIOUS
      <4> QED
        BY <4>1, <4>2
    <3> QED
      BY <3>1, <3>2
  <2> QED
    BY <2>3, <2>4
<1>4. ASSUME NEW s \in items
      PROVE  /\ \A p \in items : Precedes(s, p)
             /\ s.id \in deletions' \/ \E p \in items : p.id = s.id
  <2>1. ASSUME NEW p \in items, p.id = s.id PROVE Precedes(s, p)
    <3>1. p = s /\ p.version \in Nat
      BY <2>1
    <3> QED
      BY <3>1 DEF Precedes
  <2> QED
    BY <2>1 DEF Precedes
<1> DEFINE D2 == docs'["portfolios"]
           W2 == Working("portfolios")'
<1>5. D2 \in {D, items} /\ W2 \in {W, items} /\ (D2 = D => W2 = W \/ D = items)
  OBVIOUS
<1>6. ASSUME NEW s \in shown'
      PROVE  /\ \A p \in D2 : Precedes(s, p)
             /\ s.id \in deletions' \/ \E p \in D2 : p.id = s.id
             /\ \A p \in W2 : Precedes(s, p)
             /\ s.id \in deletions' \/ \E p \in W2 : p.id = s.id
  <2>1. CASE s \in shown
    <3>1. Leads(s, D) /\ Leads(s, W)
      BY <1>1, <2>1
    <3> QED
      BY <1>2, <1>3, <1>5, <2>1, <3>1
  <2>2. CASE s \notin shown
    <3>1. end = "done" /\ s \in items
      BY <2>2
    <3> QED
      BY <1>4, <3>1
  <2> QED
    BY <2>1, <2>2
<1>7. ASSUME NEW s \in W2
      PROVE  /\ \A p \in D2 : Precedes(s, p)
             /\ s.id \in deletions' \/ \E p \in D2 : p.id = s.id
  <2>1. CASE W2 = items /\ D2 = items
    BY <1>4, <2>1
  <2>2. CASE W2 = W /\ D2 = items
    BY <2>2
  <2>3. CASE W2 = W /\ D2 = D
    <3>1. Leads(s, D)
      BY <1>1, <2>3
    <3> QED
      BY <1>2, <2>3, <3>1
  <2> QED
    BY <1>5, <2>1, <2>2, <2>3
<1>8. ASSUME NEW s \in shown', NEW t \in shown', s.id = t.id, s.version = t.version PROVE s = t
  <2>1. CASE s \in shown /\ t \in shown
    BY <1>1, <1>8, <2>1
  <2>2. CASE s \in items /\ t \in items
    BY <1>8, <2>2
  <2>3. CASE s \in shown /\ t \in items
    BY <1>3, <1>8, <2>3 DEF Precedes
  <2>4. CASE t \in shown /\ s \in items
    BY <1>3, <1>8, <2>4 DEF Precedes
  <2> QED
    BY <2>1, <2>2, <2>3, <2>4
<1>9. \A p \in D2 \cup W2 \cup shown' : p.id \in 0..bookWrites + 1 /\ p.version \in Nat
  <2>1. \A p \in D \cup W \cup shown \cup items : p.id \in 0..bookWrites + 1 /\ p.version \in Nat
    BY <1>1
  <2> QED
    BY <1>5, <2>1
<1>10. /\ \A p, q \in D2 : p.id = q.id => p = q
       /\ \A p, q \in W2 : p.id = q.id => p = q
  BY <1>1, <1>5
<1> QED
  BY <1>6, <1>7, <1>8, <1>9, <1>10 DEF PortfoliosOK, PortfolioOK, Leads, Precedes

\* Other documents do not concern the portfolios.
LEMMA OthersKeepPortfolios ==
    ASSUME PortfoliosOK, bookWrites \in Nat, bookWrites' \in {bookWrites, bookWrites + 1},
           docs'["portfolios"] = docs["portfolios"],
           Working("portfolios")' = Working("portfolios"),
           UNCHANGED <<shown, deletions>>
    PROVE  PortfoliosOK'
<1>1. \A p \in docs["portfolios"] \cup Working("portfolios") \cup shown :
         p.id \in 0..bookWrites' /\ p.version \in Nat
  BY DEF PortfoliosOK, PortfolioOK
<1> QED
  BY <1>1 DEF PortfoliosOK, PortfolioOK, Leads, Precedes

\* A larger set of papers has no fewer of them.
LEMMA MoreAreNoFewer ==
    ASSUME NEW S, NEW T, IsFiniteSet(T), S \subseteq T, NEW n \in Nat, Cardinality(S) >= n
    PROVE  Cardinality(T) >= n
<1>1. IsFiniteSet(S) /\ Cardinality(S) <= Cardinality(T)
  BY FS_Subset
<1>2. Cardinality(S) \in Nat /\ Cardinality(T) \in Nat
  BY <1>1, FS_CardinalityType
<1> QED
  BY <1>1, <1>2

\* What goes is of the papers.
LEMMA SurplusIsOfThem ==
    ASSUME NEW papers, NEW over \in Surplus(papers)
    PROVE  over \subseteq papers
BY DEF Surplus

\* Past the limit one of the oldest goes: what was kept is kept, the new paper too.
LEMMA KeptAfterAdd ==
    ASSUME NEW W, IsFiniteSet(W), NEW new, NEW p, NEW of, NEW over, NEW items,
           \A q \in W : q.at \in Nat, new.at \in Nat, p.at \in Nat,
           over \in Surplus(PapersOf(W \cup {new}, of)), items = (W \cup {new}) \ over,
           KeptIn(W, p) \/ p = new
    PROVE  KeptIn(items, p)
<1> DEFINE all == W \cup {new}
           since(S) == {q \in PapersOf(S, p.of) : q.at >= p.at}
<1>1. IsFiniteSet(all) /\ IsFiniteSet(items)
  <2>1. IsFiniteSet(all)
    BY FS_AddElement
  <2> QED
    BY <2>1, FS_Subset
<1>2. IsFiniteSet(since(items)) /\ IsFiniteSet(PapersOf(all, of)) /\ IsFiniteSet(PapersOf(items, of))
  <2>1. since(items) \subseteq items /\ PapersOf(all, of) \subseteq all /\ PapersOf(items, of) \subseteq items
    BY DEF PapersOf
  <2> QED
    BY <1>1, <2>1, FS_Subset
<1>3. PaperLimit \in Nat
  BY BookAssumption
<1>4. over = {} \/ \E x \in PapersOf(all, of) : /\ over = {x}
                                                /\ \A o \in PapersOf(all, of) : x.at =< o.at
                                                /\ Cardinality(PapersOf(all, of)) > PaperLimit
  <2>1. Cardinality(PapersOf(all, of)) \in Nat
    BY <1>2, FS_CardinalityType
  <2>2. CASE Cardinality(PapersOf(all, of)) =< PaperLimit
    BY <2>2 DEF Surplus
  <2>3. CASE ~(Cardinality(PapersOf(all, of)) =< PaperLimit)
    <3>1. \E x \in {q \in PapersOf(all, of) : \A o \in PapersOf(all, of) : q.at =< o.at} : over = {x}
      BY <2>3 DEF Surplus
    <3>2. Cardinality(PapersOf(all, of)) > PaperLimit
      BY <1>3, <2>1, <2>3
    <3> QED
      BY <3>1, <3>2
  <2> QED
    BY <2>2, <2>3
<1>5. CASE p \in items
  BY <1>5 DEF KeptIn
<1>6. ASSUME p \notin items PROVE Cardinality(since(items)) >= PaperLimit
  <2>1. CASE over = {} \/ p.of # of
    <3>1. p \notin W /\ p # new
      BY <1>4, <1>6, <2>1 DEF PapersOf
    <3>2. Cardinality(since(W)) >= PaperLimit
      BY <3>1 DEF KeptIn
    <3>3. since(W) \subseteq since(items)
      BY <1>4, <2>1 DEF PapersOf
    <3> HIDE DEF since, all
    <3> QED
      BY <1>2, <1>3, <3>2, <3>3, MoreAreNoFewer
  <2>2. CASE over # {} /\ p.of = of
    <3>1. PICK x \in PapersOf(all, of) : /\ over = {x}
                                         /\ \A o \in PapersOf(all, of) : x.at =< o.at
                                         /\ Cardinality(PapersOf(all, of)) > PaperLimit
      BY <1>4, <2>2
    <3>2. x.at \in Nat
      BY DEF PapersOf
    <3>3. CASE x.at >= p.at
      <4>1. PapersOf(all, of) \ {x} \subseteq since(items)
        <5>1. ASSUME NEW q \in PapersOf(all, of) \ {x} PROVE q \in since(items)
          <6>1. q \in items /\ q.of = of /\ q.at \in Nat /\ x.at =< q.at
            BY <3>1 DEF PapersOf
          <6>2. q.at >= p.at
            BY <3>2, <3>3, <6>1
          <6> QED
            BY <2>2, <6>1, <6>2 DEF PapersOf
        <5> QED
          BY <5>1
      <4>2. /\ IsFiniteSet(PapersOf(all, of) \ {x})
            /\ Cardinality(PapersOf(all, of) \ {x}) = Cardinality(PapersOf(all, of)) - 1
        BY <1>2, <3>1, FS_RemoveElement
      <4>3. Cardinality(PapersOf(all, of)) \in Nat
        BY <1>2, FS_CardinalityType
      <4>4. Cardinality(PapersOf(all, of) \ {x}) >= PaperLimit
        BY <1>3, <3>1, <4>2, <4>3
      <4> HIDE DEF since, all
      <4> QED
        BY <1>2, <1>3, <4>1, <4>4, MoreAreNoFewer
    <3>4. CASE ~(x.at >= p.at)
      <4>1. p \notin W /\ p # new
        <5>1. p # x
          BY <3>2, <3>4
        <5> QED
          BY <1>6, <3>1, <5>1
      <4>2. Cardinality(since(W)) >= PaperLimit
        BY <4>1 DEF KeptIn
      <4>3. since(W) \subseteq since(items)
        BY <3>1, <3>4 DEF PapersOf
      <4> HIDE DEF since, all
      <4> QED
        BY <1>2, <1>3, <4>2, <4>3, MoreAreNoFewer
    <3> QED
      BY <3>3, <3>4
  <2> QED
    BY <2>1, <2>2
<1> QED
  BY <1>5, <1>6 DEF KeptIn

\* The new paper stays: not all of its portfolio, as many as are too many, are of its second.
LEMMA NewPaperStays ==
    ASSUME NEW W, IsFiniteSet(W), NEW new, NEW over, NEW now,
           \A q \in W : q.at \in 0..second, new.at \in {second, second + 1}, second \in Nat,
           over \in Surplus(PapersOf(W \cup {new}, new.of)),
           \A p : p \in now <=> p \in PapersOf(W \cup {new}, new.of) /\ p.at = new.at,
           Cardinality(now) =< PaperLimit
    PROVE  new \notin over
<1> DEFINE all == PapersOf(W \cup {new}, new.of)
<1>1. SUFFICES ASSUME new \in over PROVE FALSE
  OBVIOUS
<1>2. /\ ~(Cardinality(all) =< PaperLimit)
      /\ \A o \in all : new.at =< o.at
  BY <1>1 DEF Surplus
<1>3. ASSUME NEW o \in all PROVE o \in now
  <2>1. o.at \in Nat /\ new.at \in Nat /\ o.at =< new.at
    BY DEF PapersOf
  <2>2. new.at =< o.at
    BY <1>2
  <2>3. o.at = new.at
    BY <2>1, <2>2
  <2> QED
    BY <2>3
<1>4. all = now
  BY <1>3
<1> QED
  BY <1>2, <1>4

\* A set of numbers has a least one.
LEMMA LeastOf ==
    ASSUME NEW S \in SUBSET Nat, S # {}
    PROVE  \E x \in S : \A y \in S : x <= y
<1>1. \E x \in S : \A y \in S : ~ (<<y, x>> \in OpToRel(<, Nat))
  BY NatLessThanWellFounded, WFMin
<1>2. PICK x \in S : \A y \in S : ~ (<<y, x>> \in OpToRel(<, Nat))
  BY <1>1
<1>3. ASSUME NEW y \in S PROVE x <= y
  <2>1. x \in Nat /\ y \in Nat /\ <<y, x>> \in Nat \X Nat
    OBVIOUS
  <2>2. ~ (y < x)
    BY <1>2, <2>1 DEF OpToRel
  <2> QED BY <2>1, <2>2
<1> QED
  BY <1>3

\* The id of the newest of some papers.
LEMMA LatestIsNewest ==
    ASSUME NEW papers, NEW n \in Nat, \A p \in papers : p.id \in 1..n
    PROVE  /\ LatestId(papers) \in 0..n
           /\ \A p \in papers : p.id =< LatestId(papers)
           /\ papers = {} => LatestId(papers) = 0
           /\ papers # {} => \E p \in papers : p.id = LatestId(papers)
<1> DEFINE ids == {p.id : p \in papers}
           bounds == {m \in Nat : \A i \in ids : i =< m}
<1>1. CASE papers = {}
  <2>1. LatestId(papers) = 0
    BY <1>1 DEF LatestId
  <2> QED
    BY <1>1, <2>1
<1>2. CASE papers # {}
  <2>1. ids \subseteq 1..n /\ ids # {}
    BY <1>2
  <2>2. n \in bounds /\ bounds \subseteq Nat
    BY <2>1
  <2> HIDE DEF ids
  <2>3. PICK m \in bounds : \A j \in bounds : m <= j
    BY <2>2, LeastOf
  <2>4. m \in ids
    <3>1. SUFFICES ASSUME m \notin ids PROVE FALSE
      OBVIOUS
    <3>2. \A i \in ids : i \in Nat /\ i =< m - 1 /\ 1 =< i
      BY <2>1, <2>3, <3>1
    <3>3. m - 1 \in Nat
      <4>1. PICK i \in ids : TRUE
        BY <2>1
      <4>2. i \in Nat /\ 1 =< i /\ i =< m /\ m \in Nat
        BY <2>3, <3>2, <4>1
      <4> QED
        BY <4>2
    <3>4. m - 1 \in bounds
      BY <3>2, <3>3
    <3> QED
      BY <2>3, <3>4
  <2>5. m \in ids /\ \A i \in ids : m >= i
    BY <2>1, <2>3, <2>4
  <2>6. Max(ids) \in ids /\ \A i \in ids : Max(ids) >= i
    BY <2>5 DEF Max
  <2>7. LatestId(papers) = Max(ids)
    BY <1>2 DEF LatestId, ids
  <2>8. LatestId(papers) \in ids /\ \A i \in ids : LatestId(papers) >= i
    BY <2>6, <2>7
  <2>9. LatestId(papers) \in 1..n
    BY <2>1, <2>8
  <2>10. \A p \in papers : p.id \in ids
    BY DEF ids
  <2>11. \E p \in papers : p.id = LatestId(papers)
    BY <2>8 DEF ids
  <2> QED
    BY <1>2, <2>1, <2>8, <2>9, <2>10, <2>11
<1> QED
  BY <1>1, <1>2

\* New papers have new ids.
LEMMA JudgedStays ==
    ASSUME NEW k \in Papers, NEW x, Judged(k, x), bookWrites \in Nat,
           bookWrites' \in {bookWrites, bookWrites + 1},
           \A q \in There(k)' : q \in There(k) \/ q.id = bookWrites + 1
    PROVE  Judged(k, x)'
<1>1. /\ x.base \in 0..bookWrites' /\ x.known \subseteq 1..bookWrites'
      /\ x.base # bookWrites + 1 /\ bookWrites + 1 \notin x.known
  BY DEF Judged
<1>2. k = "snapshots" => /\ \A id \in x.known : id =< x.base
                         /\ \A q \in There(k)' : q.id = x.base => q.context # x.context
  BY <1>1 DEF Judged
<1>3. k = "reviews" => \A q \in There(k)' : q.context = x.context /\ q.of = x.of => q.id \notin x.known
  BY <1>1 DEF Judged
<1> QED
  BY <1>1, <1>2, <1>3 DEF Judged

\* A document of papers that is left alone.
LEMMA PapersStand ==
    ASSUME NEW k \in Papers, PapersOK(k), bookWrites \in Nat, second \in Nat, second' \in Nat,
           bookWrites' \in {bookWrites, bookWrites + 1}, second =< second',
           docs'[k] = docs[k], Working(k)' = Working(k), papersTold'[k] = papersTold[k]
    PROVE  PapersOK(k)'
<1>1. There(k)' = There(k)
  BY DEF There
<1>2. \A p \in There(k) : Judged(k, p)'
  BY <1>1, JudgedStays DEF PapersOK
<1>3. ASSUME NEW p \in There(k) \cup papersTold[k] PROVE PaperOK(p)'
  <2>1. p.id \in 1..bookWrites /\ p.at \in 0..second
    BY DEF PapersOK, PaperOK
  <2> QED
    BY <2>1 DEF PaperOK
<1> QED
  BY <1>1, <1>2, <1>3 DEF PapersOK, KeptIn, FollowedIn

\* A start, from what is stored.
LEMMA PapersAreLoaded ==
    ASSUME NEW k \in Papers, PapersOK(k), docs' = docs, Working(k)' = docs[k],
           UNCHANGED <<papersTold, bookWrites, second>>
    PROVE  PapersOK(k)'
<1>1. There(k)' \subseteq There(k) /\ There(k)' = docs[k]
  BY DEF There
<1>2. ASSUME NEW p \in There(k)' PROVE Judged(k, p)'
  <2>1. Judged(k, p)
    BY <1>1, <1>2 DEF PapersOK
  <2> QED
    BY <1>1, <2>1 DEF Judged
<1>3. \A p \in There(k)' \cup papersTold'[k] : PaperOK(p)'
  BY <1>1 DEF PapersOK, PaperOK
<1> QED
  BY <1>1, <1>2, <1>3 DEF PapersOK, KeptIn, FollowedIn

\* What a request goes on with.
LEMMA AsksStand ==
    ASSUME BookInv, bookWrites' \in {bookWrites, bookWrites + 1},
           \A k \in Papers : \A q \in There(k)' : q \in There(k) \/ q.id = bookWrites + 1,
           NEW r \in Requests, NEW ask, asks'[r] = ask,
           \/ ask = asks[r]
           \/ ask.step \notin {"built", "write"}
           \/ ask.kind \in Papers /\ (ask.step = "write" => Judged(ask.kind, ask))
    PROVE  AskOK(r)'
<1>1. ask.step \in {"built", "write"} => ask.kind \in Papers
  BY DEF BookInv, AskOK
<1>2. ask.step = "write" => Judged(ask.kind, ask)
  BY DEF BookInv, AskOK
<1>3. bookWrites \in Nat
  BY DEF BookInv, BookTypeOK
<1>4. ask.step = "write" => Judged(ask.kind, ask)'
  <2> DEFINE k == ask.kind
  <2>1. ask.step = "write" => k \in Papers /\ Judged(k, ask)
    BY <1>1, <1>2
  <2> HIDE DEF k
  <2>2. ask.step = "write" => Judged(k, ask)'
    BY <1>3, <2>1, JudgedStays
  <2> QED
    BY <2>2 DEF k
<1> QED
  BY <1>1, <1>4 DEF AskOK

\* A step that leaves the documents and what is worked on.
LEMMA QuietStep ==
    ASSUME BookInv, BookTypeOK', docs' = docs, \A k \in Docs : Working(k)' = Working(k),
           UNCHANGED <<papersTold, bookWrites, second, deletions>>,
           shown \subseteq shown', shown' \subseteq shown \cup Working("portfolios"),
           \A r \in Requests :
              \/ asks'[r] = asks[r]
              \/ asks'[r].step \notin {"built", "write"}
              \/ /\ asks'[r].kind \in Papers
                 /\ asks'[r].step = "write" => Judged(asks'[r].kind, asks'[r])
    PROVE  BookInv'
<1>1. PortfoliosOK'
  BY AnswersKeepPortfolios DEF BookInv, Docs
<1>2. bookWrites \in Nat /\ second \in Nat
  BY DEF BookInv, BookTypeOK
<1>3. ASSUME NEW k \in Papers PROVE PapersOK(k)'
  <2>1. PapersOK(k) /\ k \in Docs /\ second =< second' /\ second' \in Nat
    BY <1>2 DEF BookInv, Docs
  <2> QED
    BY <1>2, <2>1, PapersStand
<1>4. \A k \in Papers : There(k)' = There(k)
  BY DEF There, Docs
<1>5. ASSUME NEW r \in Requests PROVE AskOK(r)'
  <2>1. PICK ask : ask = asks'[r]
    OBVIOUS
  <2>2. \A k \in Papers : \A q \in There(k)' : q \in There(k) \/ q.id = bookWrites + 1
    BY <1>4
  <2>3. \/ ask = asks[r]
        \/ ask.step \notin {"built", "write"}
        \/ ask.kind \in Papers /\ (ask.step = "write" => Judged(ask.kind, ask))
    BY <2>1
  <2> QED
    BY <2>1, <2>2, <2>3, AsksStand
<1> QED
  BY <1>1, <1>3, <1>5 DEF BookInv

\* An operation that only reads.
LEMMA ReadKeeps ==
    ASSUME BookInv, NEW r \in Requests, NEW k \in Docs, NEW b \in LoadLocked(k), NEW next,
           Reads(r, k, b, next), UNCHANGED second,
           shown \subseteq shown', shown' \subseteq shown \cup Working("portfolios"),
           \/ b.err
           \/ next.step \notin {"built", "write"}
           \/ next.kind \in Papers /\ (next.step = "write" => Judged(next.kind, next))
    PROVE  BookInv'
<1>1. BookTypeOK
  BY DEF BookInv
<1>2. /\ BookTypeOK'
      /\ docs' = docs /\ bookWrites' = bookWrites /\ papersTold' = papersTold
      /\ deletions' = deletions
      /\ \A j \in Docs : Working(j)' = Working(j)
      /\ asks' = [asks EXCEPT ![r] = IF b.err THEN Waiting ELSE next]
  BY <1>1, ReadKeepsWorking
<1>3. Waiting.step = "waiting"
  BY DEF Waiting
<1>4. /\ \A s \in Requests \ {r} : asks'[s] = asks[s]
      /\ asks'[r] = IF b.err THEN Waiting ELSE next
  BY <1>1, <1>2 DEF BookTypeOK
<1>5. ASSUME NEW s \in Requests
      PROVE  \/ asks'[s] = asks[s]
             \/ asks'[s].step \notin {"built", "write"}
             \/ /\ asks'[s].kind \in Papers
                /\ asks'[s].step = "write" => Judged(asks'[s].kind, asks'[s])
  <2>1. CASE s # r
    BY <1>4, <2>1
  <2>2. CASE s = r /\ b.err
    BY <1>3, <1>4, <2>2
  <2>3. CASE s = r /\ ~b.err
    <3>1. asks'[s] = next
      BY <1>4, <2>3
    <3> QED
      BY <2>3, <3>1
  <2> QED
    BY <2>1, <2>2, <2>3
<1> QED
  BY <1>2, <1>5, QuietStep

\* What a request found when it looked is so.
LEMMA LookKeeps ==
    ASSUME BookInv, NEW r \in Requests, Look(r)
    PROVE  BookInv'
<1> DEFINE q == asks[r]
           papers(b) == PapersOf(b.items, q.of)
           found(b) == [step |-> "write", kind |-> q.kind, of |-> q.of,
                        context |-> q.context, base |-> LatestId(papers(b)),
                        known |-> {p.id : p \in PapersOf(papersTold[q.kind], q.of)}]
<1>1. PICK b \in LoadLocked(q.kind) :
         /\ Reads(r, q.kind, b, IF Reusable(q.kind, papers(b), q.context) THEN Waiting ELSE found(b))
         /\ UNCHANGED <<shown, second>>
  BY DEF Look
<1>2. q.step = "built" /\ q.kind \in Papers /\ q.kind \in Docs
  BY DEF Look, BookInv, AskOK, Docs
<1>3. BookTypeOK /\ bookWrites \in Nat
  BY DEF BookInv, BookTypeOK
<1>4. ASSUME ~b.err, ~Reusable(q.kind, papers(b), q.context)
      PROVE  Judged(q.kind, found(b))
  <2> DEFINE k == q.kind
             answers == PapersOf(papersTold[k], q.of)
             base == LatestId(papers(b))
             known == {p.id : p \in answers}
  <2>1. b.items = Working(k)
    BY <1>2, <1>3, <1>4, LoadsWorking
  <2>2. PapersOK(k)
    BY <1>2 DEF BookInv
  <2>3. \A p \in There(k) \cup papersTold[k] : p.id \in 1..bookWrites
    BY <2>2 DEF PapersOK, PaperOK
  <2>4. \A p \in papers(b) : p \in There(k) /\ p \in Working(k) /\ p.of = q.of /\ p.id \in 1..bookWrites
    BY <2>1, <2>3 DEF PapersOf, There
  <2>5. /\ base \in 0..bookWrites
        /\ \A p \in papers(b) : p.id =< base
        /\ papers(b) = {} => base = 0
        /\ papers(b) # {} => \E p \in papers(b) : p.id = base
    BY <1>3, <2>4, LatestIsNewest
  <2>6. \A t \in answers : t \in papersTold[k] /\ t.of = q.of /\ t.id \in 1..bookWrites
    BY <2>3 DEF PapersOf
  <2>7. known \subseteq 1..bookWrites
    BY <2>6
  <2> HIDE DEF base
  <2>8. ASSUME NEW t \in answers PROVE t.id =< base
    <3>1. FollowedIn(Working(k), t)
      BY <2>2, <2>6 DEF PapersOK
    <3>2. PICK p \in papers(b) : p.id >= t.id
      BY <2>1, <2>6, <3>1 DEF FollowedIn
    <3>3. p.id =< base /\ p.id \in Nat /\ base \in Nat /\ t.id \in Nat
      BY <2>4, <2>5, <2>6
    <3> QED
      BY <3>2, <3>3
  <2>9. \A i \in known : i =< base
    BY <2>8
  <2>10. ASSUME k = "snapshots", NEW p \in There(k), p.id = base PROVE p.context # q.context
    <3>1. base # 0
      BY <2>3, <2>10
    <3>2. PICK o \in papers(b) : o.id = base
      BY <2>5, <3>1
    <3>3. o = p
      BY <2>2, <2>4, <2>10, <3>2 DEF PapersOK
    <3>4. ~(o.context = q.context /\ o.id = LatestId(papers(b)))
      BY <1>4 DEF Reusable
    <3> QED
      BY <3>2, <3>3, <3>4 DEF base
  <2>11. ASSUME k = "reviews", NEW p \in There(k), p.context = q.context, p.of = q.of
         PROVE  p.id \notin known
    <3>1. SUFFICES ASSUME NEW t \in answers, t.id = p.id PROVE FALSE
      OBVIOUS
    <3>2. t = p
      BY <2>2, <2>6, <3>1 DEF PapersOK
    <3>3. p \in Working(k)
      BY <2>2, <2>6, <3>2 DEF PapersOK, There
    <3>4. p \in papers(b)
      BY <2>1, <2>11, <3>3 DEF PapersOf
    <3> QED
      BY <1>4, <2>11, <3>4 DEF Reusable
  <2> HIDE DEF known
  <2>12. /\ found(b).base = base /\ found(b).known = known
         /\ found(b).context = q.context /\ found(b).of = q.of
    BY DEF base, known
  <2> HIDE DEF found, k
  <2> QED
    BY <2>5, <2>7, <2>9, <2>10, <2>11, <2>12 DEF Judged, k
<1>5. /\ Waiting.step = "waiting"
      /\ found(b).kind = q.kind /\ found(b).step = "write"
  BY DEF Waiting
<1> DEFINE next == IF Reusable(q.kind, papers(b), q.context) THEN Waiting ELSE found(b)
<1>6. \/ b.err
      \/ next.step \notin {"built", "write"}
      \/ next.kind \in Papers /\ (next.step = "write" => Judged(next.kind, next))
  <2>1. CASE b.err
    BY <2>1
  <2>2. CASE Reusable(q.kind, papers(b), q.context)
    <3>1. next = Waiting
      BY <2>2
    <3> QED
      BY <1>5, <3>1
  <2>3. CASE ~b.err /\ ~Reusable(q.kind, papers(b), q.context)
    <3>1. next = found(b) /\ Judged(q.kind, found(b))
      BY <1>4, <2>3
    <3> HIDE DEF next, found
    <3> QED
      BY <1>2, <1>5, <3>1
  <2> QED
    BY <2>1, <2>2, <2>3
<1>7. Reads(r, q.kind, b, next)
  BY <1>1
<1> HIDE DEF next
<1> QED
  BY <1>1, <1>2, <1>6, <1>7, ReadKeeps

\* A write of the portfolios: what it does to the rest.
LEMMA PortfolioWrite ==
    ASSUME BookInv, NEW b \in LoadLocked("portfolios"), NEW items, NEW end,
           end \in BookEnds("portfolios", b), PersistLocked("portfolios", b, items, end),
           UNCHANGED <<papersTold, second>>, PortfoliosOK',
           asks' = [r \in Requests |-> asks'[r]],
           \A r \in Requests : asks'[r] \in {asks[r], Waiting}
    PROVE  BookInv'
<1>1. BookTypeOK /\ bookWrites \in Nat /\ second \in Nat /\ "portfolios" \in Docs
  BY DEF BookInv, BookTypeOK, Docs
<1>2. /\ docs' = [j \in Docs |-> docs'[j]] /\ buckets' = [j \in Docs |-> buckets'[j]]
      /\ \A j \in Docs :
           /\ buckets'[j] = [loaded |-> buckets'[j].loaded, items |-> buckets'[j].items,
                             err |-> buckets'[j].err]
           /\ buckets'[j].err => buckets'[j] = Unreadable
      /\ bookWrites' = bookWrites + 1
      /\ \A j \in Docs \ {"portfolios"} : docs'[j] = docs[j] /\ Working(j)' = Working(j)
  BY <1>1, WriteMovesWorking
<1>3. BookTypeOK'
  BY <1>1, <1>2 DEF BookTypeOK
<1>4. ASSUME NEW k \in Papers
      PROVE  k \in Docs \ {"portfolios"}
  BY DEF Papers, Docs
<1>5. ASSUME NEW k \in Papers PROVE PapersOK(k)'
  <2>1. PapersOK(k) /\ second =< second' /\ second' \in Nat
    BY <1>1 DEF BookInv
  <2> QED
    BY <1>1, <1>2, <1>4, <2>1, PapersStand
<1>6. ASSUME NEW r \in Requests PROVE AskOK(r)'
  <2>1. PICK ask : ask = asks'[r]
    OBVIOUS
  <2>2. \A k \in Papers : \A q \in There(k)' : q \in There(k) \/ q.id = bookWrites + 1
    BY <1>2, <1>4 DEF There
  <2>3. ask = asks[r] \/ ask.step \notin {"built", "write"}
    BY <2>1 DEF Waiting
  <2> QED
    BY <1>2, <2>1, <2>2, <2>3, AsksStand
<1> QED
  BY <1>3, <1>5, <1>6 DEF BookInv

\* The requests that write the portfolios.
LEMMA AddPortfolioKeeps ==
    ASSUME BookInv, NEW r \in Requests, AddPortfolio(r)
    PROVE  BookInv'
<1> DEFINE new == FirstVersion(bookWrites + 1)
           W == Working("portfolios")
<1>1. PICK b, end :
         /\ b \in LoadLocked("portfolios") /\ end \in BookEnds("portfolios", b)
         /\ PersistLocked("portfolios", b, b.items \cup {new}, end)
         /\ Answered(r)
         /\ shown' = IF end = "done" THEN shown \cup {new} ELSE shown
         /\ UNCHANGED <<deletions, papersTold, second>>
  BY DEF AddPortfolio, NewId
<1>2. BookTypeOK /\ bookWrites \in Nat /\ "portfolios" \in Docs
  BY DEF BookInv, BookTypeOK, Docs
<1>3. /\ b.items = W
      /\ bookWrites' = bookWrites + 1
      /\ docs'["portfolios"] = IF end = "refused" THEN docs["portfolios"] ELSE b.items \cup {new}
      /\ W' = IF end = "done" THEN b.items \cup {new} ELSE W
  BY <1>1, <1>2, WriteMovesWorking
<1>4. new.id = bookWrites + 1 /\ new.version = 1
  BY DEF FirstVersion
<1>5. PortfoliosOK
  BY DEF BookInv
<1> DEFINE items == W \cup {new}
<1> HIDE DEF new
<1>6. /\ \A p \in items : p.id \in 0..bookWrites + 1 /\ p.version \in Nat
      /\ \A p, q \in items : p.id = q.id => p = q
      /\ \A p \in items : p.id = bookWrites + 1 \/ \E q \in W : q.id = p.id
      /\ \A p \in W : p.id # bookWrites + 1
  BY <1>2, <1>4, <1>5 DEF PortfoliosOK, PortfolioOK
<1>7. ASSUME NEW s \in W
      PROVE  /\ \A p \in items : Precedes(s, p)
             /\ s.id \in deletions' \/ \E p \in items : p.id = s.id
  BY <1>6 DEF Precedes
<1>8. /\ docs'["portfolios"] = IF end = "refused" THEN docs["portfolios"] ELSE items
      /\ Working("portfolios")' = IF end = "done" THEN items ELSE Working("portfolios")
      /\ shown \subseteq shown' /\ shown' \subseteq shown \cup IF end = "done" THEN items ELSE {}
      /\ deletions \subseteq deletions'
  BY <1>1, <1>3
<1> HIDE DEF items
<1>9. PortfoliosOK'
  BY <1>2, <1>3, <1>5, <1>6, <1>7, <1>8, WriteKeepsPortfolios
<1>10. asks' = [s \in Requests |-> asks'[s]] /\ \A s \in Requests : asks'[s] \in {asks[s], Waiting}
  BY <1>1, <1>2 DEF Answered, BookTypeOK
<1> QED
  BY <1>1, <1>9, <1>10, PortfolioWrite

\* A PATCH writes the version after the one the store has.
LEMMA PatchKeeps ==
    ASSUME BookInv, NEW r \in Requests, PatchPortfolio(r)
    PROVE  BookInv'
<1> DEFINE W == Working("portfolios")
<1>1. BookTypeOK /\ bookWrites \in Nat /\ "portfolios" \in Docs /\ PortfoliosOK
  BY DEF BookInv, BookTypeOK, Docs
<1>2. PICK b \in LoadLocked("portfolios") :
        \/ Reads(r, "portfolios", b, Waiting) /\ UNCHANGED <<shown, second>>
        \/ \E prior \in b.items, f \in Fields, h \in Holdings, end \in BookEnds("portfolios", b) :
            LET copy == asks[r].portfolio
                new == [id |-> prior.id, version |-> NextVersion(copy, prior),
                        content |-> [copy.content EXCEPT ![f] = h]] IN
            /\ prior.id = copy.id
            /\ PersistLocked("portfolios", b, (b.items \ {prior}) \cup {new}, end)
            /\ Answered(r)
            /\ shown' = IF end = "done" THEN shown \cup {new} ELSE shown
            /\ UNCHANGED <<deletions, papersTold, second>>
  BY DEF PatchPortfolio
<1>3. CASE Reads(r, "portfolios", b, Waiting) /\ UNCHANGED <<shown, second>>
  <2>1. Waiting.step \notin {"built", "write"}
    BY DEF Waiting
  <2> QED
    BY <1>1, <1>3, <2>1, ReadKeeps
<1>4. ASSUME NEW prior \in b.items, NEW content, NEW end \in BookEnds("portfolios", b), NEW new,
             new = [id |-> prior.id, version |-> prior.version + 1, content |-> content],
             PersistLocked("portfolios", b, (b.items \ {prior}) \cup {new}, end),
             Answered(r),
             shown' = IF end = "done" THEN shown \cup {new} ELSE shown,
             UNCHANGED <<deletions, papersTold, second>>
      PROVE  BookInv'
  <2> DEFINE items == (W \ {prior}) \cup {new}
  <2>1. /\ b.items = W
        /\ bookWrites' = bookWrites + 1
        /\ docs'["portfolios"] = IF end = "refused" THEN docs["portfolios"] ELSE (b.items \ {prior}) \cup {new}
        /\ W' = IF end = "done" THEN (b.items \ {prior}) \cup {new} ELSE W
    BY <1>1, <1>4, WriteMovesWorking
  <2>2. new.id = prior.id /\ new.version = prior.version + 1
    BY <1>4
  <2>3. /\ \A p \in W : p.id \in 0..bookWrites /\ p.version \in Nat
        /\ \A p, q \in W : p.id = q.id => p = q
        /\ prior \in W
    BY <1>1, <2>1 DEF PortfoliosOK, PortfolioOK
  <2>4. /\ \A p \in items : p.id \in 0..bookWrites + 1 /\ p.version \in Nat
        /\ \A p, q \in items : p.id = q.id => p = q
        /\ \A p \in items : p.id = bookWrites + 1 \/ \E q \in W : q.id = p.id
    BY <1>1, <2>2, <2>3
  <2>5. ASSUME NEW s \in W
        PROVE  /\ \A p \in items : Precedes(s, p)
               /\ s.id \in deletions' \/ \E p \in items : p.id = s.id
    <3>1. CASE s = prior
      <4>1. \A p \in items : p.id = s.id => p = new
        BY <2>2, <2>3, <3>1
      <4>2. new.version >= s.version /\ new.version # s.version /\ new \in items /\ new.id = s.id
        BY <2>2, <2>3, <3>1
      <4> QED
        BY <4>1, <4>2 DEF Precedes
    <3>2. CASE s # prior
      <4>1. s \in items /\ \A p \in items : p.id = s.id => p = s
        BY <2>2, <2>3, <3>2
      <4> QED
        BY <2>3, <4>1 DEF Precedes
    <3> QED
      BY <3>1, <3>2
  <2>6. /\ docs'["portfolios"] = IF end = "refused" THEN docs["portfolios"] ELSE items
        /\ Working("portfolios")' = IF end = "done" THEN items ELSE Working("portfolios")
        /\ shown \subseteq shown' /\ shown' \subseteq shown \cup IF end = "done" THEN items ELSE {}
        /\ deletions \subseteq deletions'
    BY <1>4, <2>1
  <2> HIDE DEF items
  <2>7. PortfoliosOK'
    BY <1>1, <2>1, <2>4, <2>5, <2>6, WriteKeepsPortfolios
  <2>8. asks' = [s \in Requests |-> asks'[s]] /\ \A s \in Requests : asks'[s] \in {asks[s], Waiting}
    BY <1>1, <1>4 DEF Answered, BookTypeOK
  <2> QED
    BY <1>4, <2>7, <2>8, PortfolioWrite
<1> QED
  BY <1>2, <1>3, <1>4 DEF NextVersion

\* A deletion.
LEMMA DeletePortfolioKeeps ==
    ASSUME BookInv, DeletePortfolio
    PROVE  BookInv'
<1> DEFINE W == Working("portfolios")
<1>1. BookTypeOK /\ bookWrites \in Nat /\ "portfolios" \in Docs /\ PortfoliosOK
  BY DEF BookInv, BookTypeOK, Docs
<1>2. PICK b, without, end :
        /\ b \in LoadLocked("portfolios") /\ without \in b.items /\ end \in BookEnds("portfolios", b)
        /\ PersistLocked("portfolios", b, b.items \ {without}, end)
        /\ deletions' = deletions \cup {without.id}
        /\ UNCHANGED <<asks, shown, papersTold, second>>
  BY DEF DeletePortfolio
<1> DEFINE items == W \ {without}
<1>3. /\ b.items = W
      /\ bookWrites' = bookWrites + 1
      /\ docs'["portfolios"] = IF end = "refused" THEN docs["portfolios"] ELSE b.items \ {without}
      /\ W' = IF end = "done" THEN b.items \ {without} ELSE W
  BY <1>1, <1>2, WriteMovesWorking
<1>4. /\ \A p \in W : p.id \in 0..bookWrites /\ p.version \in Nat
      /\ \A p, q \in W : p.id = q.id => p = q
  BY <1>1 DEF PortfoliosOK, PortfolioOK
<1>5. /\ \A p \in items : p.id \in 0..bookWrites + 1 /\ p.version \in Nat
      /\ \A p, q \in items : p.id = q.id => p = q
      /\ \A p \in items : p.id = bookWrites + 1 \/ \E q \in W : q.id = p.id
  BY <1>1, <1>4
<1>6. ASSUME NEW s \in W
      PROVE  /\ \A p \in items : Precedes(s, p)
             /\ s.id \in deletions' \/ \E p \in items : p.id = s.id
  <2>1. \A p \in items : p.id = s.id => p = s
    BY <1>4
  <2>2. s = without \/ s \in items
    OBVIOUS
  <2> QED
    BY <1>2, <1>4, <2>1, <2>2 DEF Precedes
<1>7. /\ docs'["portfolios"] = IF end = "refused" THEN docs["portfolios"] ELSE items
      /\ Working("portfolios")' = IF end = "done" THEN items ELSE Working("portfolios")
      /\ shown \subseteq shown' /\ shown' \subseteq shown \cup IF end = "done" THEN items ELSE {}
      /\ deletions \subseteq deletions'
  BY <1>2, <1>3
<1> HIDE DEF items
<1>8. PortfoliosOK'
  BY <1>1, <1>3, <1>5, <1>6, <1>7, WriteKeepsPortfolios
<1>9. asks' = [s \in Requests |-> asks'[s]] /\ \A s \in Requests : asks'[s] \in {asks[s], Waiting}
  BY <1>1, <1>2 DEF BookTypeOK
<1> QED
  BY <1>2, <1>8, <1>9, PortfolioWrite

\* The paper a request adds.
LEMMA PaperWriteKeeps ==
    ASSUME BookInv, NEW r \in Requests, NEW k \in Papers, NEW b \in LoadLocked(k), NEW at, NEW new,
           NEW over, NEW end, NEW items,
           asks[r].step = "write", asks[r].kind = k,
           new = [id |-> bookWrites + 1, of |-> asks[r].of, context |-> asks[r].context,
                  base |-> asks[r].base, known |-> asks[r].known, at |-> at],
           at \in {second, second + 1}, end \in BookEnds(k, b),
           over \in Surplus(PapersOf(b.items \cup {new}, new.of)),
           Cardinality({p \in PapersOf(b.items \cup {new}, new.of) : p.at = new.at}) =< PaperLimit,
           items = (b.items \cup {new}) \ over,
           PersistLocked(k, b, items, end), second' = at, Answered(r),
           papersTold' = IF end = "done" THEN [papersTold EXCEPT ![k] = @ \cup {new}] ELSE papersTold,
           UNCHANGED <<shown, deletions>>
    PROVE  BookInv'
<1> DEFINE W == Working(k)
           D == docs[k]
           T == papersTold[k]
<1>1. BookTypeOK /\ bookWrites \in Nat /\ second \in Nat /\ k \in Docs /\ k # "portfolios"
  BY DEF BookInv, BookTypeOK, Docs, Papers
<1>2. /\ end \in {"done", "refused", "lost"} /\ b.items = W
      /\ docs' = [j \in Docs |-> docs'[j]] /\ buckets' = [j \in Docs |-> buckets'[j]]
      /\ \A j \in Docs :
           /\ buckets'[j] = [loaded |-> buckets'[j].loaded, items |-> buckets'[j].items,
                             err |-> buckets'[j].err]
           /\ buckets'[j].err => buckets'[j] = Unreadable
      /\ bookWrites' = bookWrites + 1
      /\ docs'[k] = IF end = "refused" THEN D ELSE items
      /\ Working(k)' = IF end = "done" THEN items ELSE W
      /\ \A j \in Docs \ {k} : docs'[j] = docs[j] /\ Working(j)' = Working(j)
  BY <1>1, WriteMovesWorking
<1>3. /\ new.id = bookWrites + 1 /\ new.at = at /\ new.of = asks[r].of
      /\ new.base = asks[r].base /\ new.known = asks[r].known /\ new.context = asks[r].context
  OBVIOUS
<1>4. second' \in Nat /\ second =< second' /\ at \in Nat /\ at \in 0..second'
  BY <1>1
<1>5. /\ papersTold' = [j \in Papers |-> papersTold'[j]]
      /\ papersTold'[k] = IF end = "done" THEN T \cup {new} ELSE T
      /\ \A j \in Papers \ {k} : papersTold'[j] = papersTold[j]
  BY <1>1 DEF BookTypeOK
<1>6. /\ asks' = [s \in Requests |-> asks'[s]]
      /\ \A s \in Requests : asks'[s] \in {asks[s], Waiting}
  BY <1>1 DEF Answered, BookTypeOK
<1>7. BookTypeOK'
  BY <1>1, <1>2, <1>4, <1>5, <1>6 DEF BookTypeOK
<1>8. PapersOK(k) /\ Judged(k, asks[r])
  BY DEF BookInv, AskOK
<1>9. Judged(k, new)
  BY <1>3, <1>8 DEF Judged
<1>10. items \subseteq W \cup {new} /\ new \in items /\ IsFiniteSet(W) /\ IsFiniteSet(items)
  <2>1. IsFiniteSet(W) /\ \A q \in W : q.at \in 0..second
    BY <1>8 DEF PapersOK, PaperOK, There
  <2>2. new \notin over
    <3>1. PICK now : now = {p \in PapersOf(W \cup {new}, new.of) : p.at = new.at}
      OBVIOUS
    <3>2. /\ over \in Surplus(PapersOf(W \cup {new}, new.of))
          /\ Cardinality(now) =< PaperLimit
          /\ new.at \in {second, second + 1}
      BY <1>2, <1>3, <3>1
    <3>3. \A p : p \in now <=> p \in PapersOf(W \cup {new}, new.of) /\ p.at = new.at
      BY <3>1
    <3>4. PICK V, paper : V = W /\ paper = new
      OBVIOUS
    <3>5. IsFiniteSet(V) /\ \A q \in V : q.at \in 0..second
      BY <2>1, <3>4
    <3>6. /\ over \in Surplus(PapersOf(V \cup {paper}, paper.of))
          /\ paper.at \in {second, second + 1}
      BY <3>2, <3>4
    <3>7. \A p : p \in now <=> p \in PapersOf(V \cup {paper}, paper.of) /\ p.at = paper.at
      BY <3>3, <3>4
    <3>8. second \in Nat /\ Cardinality(now) =< PaperLimit
      BY <1>1, <3>2
    <3>9. paper \notin over
      BY <3>5, <3>6, <3>7, <3>8, NewPaperStays
    <3> QED
      BY <3>4, <3>9
  <2>3. IsFiniteSet(W \cup {new})
    BY <2>1, FS_AddElement
  <2> QED
    BY <1>2, <2>1, <2>2, <2>3, FS_Subset
<1>11. /\ \A p \in D \cup W \cup T : p.id \in 1..bookWrites /\ p.at \in 0..second /\ p.at \in Nat
       /\ \A p, q \in D \cup W \cup T : p.id = q.id => p = q
  BY <1>1, <1>8 DEF PapersOK, PaperOK, There
<1>12. /\ \A p \in T : /\ KeptIn(D, p) /\ KeptIn(W, p)
                       /\ FollowedIn(D, p) /\ FollowedIn(W, p)
                       /\ p \in D => p \in W
       /\ \A p \in There(k) : Judged(k, p)
       /\ IsFiniteSet(D)
  BY <1>8 DEF PapersOK
<1>13. ASSUME NEW p \in T \cup {new} PROVE KeptIn(items, p)
  <2>1. /\ \A q \in W : q.at \in Nat
        /\ new.at \in Nat /\ p.at \in Nat
        /\ KeptIn(W, p) \/ p = new
        /\ items = (W \cup {new}) \ over
        /\ over \in Surplus(PapersOf(W \cup {new}, new.of))
    BY <1>2, <1>3, <1>4, <1>11, <1>12
  <2> HIDE DEF W
  <2> QED
    BY <1>10, <2>1, KeptAfterAdd
<1>14. ASSUME NEW p \in T \cup {new} PROVE FollowedIn(items, p)
  <2>1. CASE p.of = new.of
    <3>1. new.id >= p.id
      BY <1>1, <1>3, <1>11
    <3> QED
      BY <1>10, <2>1, <3>1 DEF FollowedIn, PapersOf
  <2>2. CASE p.of # new.of
    <3>1. PICK q \in PapersOf(W, p.of) : q.id >= p.id
      BY <1>12, <2>2 DEF FollowedIn
    <3>2. q \in W /\ q.of = p.of
      BY <3>1 DEF PapersOf
    <3>3. q \notin over
      <4>1. SUFFICES ASSUME q \in over PROVE FALSE
        OBVIOUS
      <4>2. q \in PapersOf(b.items \cup {new}, new.of)
        BY <4>1, SurplusIsOfThem
      <4> QED
        BY <2>2, <3>2, <4>2 DEF PapersOf
    <3>4. q \in items
      BY <1>2, <3>2, <3>3
    <3> QED
      BY <3>1, <3>2, <3>4 DEF FollowedIn, PapersOf
  <2> QED
    BY <2>1, <2>2
<1> DEFINE D2 == docs'[k]
           W2 == Working(k)'
           T2 == papersTold'[k]
<1>15. /\ D2 \in {D, items} /\ W2 \in {W, items} /\ T2 \subseteq T \cup {new}
       /\ new \in T2 \ T => D2 = items /\ W2 = items
       /\ (D2 \in {D, items} /\ W2 = W) \/ D2 = W2
  <2>1. CASE end = "done"
    BY <1>2, <1>5, <2>1
  <2>2. CASE end = "refused"
    BY <1>2, <1>5, <2>2
  <2>3. CASE end = "lost"
    BY <1>2, <1>5, <2>3
  <2> QED
    BY <1>2, <2>1, <2>2, <2>3
<1>16. ASSUME NEW p \in T2 PROVE KeptIn(D2, p) /\ KeptIn(W2, p) /\ FollowedIn(D2, p) /\ FollowedIn(W2, p)
  <2>1. CASE p = new /\ p \notin T
    <3>1. D2 = items /\ W2 = items
      BY <1>15, <1>16, <2>1
    <3>2. KeptIn(items, p) /\ FollowedIn(items, p)
      BY <1>13, <1>14, <2>1
    <3> QED
      BY <3>1, <3>2
  <2>2. CASE p \in T
    <3>1. KeptIn(items, p) /\ FollowedIn(items, p) /\ KeptIn(D, p) /\ KeptIn(W, p) /\ FollowedIn(D, p) /\ FollowedIn(W, p)
      BY <1>12, <1>13, <1>14, <2>2
    <3> QED
      BY <1>15, <3>1
  <2> QED
    BY <1>15, <1>16, <2>1, <2>2
<1>17. ASSUME NEW p \in T2, p \in D2 PROVE p \in W2
  <2>1. CASE D2 = W2
    BY <1>17, <2>1
  <2>2. CASE W2 = W /\ D2 \in {D, items}
    <3>1. CASE p \in T
      <4>1. p # new
        BY <1>1, <1>3, <1>11, <3>1
      <4>2. p \in D \/ p \in W
        BY <1>10, <1>17, <2>2, <4>1
      <4> QED
        BY <1>12, <2>2, <3>1, <4>2
    <3>2. CASE p \notin T
      BY <1>15, <1>17, <3>2
    <3> QED
      BY <3>1, <3>2
  <2> QED
    BY <1>15, <2>1, <2>2
<1> HIDE DEF D2, W2, T2
<1>18. D2 \cup W2 \cup T2 \subseteq D \cup W \cup T \cup {new}
  BY <1>10, <1>15
<1>19. \A p \in D \cup W \cup T \cup {new} : p.id \in 1..bookWrites + 1 /\ p.at \in 0..second'
  BY <1>1, <1>3, <1>4, <1>11
<1>20. \A p, q \in D \cup W \cup T \cup {new} : p.id = q.id => p = q
  BY <1>1, <1>3, <1>11
<1>21. IsFiniteSet(D2) /\ IsFiniteSet(W2)
  BY <1>10, <1>12, <1>15
<1>22. There(k)' = D2 \cup W2
  BY DEF There, D2, W2
<1>23. \A q \in There(k)' : q \in There(k) \/ q.id = bookWrites + 1
  BY <1>3, <1>10, <1>15, <1>22 DEF There
<1>24. ASSUME NEW p \in There(k)' PROVE Judged(k, p)'
  <2>1. p \in There(k) \/ p = new
    BY <1>10, <1>15, <1>22, <1>24 DEF There
  <2>2. Judged(k, p)
    BY <1>9, <1>12, <2>1
  <2> QED
    BY <1>1, <1>2, <1>23, <2>2, JudgedStays
<1>25. PapersOK(k)'
  <2>1. ASSUME NEW p \in D2 \cup W2 \cup T2 PROVE PaperOK(p)'
    BY <1>2, <1>18, <1>19 DEF PaperOK
  <2>2. \A p, q \in D2 \cup W2 \cup T2 : p.id = q.id => p = q
    BY <1>18, <1>20
  <2>3. \A p \in T2 : KeptIn(D2, p) /\ KeptIn(W2, p) /\ FollowedIn(D2, p) /\ FollowedIn(W2, p)
    BY <1>16
  <2>4. \A p \in T2 : p \in D2 => p \in W2
    BY <1>17
  <2>5. \A p \in T2 :
           /\ KeptIn(docs[k], p)' /\ KeptIn(Working(k), p)'
           /\ FollowedIn(docs[k], p)' /\ FollowedIn(Working(k), p)'
    BY <2>3 DEF D2, W2, KeptIn, FollowedIn
  <2>6. IsFiniteSet(docs[k])' /\ IsFiniteSet(Working(k))'
    BY <1>21 DEF D2, W2
  <2>7. (There(k) \cup papersTold[k])' = D2 \cup W2 \cup T2
    BY <1>22 DEF T2
  <2>8. \A p \in papersTold'[k] : p \in docs'[k] => p \in Working(k)'
    BY <2>4 DEF T2, D2, W2
  <2> QED
    BY <1>24, <2>1, <2>2, <2>5, <2>6, <2>7, <2>8 DEF PapersOK, T2
<1>26. ASSUME NEW j \in Papers, j # k PROVE PapersOK(j)'
  <2>1. PapersOK(j) /\ j \in Docs \ {k}
    BY <1>26 DEF BookInv, Docs
  <2> QED
    BY <1>1, <1>2, <1>4, <1>5, <2>1, PapersStand
<1>27. PortfoliosOK'
  <2>1. "portfolios" \in Docs \ {k}
    BY <1>1 DEF Docs
  <2>2. PortfoliosOK
    BY DEF BookInv
  <2> QED
    BY <1>1, <1>2, <2>1, <2>2, OthersKeepPortfolios
<1>28. ASSUME NEW j \in Papers PROVE \A q \in There(j)' : q \in There(j) \/ q.id = bookWrites + 1
  <2>1. CASE j = k
    BY <1>23, <2>1
  <2>2. CASE j # k
    BY <1>2, <2>2 DEF There, Docs
  <2> QED
    BY <2>1, <2>2
<1>29. ASSUME NEW s \in Requests PROVE AskOK(s)'
  <2>1. PICK ask : ask = asks'[s]
    OBVIOUS
  <2>2. ask = asks[s] \/ ask.step \notin {"built", "write"}
    BY <1>6, <2>1 DEF Waiting
  <2> QED
    BY <1>2, <1>28, <2>1, <2>2, AsksStand
<1> QED
  BY <1>7, <1>25, <1>26, <1>27, <1>29 DEF BookInv

\* Add, which may find the document unreadable.
LEMMA AddPaperKeeps ==
    ASSUME BookInv, NEW r \in Requests, AddPaper(r)
    PROVE  BookInv'
<1> DEFINE q == asks[r]
           new(at) == [id |-> bookWrites + 1, of |-> q.of, context |-> q.context, base |-> q.base,
                       known |-> q.known, at |-> at]
<1>1. q.step = "write" /\ q.kind \in Papers /\ q.kind \in Docs
  BY DEF AddPaper, BookInv, AskOK, Docs
<1>2. PICK b \in LoadLocked(q.kind), at \in {second, second + 1} :
        \/ b.err /\ Reads(r, q.kind, b, Waiting) /\ UNCHANGED <<shown, second>>
        \/ \E end \in BookEnds(q.kind, b), over \in Surplus(PapersOf(b.items \cup {new(at)}, q.of)) :
            /\ Cardinality({p \in PapersOf(b.items \cup {new(at)}, q.of) : p.at = at}) =< PaperLimit
            /\ PersistLocked(q.kind, b, (b.items \cup {new(at)}) \ over, end)
            /\ second' = at
            /\ Answered(r)
            /\ papersTold' = IF end = "done" THEN [papersTold EXCEPT ![q.kind] = @ \cup {new(at)}]
                             ELSE papersTold
            /\ UNCHANGED <<shown, deletions>>
  BY DEF AddPaper, NewId
<1>3. CASE b.err /\ Reads(r, q.kind, b, Waiting) /\ UNCHANGED <<shown, second>>
  BY <1>1, <1>3, ReadKeeps
<1>4. ASSUME NEW end \in BookEnds(q.kind, b), NEW over \in Surplus(PapersOf(b.items \cup {new(at)}, q.of)),
             Cardinality({p \in PapersOf(b.items \cup {new(at)}, q.of) : p.at = at}) =< PaperLimit,
             PersistLocked(q.kind, b, (b.items \cup {new(at)}) \ over, end),
             second' = at, Answered(r),
             papersTold' = IF end = "done" THEN [papersTold EXCEPT ![q.kind] = @ \cup {new(at)}]
                           ELSE papersTold,
             UNCHANGED <<shown, deletions>>
      PROVE  BookInv'
  <2>1. PICK paper : paper = new(at)
    OBVIOUS
  <2>2. paper.of = q.of /\ paper.at = at
    BY <2>1
  <2>3. PICK items : items = (b.items \cup {paper}) \ over
    OBVIOUS
  <2>4. /\ over \in Surplus(PapersOf(b.items \cup {paper}, paper.of))
        /\ Cardinality({p \in PapersOf(b.items \cup {paper}, paper.of) : p.at = paper.at}) =< PaperLimit
        /\ PersistLocked(q.kind, b, items, end)
        /\ papersTold' = IF end = "done" THEN [papersTold EXCEPT ![q.kind] = @ \cup {paper}]
                         ELSE papersTold
    BY <1>4, <2>1, <2>2, <2>3
  <2> QED
    BY <1>1, <1>4, <2>1, <2>3, <2>4, PaperWriteKeeps
<1> QED
  BY <1>2, <1>3, <1>4

\* The requests that read the portfolios.
LEMMA PortfolioReadsKeep ==
    ASSUME BookInv, NEW r \in Requests, NEW step \in Papers \cup {"patch"},
           ListPortfolios(r) \/ CountPortfolios(r) \/ GetPortfolio(r, step)
    PROVE  BookInv'
<1>1. BookTypeOK /\ "portfolios" \in Docs /\ Waiting.step = "waiting"
  BY DEF BookInv, Docs, Waiting
<1>2. CASE ListPortfolios(r)
  <2>1. PICK b \in LoadLocked("portfolios") :
          /\ Reads(r, "portfolios", b, Waiting)
          /\ shown' = shown \cup b.items
          /\ UNCHANGED second
    BY <1>2 DEF ListPortfolios
  <2>2. b.items \subseteq Working("portfolios")
    BY <1>1, LoadsWorking
  <2> QED
    BY <1>1, <2>1, <2>2, ReadKeeps
<1>3. CASE CountPortfolios(r)
  <2>1. PICK b \in LoadLocked("portfolios"), next \in {Waiting, [step |-> "create"]} :
          /\ Reads(r, "portfolios", b, next)
          /\ UNCHANGED <<shown, second>>
    BY <1>3 DEF CountPortfolios
  <2>2. next.step \notin {"built", "write"}
    BY <1>1
  <2> QED
    BY <1>1, <2>1, <2>2, ReadKeeps
<1>4. CASE GetPortfolio(r, step)
  <2>1. PICK b, p :
          /\ b \in LoadLocked("portfolios")
          /\ Reads(r, "portfolios", b, [step |-> step, portfolio |-> p])
          /\ UNCHANGED <<shown, second>>
    BY <1>4 DEF GetPortfolio
  <2>2. [step |-> step, portfolio |-> p].step \notin {"built", "write"}
    BY DEF Papers
  <2> QED
    BY <1>1, <2>1, <2>2, ReadKeeps
<1> QED
  BY <1>2, <1>3, <1>4

\* What needs no document.
LEMMA BookRestKeeps ==
    ASSUME BookInv, NEW r \in Requests, Build(r) \/ ReviewFails(r)
    PROVE  BookInv'
<1>1. BookTypeOK /\ Waiting.step = "waiting"
  BY DEF BookInv, Waiting
<1>2. /\ UNCHANGED <<docs, buckets, second, bookWrites, shown, deletions, papersTold>>
      /\ asks' = [s \in Requests |-> asks'[s]]
  BY <1>1 DEF Build, ReviewFails, Answered, BookTypeOK
<1>3. BookTypeOK'
  BY <1>1, <1>2 DEF BookTypeOK
<1>4. \A k \in Docs : Working(k)' = Working(k)
  BY <1>2 DEF Working
<1>5. ASSUME NEW s \in Requests
      PROVE  \/ asks'[s] = asks[s]
             \/ asks'[s].step \notin {"built", "write"}
             \/ /\ asks'[s].kind \in Papers
                /\ asks'[s].step = "write" => Judged(asks'[s].kind, asks'[s])
  <2>1. CASE Build(r)
    <3>1. /\ asks[r].step \in Papers
          /\ asks' = [asks EXCEPT ![r] = [step |-> "built", kind |-> asks[r].step,
                                          of |-> asks[r].portfolio.id,
                                          context |-> ContextOf(asks[r].portfolio, market)]]
      BY <2>1 DEF Build
    <3>2. CASE s # r
      BY <1>1, <3>1, <3>2 DEF BookTypeOK
    <3>3. CASE s = r
      <4>1. asks'[s].step = "built" /\ asks'[s].kind \in Papers
        BY <1>1, <3>1, <3>3 DEF BookTypeOK
      <4> QED
        BY <4>1
    <3> QED
      BY <3>2, <3>3
  <2>2. CASE ReviewFails(r)
    <3>1. asks' = [asks EXCEPT ![r] = Waiting]
      BY <2>2 DEF ReviewFails, Answered
    <3>2. asks'[s] \in {asks[s], Waiting}
      BY <1>1, <3>1 DEF BookTypeOK
    <3> QED
      BY <1>1, <3>2
  <2> QED
    BY <2>1, <2>2
<1> QED
  BY <1>2, <1>3, <1>4, <1>5, QuietStep

\* A start forgets what was not stored.
LEMMA RestartBookKeeps ==
    ASSUME BookInv, RestartBook
    PROVE  BookInv'
<1>1. /\ buckets' = [k \in Docs |-> Unloaded] /\ asks' = [r \in Requests |-> Waiting]
      /\ UNCHANGED <<docs, second, bookWrites, shown, deletions, papersTold>>
  BY DEF RestartBook
<1>2. Unloaded = [loaded |-> FALSE, items |-> {}, err |-> FALSE]
  BY DEF Unloaded
<1>3. \A k \in Docs : buckets'[k] = Unloaded /\ Working(k)' = docs[k]
  BY <1>1, <1>2 DEF Working
<1>4. BookTypeOK'
  <2>1. \A k \in Docs : /\ buckets'[k] = [loaded |-> buckets'[k].loaded, items |-> buckets'[k].items,
                                          err |-> buckets'[k].err]
                        /\ ~buckets'[k].err
    BY <1>2, <1>3
  <2> QED
    BY <1>1, <2>1 DEF BookInv, BookTypeOK
<1>5. PortfoliosOK'
  <2>1. PortfoliosOK /\ Working("portfolios")' = docs["portfolios"]
    BY <1>3 DEF BookInv, Docs
  <2>2. \A p \in docs["portfolios"] : p.version \in Nat
    BY <2>1 DEF PortfoliosOK, PortfolioOK
  <2>3. \A s \in docs["portfolios"] : Leads(s, docs["portfolios"])
    BY <2>1, <2>2 DEF PortfoliosOK, Leads, Precedes
  <2> QED
    BY <1>1, <2>1, <2>3 DEF PortfoliosOK, PortfolioOK, Leads, Precedes
<1>6. ASSUME NEW k \in Papers PROVE PapersOK(k)'
  <2>1. PapersOK(k) /\ Working(k)' = docs[k]
    BY <1>3 DEF BookInv, Docs
  <2> QED
    BY <1>1, <2>1, PapersAreLoaded
<1>7. \A r \in Requests : AskOK(r)'
  BY <1>1 DEF AskOK, Waiting
<1> QED
  BY <1>4, <1>5, <1>6, <1>7 DEF BookInv

(***************************************************************************)
(* Nothing that was answered of the portfolios is lost, a version that was *)
(* answered stays what it was, and snapshots and reviews are compared with *)
(* what there is (portfolio_store.go, portfolio_snapshot_store.go,         *)
(* portfolio_review_store.go): for any requests in flight, any limits,     *)
(* faults and restarts, on files and on PostgreSQL.                        *)
(***************************************************************************)
THEOREM PortfoliosStandAsAnswered == BookSpec => []PortfoliosStand
<1>1. BookInit => BookInv
  <2> SUFFICES ASSUME BookInit PROVE BookInv
    OBVIOUS
  <2>1. /\ docs = [k \in Docs |-> IF k = "portfolios" THEN {FirstVersion(0)} ELSE {}]
        /\ buckets = [k \in Docs |-> Unloaded]
        /\ asks = [r \in Requests |-> Waiting]
        /\ second = 0 /\ bookWrites = 0
        /\ shown = {FirstVersion(0)} /\ deletions = {} /\ papersTold = [k \in Papers |-> {}]
    BY DEF BookInit
  <2>2. Unloaded = [loaded |-> FALSE, items |-> {}, err |-> FALSE]
    BY DEF Unloaded
  <2>3. \A k \in Docs : buckets[k] = Unloaded /\ Working(k) = docs[k]
    BY <2>1, <2>2 DEF Working
  <2>4. BookTypeOK
    <3>1. \A k \in Docs : /\ buckets[k] = [loaded |-> buckets[k].loaded, items |-> buckets[k].items,
                                           err |-> buckets[k].err]
                          /\ ~buckets[k].err
      BY <2>2, <2>3
    <3> QED
      BY <2>1, <3>1 DEF BookTypeOK
  <2>5. PortfoliosOK
    <3>1. FirstVersion(0).id = 0 /\ FirstVersion(0).version = 1
      BY DEF FirstVersion
    <3>2. PICK v : v = FirstVersion(0)
      OBVIOUS
    <3>3. /\ docs["portfolios"] = {v} /\ Working("portfolios") = {v} /\ shown = {v}
          /\ v.id = 0 /\ v.version = 1 /\ 1 >= 1
      BY <2>1, <2>3, <3>1, <3>2 DEF Docs
    <3>4. Precedes(v, v) /\ PortfolioOK(v)
      BY <2>1, <3>3 DEF Precedes, PortfolioOK
    <3>5. Leads(v, {v})
      BY <3>4 DEF Leads
    <3> QED
      BY <3>3, <3>4, <3>5 DEF PortfoliosOK
  <2>6. ASSUME NEW k \in Papers PROVE PapersOK(k)
    <3>1. docs[k] = {} /\ Working(k) = {} /\ papersTold[k] = {}
      BY <2>1, <2>3 DEF Papers, Docs
    <3>2. IsFiniteSet({})
      BY FS_EmptySet
    <3> QED
      BY <3>1, <3>2 DEF PapersOK, There
  <2>7. \A r \in Requests : AskOK(r)
    BY <2>1 DEF AskOK, Waiting
  <2> QED
    BY <2>4, <2>5, <2>6, <2>7 DEF BookInv
<1>2. BookInv /\ [BookNext]_bookVars => BookInv'
  <2> SUFFICES ASSUME BookInv, [BookNext]_bookVars PROVE BookInv'
    OBVIOUS
  <2>1. ASSUME NEW r \in Requests,
               \/ ListPortfolios(r) \/ CountPortfolios(r)
               \/ \E step \in Papers \cup {"patch"} : GetPortfolio(r, step)
        PROVE  BookInv'
    <3>1. PICK step \in Papers \cup {"patch"} :
             ListPortfolios(r) \/ CountPortfolios(r) \/ GetPortfolio(r, step)
      BY <2>1
    <3> QED
      BY <3>1, PortfolioReadsKeep
  <2>2. ASSUME NEW r \in Requests, AddPortfolio(r) PROVE BookInv'
    BY <2>2, AddPortfolioKeeps
  <2>3. ASSUME NEW r \in Requests, PatchPortfolio(r) PROVE BookInv'
    BY <2>3, PatchKeeps
  <2>4. ASSUME NEW r \in Requests, Build(r) \/ ReviewFails(r) PROVE BookInv'
    BY <2>4, BookRestKeeps
  <2>5. ASSUME NEW r \in Requests, Look(r) PROVE BookInv'
    BY <2>5, LookKeeps
  <2>6. ASSUME NEW r \in Requests, AddPaper(r) PROVE BookInv'
    BY <2>6, AddPaperKeeps
  <2>7. CASE DeletePortfolio
    BY <2>7, DeletePortfolioKeeps
  <2>8. CASE MarketMoves \/ UNCHANGED bookVars
    <3>1. UNCHANGED <<docs, buckets, asks, second, bookWrites, shown, deletions, papersTold>>
      BY <2>8 DEF MarketMoves, bookVars
    <3>2. BookTypeOK' /\ \A k \in Docs : Working(k)' = Working(k)
      BY <3>1 DEF BookInv, BookTypeOK, Working
    <3> QED
      BY <3>1, <3>2, QuietStep
  <2>9. CASE RestartBook
    BY <2>9, RestartBookKeeps
  <2> QED
    BY <2>1, <2>2, <2>3, <2>4, <2>5, <2>6, <2>7, <2>8, <2>9 DEF BookNext
<1>3. BookInv => PortfoliosStand
  <2> SUFFICES ASSUME BookInv PROVE PortfoliosStand
    OBVIOUS
  <2>1. PortfoliosOK /\ \A k \in Papers : PapersOK(k)
    BY DEF BookInv
  <2>2. ASSUME NEW s \in shown
        PROVE  s.id \in deletions \/ \E p \in docs["portfolios"] : p.id = s.id /\ p.version >= s.version
    BY <2>1 DEF PortfoliosOK, Leads, Precedes
  <2>3. \A s, t \in shown : s.id = t.id /\ s.version = t.version => s = t
    BY <2>1 DEF PortfoliosOK
  <2>4. \A k \in Papers : \A p \in papersTold[k] :
          \/ p \in docs[k]
          \/ Cardinality({q \in PapersOf(docs[k], p.of) : q.at >= p.at}) >= PaperLimit
    BY <2>1 DEF PapersOK, KeptIn
  <2>5. ASSUME NEW k \in Papers, NEW p \in docs[k] PROVE Judged(k, p)
    BY <2>1 DEF PapersOK, There
  <2>6. \A p \in docs["snapshots"] :
          /\ \A id \in p.known : id =< p.base
          /\ \A q \in docs["snapshots"] : q.id = p.base => q.context # p.context
    BY <2>5 DEF Papers, Judged, There
  <2>7. \A p, q \in docs["reviews"] : p.context = q.context /\ p.of = q.of => p.id \notin q.known
    BY <2>5 DEF Papers, Judged, There
  <2> QED
    BY <2>2, <2>3, <2>4, <2>6, <2>7 DEF PortfoliosStand
<1> QED
  BY <1>1, <1>2, <1>3, PTL DEF BookSpec

-----------------------------------------------------------------------------
(***************************************************************************)
(* Saved reviews and the guide of the first session (GuidedReview).        *)
(***************************************************************************)
SavedReviews == [id : Nat, thesis : Guided, challenge : BOOLEAN, rated : BOOLEAN]
Lists == Seq(SavedReviews)
Guides == [status : {"not_started", "in_progress", "completed"}, proof : Guided \cup {"none"}]

\* The theses that a list has a challenge of.
ChallengedIn(list) == {list[i].thesis : i \in {j \in DOMAIN list : list[j].challenge}}

\* The log in memory has the reviews of the document, until a delete is refused on files.
LogOK ==
    /\ guideRows \in BOOLEAN /\ reviewIds \in Nat /\ spoilt \in BOOLEAN
    /\ reviewsDoc \in Lists /\ ChallengedIn(reviewsDoc) \subseteq everChallenged
    /\ \/ reviewsMem = NoLog
       \/ /\ reviewsMem.held = TRUE /\ reviewsMem.paired \in BOOLEAN
          /\ reviewsMem = [held |-> reviewsMem.held, list |-> reviewsMem.list, paired |-> reviewsMem.paired]
          /\ reviewsMem.list \in Lists
          /\ ChallengedIn(reviewsMem.list) \subseteq everChallenged
          /\ ~spoilt => Idents(reviewsMem.list) = Idents(reviewsDoc)
    /\ ReviewsAreKept

\* A guide in memory is the document, unless it is broken; then it is no further.
GuideOK ==
    /\ guideDoc \in Guides /\ guideBroken \in BOOLEAN
    /\ guideMem \in Guides \cup {NoGuide}
    /\ guideMem \in {NoGuide, guideDoc} \/ guideBroken
    /\ guideMem.status = "completed" => guideDoc.status = "completed"
    /\ guideDoc.status = "completed" => guideDoc.proof \in everLinked \cap everChallenged

\* What a request has read of the proof was so; one request at most tells of the completion.
ChecksOK ==
    /\ checks = [b \in Browsers |-> checks[b]]
    /\ linked \subseteq everLinked
    /\ \A b \in Browsers :
        /\ checks[b].step = "reviews" => checks[b].linked \subseteq everLinked
        /\ checks[b].step = "complete" => checks[b].proof \in Guided \cap everLinked \cap everChallenged
        /\ checks[b].step = "emit" => guideDoc.status = "completed" /\ emitted = 0
    /\ \A b, c \in Browsers : checks[b].step = "emit" /\ checks[c].step = "emit" => b = c
    /\ emitted \in {0, 1}
    /\ emitted = 1 => guideDoc.status = "completed"
    /\ linked \subseteq Guided /\ owned \subseteq Guided

GuideInv == LogOK /\ GuideOK /\ ChecksOK

\* Past the cap the oldest go.
LEMMA CappedIsOf ==
    ASSUME NEW S, NEW list \in Seq(S)
    PROVE  /\ Capped(list) \in Seq(S)
           /\ \A i \in DOMAIN Capped(list) : \E j \in DOMAIN list : Capped(list)[i] = list[j]
<1>1. Len(list) \in Nat /\ DOMAIN list = 1..Len(list) /\ MaxKept \in Nat \ {0}
  BY GuidedAssumption
<1>2. CASE Len(list) =< MaxKept
  BY <1>2 DEF Capped
<1>3. CASE ~(Len(list) =< MaxKept)
  <2> DEFINE m == Len(list) - MaxKept + 1
  <2>1. m \in 1..Len(list) + 1 /\ Len(list) \in m - 1..Len(list)
    BY <1>1, <1>3
  <2>2. Capped(list) = SubSeq(list, m, Len(list))
    BY <1>3 DEF Capped
  <2> HIDE DEF m
  <2>3. /\ SubSeq(list, m, Len(list)) \in Seq(S)
        /\ DOMAIN SubSeq(list, m, Len(list)) = 1..(Len(list) - m + 1)
        /\ \A i \in 1..(Len(list) - m + 1) : SubSeq(list, m, Len(list))[i] = list[m + i - 1]
    BY <1>1, <2>1, SubSeqProperties
  <2>4. \A i \in 1..(Len(list) - m + 1) : m + i - 1 \in DOMAIN list
    BY <1>1, <2>1
  <2> QED
    BY <2>2, <2>3, <2>4
<1> QED
  BY <1>2, <1>3

\* Without one of them the others are there.
LEMMA WithoutOne ==
    ASSUME NEW S, NEW list \in Seq(S), NEW i \in DOMAIN list
    PROVE  /\ Without(list, i) \in Seq(S)
           /\ \A j \in DOMAIN Without(list, i) : \E m \in DOMAIN list : Without(list, i)[j] = list[m]
           /\ \A j \in DOMAIN list \ {i} : \E m \in DOMAIN Without(list, i) : Without(list, i)[m] = list[j]
<1> DEFINE n == Len(list)
           a == SubSeq(list, 1, i - 1)
           b == SubSeq(list, i + 1, n)
<1>1. n \in Nat /\ DOMAIN list = 1..n /\ i \in 1..n
  OBVIOUS
<1>2. /\ a \in Seq(S) /\ Len(a) = i - 1
      /\ \A j \in 1..i - 1 : a[j] = list[j]
  <2>1. 1 \in 1..n + 1 /\ i - 1 \in 1 - 1..n
    BY <1>1
  <2> HIDE DEF n
  <2>2. /\ a \in Seq(S) /\ Len(a) = IF 1 <= i - 1 THEN (i - 1) - 1 + 1 ELSE 0
        /\ \A j \in 1..(i - 1) - 1 + 1 : a[j] = list[1 + j - 1]
    BY <1>1, <2>1, SubSeqProperties DEF n
  <2> HIDE DEF a
  <2> QED
    BY <1>1, <2>2
<1>3. /\ b \in Seq(S) /\ Len(b) = n - i
      /\ \A j \in 1..n - i : b[j] = list[i + j]
  <2>1. i + 1 \in 1..n + 1 /\ n \in (i + 1) - 1..n
    BY <1>1
  <2> HIDE DEF n
  <2>2. /\ b \in Seq(S) /\ Len(b) = IF i + 1 <= n THEN n - (i + 1) + 1 ELSE 0
        /\ \A j \in 1..n - (i + 1) + 1 : b[j] = list[(i + 1) + j - 1]
    BY <1>1, <2>1, SubSeqProperties DEF n
  <2> HIDE DEF b
  <2>3. Len(b) = n - i
    BY <1>1, <2>2
  <2>4. ASSUME NEW j \in 1..n - i PROVE b[j] = list[i + j]
    <3>1. j \in 1..n - (i + 1) + 1 /\ (i + 1) + j - 1 = i + j
      BY <1>1
    <3> QED
      BY <2>2, <3>1
  <2> QED
    BY <2>2, <2>3, <2>4
<1> HIDE DEF a, b
<1>4. Without(list, i) = a \o b
  BY DEF Without, a, b
<1>5. /\ a \o b \in Seq(S) /\ DOMAIN (a \o b) = 1..Len(a) + Len(b)
      /\ \A j \in 1..Len(a) + Len(b) : (a \o b)[j] = IF j <= Len(a) THEN a[j] ELSE b[j - Len(a)]
  BY <1>2, <1>3, ConcatProperties, SMTT(30)
<1> HIDE DEF n
<1>6. /\ DOMAIN (a \o b) = 1..n - 1
      /\ \A j \in 1..n - 1 : (a \o b)[j] = IF j <= i - 1 THEN list[j] ELSE list[j + 1]
  <2>1. Len(a) + Len(b) = n - 1
    BY <1>1, <1>2, <1>3
  <2>2. ASSUME NEW j \in 1..n - 1 PROVE (a \o b)[j] = IF j <= i - 1 THEN list[j] ELSE list[j + 1]
    <3>1. CASE j <= i - 1
      <4>1. j \in 1..i - 1 /\ j <= Len(a)
        BY <1>1, <1>2, <3>1
      <4> QED
        BY <1>2, <1>5, <2>1, <3>1, <4>1
    <3>2. CASE ~(j <= i - 1)
      <4>1. j - Len(a) \in 1..n - i /\ ~(j <= Len(a)) /\ i + (j - Len(a)) = j + 1
        BY <1>1, <1>2, <3>2
      <4> QED
        BY <1>3, <1>5, <2>1, <3>2, <4>1
    <3> QED
      BY <3>1, <3>2
  <2> QED
    BY <1>5, <2>1, <2>2
<1>7. ASSUME NEW j \in 1..n - 1 PROVE \E m \in DOMAIN list : (a \o b)[j] = list[m]
  <2>1. j \in DOMAIN list /\ j + 1 \in DOMAIN list
    BY <1>1
  <2> QED
    BY <1>6, <2>1
<1>8. ASSUME NEW j \in DOMAIN list \ {i} PROVE \E m \in 1..n - 1 : (a \o b)[m] = list[j]
  <2>1. CASE j < i
    <3>1. j \in 1..n - 1 /\ j <= i - 1
      BY <1>1, <2>1
    <3> QED
      BY <1>6, <3>1
  <2>2. CASE ~(j < i)
    <3>1. j - 1 \in 1..n - 1 /\ ~(j - 1 <= i - 1) /\ (j - 1) + 1 = j
      BY <1>1, <2>2
    <3> QED
      BY <1>6, <3>1
  <2> QED
    BY <2>1, <2>2
<1> QED
  BY <1>4, <1>5, <1>6, <1>7, <1>8

\* What the lists of the requests are: with the one that was there, less one, or with one rated.
LEMMA ListsOf ==
    ASSUME NEW list, NEW from, list \in Lists, from \in Lists,
           \A i \in DOMAIN list : \E j \in DOMAIN from :
              /\ list[i].challenge = from[j].challenge /\ list[i].thesis = from[j].thesis
    PROVE  ChallengedIn(list) \subseteq ChallengedIn(from)
BY DEF ChallengedIn

\* A capped list challenges no more, and with those that fell has every review.
LEMMA CappedTells ==
    ASSUME NEW list \in Lists
    PROVE  /\ Capped(list) \in Lists
           /\ ChallengedIn(Capped(list)) \subseteq ChallengedIn(list)
           /\ Idents(Capped(list)) \subseteq Idents(list)
<1>1. /\ Capped(list) \in Lists
      /\ \A i \in DOMAIN Capped(list) : \E j \in DOMAIN list : Capped(list)[i] = list[j]
  BY CappedIsOf DEF Lists
<1>2. ChallengedIn(Capped(list)) \subseteq ChallengedIn(list)
  BY <1>1, ListsOf
<1> QED
  BY <1>1, <1>2 DEF Idents

\* A review at the end of the list.
LEMMA WithReview ==
    ASSUME NEW list \in Lists, NEW review \in SavedReviews
    PROVE  /\ Append(list, review) \in Lists
           /\ Idents(Append(list, review)) = Idents(list) \cup {review.id}
           /\ ChallengedIn(Append(list, review)) \subseteq
                 ChallengedIn(list) \cup IF review.challenge THEN {review.thesis} ELSE {}
<1> DEFINE more == Append(list, review)
<1>1. /\ more \in Lists /\ DOMAIN list = 1..Len(list) /\ Len(list) \in Nat
      /\ DOMAIN more = 1..Len(list) + 1
      /\ \A i \in 1..Len(list) : more[i] = list[i]
      /\ more[Len(list) + 1] = review
  BY AppendProperties DEF Lists
<1> HIDE DEF more
<1>2. \A i \in DOMAIN more : i \in DOMAIN list \/ i = Len(list) + 1
  BY <1>1
<1>3. DOMAIN list \subseteq DOMAIN more /\ Len(list) + 1 \in DOMAIN more
  BY <1>1
<1>4. Idents(more) = Idents(list) \cup {review.id}
  <2>1. Idents(more) \subseteq Idents(list) \cup {review.id}
    BY <1>1, <1>2 DEF Idents
  <2>2. Idents(list) \cup {review.id} \subseteq Idents(more)
    <3>1. Idents(list) \subseteq Idents(more)
      BY <1>1, <1>3 DEF Idents
    <3>2. review.id \in Idents(more)
      BY <1>1, <1>3 DEF Idents
    <3> QED
      BY <3>1, <3>2
  <2> QED
    BY <2>1, <2>2
<1>5. ASSUME NEW t \in ChallengedIn(more)
      PROVE  t \in ChallengedIn(list) \cup IF review.challenge THEN {review.thesis} ELSE {}
  <2>1. PICK i \in DOMAIN more : more[i].challenge /\ t = more[i].thesis
    BY DEF ChallengedIn
  <2>2. CASE i \in DOMAIN list
    BY <1>1, <2>1, <2>2 DEF ChallengedIn
  <2>3. CASE i = Len(list) + 1
    BY <1>1, <2>1, <2>3
  <2> QED
    BY <1>2, <2>2, <2>3
<1> QED
  BY <1>1, <1>4, <1>5 DEF more

\* A rated review is the same review.
LEMMA RatedIsSame ==
    ASSUME NEW review \in SavedReviews
    PROVE  LET rated == [review EXCEPT !.rated = TRUE] IN
              /\ rated \in SavedReviews
              /\ rated.id = review.id /\ rated.thesis = review.thesis
              /\ rated.challenge = review.challenge
BY DEF SavedReviews

\* Once one of its reviews is rated, a list has the same reviews, and challenges of no other thesis.
LEMMA RatedTells ==
    ASSUME NEW log, log.list \in Lists, NEW i \in DOMAIN log.list
    PROVE  /\ Rated(log, i) \in Lists
           /\ Idents(Rated(log, i)) = Idents(log.list)
           /\ ChallengedIn(Rated(log, i)) \subseteq ChallengedIn(log.list)
<1> DEFINE list == log.list
           now == Rated(log, i)
<1>1. /\ list = [j \in 1..Len(list) |-> list[j]] /\ DOMAIN list = 1..Len(list) /\ Len(list) \in Nat
      /\ \A j \in DOMAIN list : list[j] \in SavedReviews
  BY DEF Lists
<1>2. now = [j \in 1..Len(list) |-> IF j = i \/ (log.paired /\ list[j].id = list[i].id)
                                  THEN [list[j] EXCEPT !.rated = TRUE] ELSE list[j]]
  BY <1>1 DEF Rated
<1>3. ASSUME NEW j \in 1..Len(list)
      PROVE  /\ now[j] \in SavedReviews
             /\ now[j].id = list[j].id /\ now[j].thesis = list[j].thesis
             /\ now[j].challenge = list[j].challenge
  <2>1. now[j] \in {list[j], [list[j] EXCEPT !.rated = TRUE]}
    BY <1>2
  <2>2. list[j] \in SavedReviews
    BY <1>1
  <2> QED
    BY <2>1, <2>2, RatedIsSame
<1>4. DOMAIN now = DOMAIN list
  BY <1>1, <1>2
<1> HIDE DEF now
<1>5. now \in Lists
  <2>1. now = [j \in 1..Len(list) |-> now[j]]
    BY <1>2
  <2>2. now \in [1..Len(list) -> SavedReviews]
    BY <1>3, <2>1
  <2> QED
    BY <1>1, <2>2 DEF Lists
<1>6. Idents(now) = Idents(list)
  BY <1>1, <1>3, <1>4 DEF Idents
<1>7. ChallengedIn(now) \subseteq ChallengedIn(list)
  BY <1>1, <1>3, <1>4 DEF ChallengedIn
<1> QED
  BY <1>5, <1>6, <1>7 DEF now

\* Without a review the others are there.
LEMMA WithoutTells ==
    ASSUME NEW list \in Lists, NEW i \in DOMAIN list
    PROVE  /\ Without(list, i) \in Lists
           /\ Idents(list) \ {list[i].id} \subseteq Idents(Without(list, i))
           /\ ChallengedIn(Without(list, i)) \subseteq ChallengedIn(list)
<1>1. /\ Without(list, i) \in Lists
      /\ \A j \in DOMAIN Without(list, i) : \E m \in DOMAIN list : Without(list, i)[j] = list[m]
      /\ \A j \in DOMAIN list \ {i} : \E m \in DOMAIN Without(list, i) : Without(list, i)[m] = list[j]
  BY WithoutOne DEF Lists
<1>2. ChallengedIn(Without(list, i)) \subseteq ChallengedIn(list)
  BY <1>1, ListsOf
<1>3. ASSUME NEW id \in Idents(list) \ {list[i].id} PROVE id \in Idents(Without(list, i))
  <2>1. PICK j \in DOMAIN list \ {i} : list[j].id = id
    BY DEF Idents
  <2> QED
    BY <1>1, <2>1 DEF Idents
<1> QED
  BY <1>1, <1>2, <1>3

\* What a refused delete leaves in memory has no new challenge.
LEMMA ShiftedTells ==
    ASSUME NEW list \in Lists, NEW i \in DOMAIN list, NEW paired \in BOOLEAN, NEW log,
           log = [held |-> TRUE, list |-> list, paired |-> paired]
    PROVE  \E moved \in Lists :
              /\ Shifted(log, i) = [held |-> TRUE, list |-> moved, paired |-> TRUE]
              /\ ChallengedIn(moved) \subseteq ChallengedIn(list)
<1> DEFINE moved == [j \in DOMAIN list |->
                        IF j < i \/ j = Len(list) THEN list[j] ELSE list[j + 1]]
<1>1. /\ DOMAIN list = 1..Len(list) /\ Len(list) \in Nat
      /\ \A j \in DOMAIN list : list[j] \in SavedReviews
  BY DEF Lists
<1>2. ASSUME NEW j \in DOMAIN list PROVE \E m \in DOMAIN list : moved[j] = list[m]
  <2>1. CASE j < i \/ j = Len(list)
    BY <2>1
  <2>2. CASE ~(j < i \/ j = Len(list))
    <3>1. j + 1 \in DOMAIN list
      BY <1>1, <2>2
    <3> QED
      BY <2>2, <3>1
  <2> QED
    BY <2>1, <2>2
<1>3. moved = [j \in 1..Len(list) |-> moved[j]] /\ DOMAIN moved = DOMAIN list
  BY <1>1
<1>4. Shifted(log, i) = [held |-> TRUE, list |-> moved, paired |-> TRUE]
  BY DEF Shifted
<1> HIDE DEF moved
<1>5. moved \in Lists
  <2>1. moved \in [1..Len(list) -> SavedReviews]
    BY <1>1, <1>2, <1>3
  <2> QED
    BY <1>1, <2>1 DEF Lists
<1>6. ChallengedIn(moved) \subseteq ChallengedIn(list)
  BY <1>2, <1>3, <1>5, ListsOf
<1> QED
  BY <1>4, <1>5, <1>6

\* The log a handler reads.
LEMMA LogReads ==
    ASSUME LogOK, NEW log \in LogRead
    PROVE  /\ log = [held |-> TRUE, list |-> log.list, paired |-> log.paired]
           /\ log.list \in Lists /\ log.paired \in BOOLEAN
           /\ ChallengedIn(log.list) \subseteq everChallenged
           /\ ~spoilt => Idents(log.list) = Idents(reviewsDoc)
<1>1. NoLog.held = FALSE
  BY DEF NoLog
<1>2. CASE reviewsMem.held
  <2>1. log = reviewsMem /\ reviewsMem # NoLog
    BY <1>1, <1>2 DEF LogRead
  <2> QED
    BY <2>1 DEF LogOK
<1>3. CASE ~reviewsMem.held
  <2>1. log = FromDocument
    BY <1>3 DEF LogRead
  <2>2. log = [held |-> TRUE, list |-> reviewsDoc, paired |-> FALSE]
    BY <2>1 DEF FromDocument
  <2>3. log.list = reviewsDoc /\ log.paired = FALSE /\ log.held = TRUE
    BY <2>2
  <2> QED
    BY <2>2, <2>3 DEF LogOK
<1> QED
  BY <1>2, <1>3

\* A write of the log.
LEMMA SaveLogKeeps ==
    ASSUME GuideInv, NEW log \in LogRead, NEW list \in Lists, NEW leftBehind, NEW end,
           end \in GuideEnds(0), SaveLog(log, list, leftBehind, end),
           leftBehind = [held |-> TRUE, list |-> leftBehind.list, paired |-> leftBehind.paired],
           leftBehind.list \in Lists, leftBehind.paired \in BOOLEAN,
           ChallengedIn(leftBehind.list) \subseteq everChallenged,
           end = "refused" /\ ~guideRows /\ ~spoilt' => Idents(leftBehind.list) = Idents(reviewsDoc),
           ChallengedIn(list) \subseteq everChallenged' \/ end = "refused",
           everChallenged \subseteq everChallenged', reviewIds' \in Nat, spoilt' \in BOOLEAN,
           ~spoilt' => ~spoilt,
           ~spoilt' /\ end \in {"done", "lost"} => saved' \subseteq Idents(list) \cup fallen,
           end = "refused" => saved' \subseteq saved
    PROVE  GuideInv'
<1>1. LogOK /\ GuideOK /\ ChecksOK
  BY DEF GuideInv
<1>2. end \in {"done", "refused", "lost"}
  BY DEF GuideEnds
<1>3. /\ reviewsDoc' = IF end \in {"done", "lost"} THEN Capped(list) ELSE reviewsDoc
      /\ reviewsMem' = IF end = "done" THEN [held |-> TRUE, list |-> Capped(list), paired |-> log.paired]
                       ELSE IF guideRows \/ end = "lost" THEN NoLog ELSE leftBehind
      /\ fallen' = IF end \in {"done", "lost"} THEN fallen \cup (Idents(list) \ Idents(Capped(list))) ELSE fallen
      /\ UNCHANGED <<guideRows, guideDoc, emitted, linked, owned, everLinked>>
  BY DEF SaveLog, InDocument, elsewhere, Counted
<1>4. /\ Capped(list) \in Lists
      /\ ChallengedIn(Capped(list)) \subseteq ChallengedIn(list)
      /\ Idents(Capped(list)) \subseteq Idents(list)
  BY CappedTells
<1>5. log.paired \in BOOLEAN
  BY <1>1, LogReads
<1>6. reviewsDoc' \in Lists /\ ChallengedIn(reviewsDoc') \subseteq everChallenged'
  <2>1. CASE end \in {"done", "lost"}
    BY <1>3, <1>4, <2>1
  <2>2. CASE end = "refused"
    BY <1>1, <1>3, <2>2 DEF LogOK
  <2> QED
    BY <1>2, <2>1, <2>2
<1>7. \/ reviewsMem' = NoLog
      \/ /\ reviewsMem'.held = TRUE /\ reviewsMem'.paired \in BOOLEAN
         /\ reviewsMem' = [held |-> reviewsMem'.held, list |-> reviewsMem'.list, paired |-> reviewsMem'.paired]
         /\ reviewsMem'.list \in Lists
         /\ ChallengedIn(reviewsMem'.list) \subseteq everChallenged'
         /\ ~spoilt' => Idents(reviewsMem'.list) = Idents(reviewsDoc')
  <2>1. CASE end = "done"
    <3>1. reviewsMem' = [held |-> TRUE, list |-> Capped(list), paired |-> log.paired]
      BY <1>3, <2>1
    <3>2. /\ reviewsMem'.held = TRUE /\ reviewsMem'.list = Capped(list)
          /\ reviewsMem'.paired = log.paired /\ reviewsDoc' = Capped(list)
      BY <1>3, <2>1, <3>1
    <3> QED
      BY <1>4, <1>5, <1>6, <3>1, <3>2
  <2>2. CASE end = "lost" \/ (guideRows /\ end # "done")
    BY <1>3, <2>2
  <2>3. CASE end = "refused" /\ ~guideRows
    <3>1. reviewsMem' = leftBehind /\ reviewsDoc' = reviewsDoc
      BY <1>3, <2>3
    <3> QED
      BY <2>3, <3>1
  <2> QED
    BY <1>2, <2>1, <2>2, <2>3
<1>8. ReviewsAreKept'
  <2>1. ASSUME ~spoilt' PROVE saved' \subseteq Idents(reviewsDoc') \cup fallen'
    <3>1. CASE end \in {"done", "lost"}
      BY <1>3, <2>1, <3>1
    <3>2. CASE end = "refused"
      BY <1>1, <1>3, <2>1, <3>2 DEF LogOK, ReviewsAreKept
    <3> QED
      BY <1>2, <3>1, <3>2
  <2> QED
    BY <2>1 DEF ReviewsAreKept
<1>9. LogOK'
  BY <1>1, <1>3, <1>6, <1>7, <1>8 DEF LogOK
<1>10. \/ /\ GuideStops(end)
          /\ guideMem' = NoGuide /\ guideBroken' = FALSE
          /\ checks' = [b \in Browsers |-> Away]
       \/ UNCHANGED <<guideMem, guideBroken, checks>>
  BY DEF SaveLog
<1>11. NoGuide.status = "not loaded" /\ Away.step = "away"
  BY DEF NoGuide, Away
<1>12. GuideOK'
  BY <1>1, <1>3, <1>10, <1>11 DEF GuideOK
<1>13. ChecksOK'
  <2>1. CASE checks' = [b \in Browsers |-> Away]
    BY <1>1, <1>3, <1>11, <2>1 DEF ChecksOK
  <2>2. CASE checks' = checks
    BY <1>1, <1>3, <2>2 DEF ChecksOK
  <2> QED
    BY <1>10, <2>1, <2>2
<1> QED
  BY <1>9, <1>12, <1>13 DEF GuideInv

\* POST /reviews.
LEMMA CreateReviewKeeps ==
    ASSUME GuideInv, CreateReview
    PROVE  GuideInv'
<1>1. PICK log, thesis, challenge, end, review :
        /\ log \in LogRead /\ thesis \in Guided /\ challenge \in BOOLEAN /\ end \in GuideEnds(0)
        /\ review = [id |-> reviewIds + 1, thesis |-> thesis, challenge |-> challenge, rated |-> FALSE]
        /\ reviewIds' = reviewIds + 1
        /\ SaveLog(log, Append(log.list, review), log, end)
        /\ saved' = IF end = "done" THEN saved \cup {review.id} ELSE saved
        /\ everChallenged' = IF challenge /\ InDocument(end) THEN everChallenged \cup {thesis}
                             ELSE everChallenged
        /\ UNCHANGED spoilt
  BY ZenonT(40) DEF CreateReview
<1>2. LogOK /\ reviewIds \in Nat /\ spoilt \in BOOLEAN
  BY DEF GuideInv, LogOK
<1>3. /\ log = [held |-> TRUE, list |-> log.list, paired |-> log.paired]
      /\ log.list \in Lists /\ log.paired \in BOOLEAN
      /\ ChallengedIn(log.list) \subseteq everChallenged
      /\ ~spoilt => Idents(log.list) = Idents(reviewsDoc)
  BY <1>1, <1>2, LogReads
<1>4. review \in SavedReviews /\ review.challenge = challenge /\ review.thesis = thesis
  BY <1>1, <1>2 DEF SavedReviews
<1>5. PICK list : list = Append(log.list, review)
  OBVIOUS
<1>6. /\ list \in Lists
      /\ Idents(list) = Idents(log.list) \cup {review.id}
      /\ ChallengedIn(list) \subseteq ChallengedIn(log.list) \cup IF challenge THEN {thesis} ELSE {}
  BY <1>3, <1>4, <1>5, WithReview
<1>7. end \in {"done", "refused", "lost"}
  BY <1>1 DEF GuideEnds
<1>8. /\ ChallengedIn(list) \subseteq everChallenged' \/ end = "refused"
      /\ everChallenged \subseteq everChallenged'
  BY <1>1, <1>3, <1>6, <1>7 DEF InDocument
<1>9. /\ ~spoilt' /\ end \in {"done", "lost"} => saved' \subseteq Idents(list) \cup fallen
      /\ end = "refused" => saved' \subseteq saved
  BY <1>1, <1>2, <1>3, <1>6 DEF LogOK, ReviewsAreKept
<1>10. SaveLog(log, list, log, end) /\ reviewIds' \in Nat /\ spoilt' = spoilt
  BY <1>1, <1>2, <1>5
<1> QED
  BY <1>1, <1>2, <1>3, <1>6, <1>8, <1>9, <1>10, SaveLogKeeps

\* PATCH /reviews/{id}.
LEMMA RateReviewKeeps ==
    ASSUME GuideInv, RateReview
    PROVE  GuideInv'
<1>1. PICK log \in LogRead, end \in GuideEnds(0) : \E i \in DOMAIN log.list :
        /\ SaveLog(log, Rated(log, i), [log EXCEPT !.list = Rated(log, i)], end)
        /\ UNCHANGED <<reviewIds, saved, spoilt, everChallenged>>
  BY DEF RateReview
<1>2. PICK i \in DOMAIN log.list :
        /\ SaveLog(log, Rated(log, i), [log EXCEPT !.list = Rated(log, i)], end)
        /\ UNCHANGED <<reviewIds, saved, spoilt, everChallenged>>
  BY <1>1
<1>3. LogOK /\ reviewIds \in Nat /\ spoilt \in BOOLEAN
  BY DEF GuideInv, LogOK
<1>4. /\ log = [held |-> TRUE, list |-> log.list, paired |-> log.paired]
      /\ log.list \in Lists /\ log.paired \in BOOLEAN
      /\ ChallengedIn(log.list) \subseteq everChallenged
      /\ ~spoilt => Idents(log.list) = Idents(reviewsDoc)
  BY <1>3, LogReads
<1>5. PICK list : list = Rated(log, i)
  OBVIOUS
<1>6. /\ list \in Lists
      /\ Idents(list) = Idents(log.list)
      /\ ChallengedIn(list) \subseteq ChallengedIn(log.list)
  BY <1>4, <1>5, RatedTells
<1>7. PICK behind : behind = [log EXCEPT !.list = list]
  OBVIOUS
<1>8. behind = [held |-> TRUE, list |-> list, paired |-> log.paired]
  <2>1. ASSUME NEW x, NEW y, NEW z, NEW v
        PROVE  [[held |-> x, list |-> y, paired |-> z] EXCEPT !.list = v]
                  = [held |-> x, list |-> v, paired |-> z]
    OBVIOUS
  <2>2. log = [held |-> log.held, list |-> log.list, paired |-> log.paired]
    BY <1>4
  <2>3. [log EXCEPT !.list = list] = [held |-> log.held, list |-> list, paired |-> log.paired]
    BY <2>1, <2>2
  <2>4. log.held = TRUE
    BY <1>4
  <2> QED
    BY <1>7, <2>3, <2>4
<1>9. /\ behind = [held |-> TRUE, list |-> behind.list, paired |-> behind.paired]
      /\ behind.list = list /\ behind.paired = log.paired
  BY <1>8
<1>10. SaveLog(log, list, behind, end)
  BY <1>2, <1>5, <1>7
<1>11. /\ ~spoilt' /\ end \in {"done", "lost"} => saved' \subseteq Idents(list) \cup fallen
       /\ end = "refused" => saved' \subseteq saved
  BY <1>2, <1>3, <1>4, <1>6 DEF LogOK, ReviewsAreKept
<1>12. /\ behind.list \in Lists /\ behind.paired \in BOOLEAN
       /\ ChallengedIn(behind.list) \subseteq everChallenged
       /\ ~spoilt' => Idents(behind.list) = Idents(reviewsDoc)
       /\ ChallengedIn(list) \subseteq everChallenged' /\ everChallenged \subseteq everChallenged'
       /\ reviewIds' \in Nat /\ spoilt' \in BOOLEAN /\ (~spoilt' => ~spoilt)
  BY <1>2, <1>3, <1>4, <1>6, <1>9
<1> QED
  BY <1>6, <1>9, <1>10, <1>11, <1>12, SaveLogKeeps

\* DELETE /reviews/{id}.
LEMMA DeleteReviewKeeps ==
    ASSUME GuideInv, DeleteReview
    PROVE  GuideInv'
<1>1. PICK log \in LogRead, end \in GuideEnds(0) : \E i \in DOMAIN log.list :
        /\ SaveLog(log, Without(log.list, i), Shifted(log, i), end)
        /\ saved' = saved \ {log.list[i].id}
        /\ spoilt' = (spoilt \/ (~guideRows /\ end = "refused"))
        /\ UNCHANGED <<reviewIds, everChallenged>>
  BY DEF DeleteReview
<1>2. PICK i \in DOMAIN log.list :
        /\ SaveLog(log, Without(log.list, i), Shifted(log, i), end)
        /\ saved' = saved \ {log.list[i].id}
        /\ spoilt' = (spoilt \/ (~guideRows /\ end = "refused"))
        /\ UNCHANGED <<reviewIds, everChallenged>>
  BY <1>1
<1>3. LogOK /\ reviewIds \in Nat /\ spoilt \in BOOLEAN /\ guideRows \in BOOLEAN
  BY DEF GuideInv, LogOK
<1>4. /\ log = [held |-> TRUE, list |-> log.list, paired |-> log.paired]
      /\ log.list \in Lists /\ log.paired \in BOOLEAN
      /\ ChallengedIn(log.list) \subseteq everChallenged
      /\ ~spoilt => Idents(log.list) = Idents(reviewsDoc)
  BY <1>3, LogReads
<1>5. PICK list : list = Without(log.list, i)
  OBVIOUS
<1>6. /\ list \in Lists
      /\ Idents(log.list) \ {log.list[i].id} \subseteq Idents(list)
      /\ ChallengedIn(list) \subseteq ChallengedIn(log.list)
  BY <1>4, <1>5, WithoutTells
<1>7. PICK moved \in Lists :
        /\ Shifted(log, i) = [held |-> TRUE, list |-> moved, paired |-> TRUE]
        /\ ChallengedIn(moved) \subseteq ChallengedIn(log.list)
  BY <1>4, ShiftedTells
<1>8. PICK behind : behind = Shifted(log, i)
  OBVIOUS
<1>9. /\ behind = [held |-> TRUE, list |-> behind.list, paired |-> behind.paired]
      /\ behind.list = moved /\ behind.paired = TRUE
  BY <1>7, <1>8
<1>10. SaveLog(log, list, behind, end)
  BY <1>2, <1>5, <1>8
<1>11. /\ ~spoilt' => ~spoilt /\ ~(~guideRows /\ end = "refused")
       /\ spoilt' \in BOOLEAN
  BY <1>2, <1>3
<1>12. /\ ~spoilt' /\ end \in {"done", "lost"} => saved' \subseteq Idents(list) \cup fallen
       /\ end = "refused" => saved' \subseteq saved
  BY <1>2, <1>3, <1>4, <1>6, <1>11 DEF LogOK, ReviewsAreKept
<1>13. /\ behind.list \in Lists /\ behind.paired \in BOOLEAN
       /\ ChallengedIn(behind.list) \subseteq everChallenged
       /\ ChallengedIn(list) \subseteq everChallenged' /\ everChallenged \subseteq everChallenged'
       /\ reviewIds' \in Nat
  BY <1>2, <1>3, <1>4, <1>6, <1>7, <1>9
<1> QED
  BY <1>6, <1>9, <1>10, <1>11, <1>12, <1>13, SaveLogKeeps

\* A guide that is loaded and not broken is the document's.
LEMMA GuideLoadIs ==
    ASSUME GuideOK, NEW load \in GuideLoads
    PROVE  /\ load.guide \in Guides /\ load.broken \in BOOLEAN
           /\ ~load.broken => load.guide = guideDoc
           /\ load.guide.status = "completed" => guideDoc.status = "completed"
<1>1. CASE guideMem # NoGuide
  <2>1. load = [guide |-> guideMem, broken |-> guideBroken, faults |-> 0]
    BY <1>1 DEF GuideLoads
  <2>2. load.guide = guideMem /\ load.broken = guideBroken
    BY <2>1
  <2> QED
    BY <1>1, <2>2 DEF GuideOK
<1>2. CASE guideMem = NoGuide
  <2>1. \/ load = [guide |-> guideDoc, broken |-> guideBroken, faults |-> 0]
        \/ load = [guide |-> NewGuide, broken |-> TRUE, faults |-> 1]
    BY <1>2 DEF GuideLoads
  <2>2. \/ load.guide = guideDoc /\ load.broken = guideBroken
        \/ load.guide = NewGuide /\ load.broken = TRUE
    BY <2>1
  <2>3. NewGuide \in Guides /\ NewGuide.status = "not_started"
    BY DEF NewGuide, Guides
  <2> QED
    BY <2>2, <2>3 DEF GuideOK
<1> QED
  BY <1>1, <1>2

\* A write of the guide: the document takes it only when memory was the document.
LEMMA PersistKeeps ==
    ASSUME GuideInv, NEW load \in GuideLoads, NEW next \in Guides, NEW end,
           PersistGuide(load, next, end),
           load.guide.status = "completed" => next.status = "completed",
           ~load.broken /\ next.status = "completed" =>
              next.proof \in everLinked \cap everChallenged
    PROVE  /\ LogOK' /\ GuideOK'
           /\ end \in {"done", "refused", "lost", "unwritable"}
           /\ end \in {"done", "refused", "lost"} => load.guide = guideDoc
           /\ guideDoc.status = "completed" => guideDoc'.status = "completed"
           /\ end = "done" => guideDoc' = next
           /\ UNCHANGED <<linked, owned, everLinked>>
<1>1. LogOK /\ GuideOK
  BY DEF GuideInv
<1>2. /\ load.guide \in Guides /\ load.broken \in BOOLEAN
      /\ ~load.broken => load.guide = guideDoc
      /\ load.guide.status = "completed" => guideDoc.status = "completed"
  BY <1>1, GuideLoadIs
<1>3. /\ end \in IF ~load.broken THEN GuideEnds(load.faults) ELSE {"unwritable"}
      /\ guideDoc' = IF end \in {"done", "lost"} THEN next ELSE guideDoc
      /\ guideMem' = IF ~guideRows /\ end = "lost" THEN NoGuide
                     ELSE IF end = "done" THEN next ELSE load.guide
      /\ guideBroken' = IF ~guideRows /\ end = "lost" THEN FALSE
                        ELSE load.broken \/ (guideRows /\ end \in {"refused", "lost"})
      /\ reviewsMem' \in {reviewsMem, NoLog}
      /\ UNCHANGED <<reviewsDoc, linked, owned, everLinked, reviewIds, saved, fallen, spoilt,
                     everChallenged, guideRows>>
  BY DEF PersistGuide, GuideWritable, InDocument, GuideStops, PutBack, elsewhere, Counted
<1>4. /\ end \in {"done", "refused", "lost", "unwritable"}
      /\ end \in {"done", "refused", "lost"} => ~load.broken
      /\ end = "unwritable" => load.broken
  BY <1>2, <1>3 DEF GuideEnds
<1>5. guideRows \in BOOLEAN
  BY <1>1 DEF LogOK
<1>6. LogOK'
  BY <1>1, <1>3 DEF LogOK, ReviewsAreKept
<1>7. NoGuide.status = "not loaded"
  BY DEF NoGuide
<1>8. GuideOK'
  <2>1. CASE end = "done"
    <3>1. guideDoc' = next /\ guideMem' = next /\ guideBroken' = FALSE /\ ~load.broken
      BY <1>2, <1>3, <1>4, <2>1
    <3> QED
      BY <1>3, <3>1 DEF GuideOK
  <2>2. CASE end = "lost" /\ guideRows
    <3>1. guideDoc' = next /\ guideMem' = load.guide /\ guideBroken' = TRUE /\ ~load.broken
      BY <1>2, <1>3, <1>4, <2>2
    <3> QED
      BY <1>2, <1>3, <3>1 DEF GuideOK
  <2>3. CASE end = "lost" /\ ~guideRows
    <3>1. guideDoc' = next /\ guideMem' = NoGuide /\ guideBroken' = FALSE /\ ~load.broken
      BY <1>3, <1>4, <2>3
    <3> QED
      BY <1>3, <1>7, <3>1 DEF GuideOK
  <2>4. CASE end = "refused"
    <3>1. guideDoc' = guideDoc /\ guideMem' = load.guide /\ guideBroken' \in BOOLEAN /\ ~load.broken
      BY <1>2, <1>3, <1>4, <2>4
    <3> QED
      BY <1>1, <1>2, <1>3, <3>1 DEF GuideOK
  <2>5. CASE end = "unwritable"
    <3>1. guideDoc' = guideDoc /\ guideMem' = load.guide /\ guideBroken' = TRUE
      BY <1>2, <1>3, <1>4, <2>5
    <3> QED
      BY <1>1, <1>2, <1>3, <3>1 DEF GuideOK
  <2> QED
    BY <1>4, <1>5, <2>1, <2>2, <2>3, <2>4, <2>5
<1>9. guideDoc.status = "completed" => guideDoc'.status = "completed"
  BY <1>2, <1>3, <1>4
<1> QED
  BY <1>2, <1>3, <1>4, <1>6, <1>8, <1>9

\* A request that goes on with what it may, while nothing it counts on moves.
LEMMA ChecksStand ==
    ASSUME GuideInv, NEW b \in Browsers, NEW next,
           checks' = [checks EXCEPT ![b] = next] \/ checks' = [c \in Browsers |-> Away],
           next.step \in {"away", "theses", "links", "reviews", "complete"},
           next.step = "reviews" => next.linked \subseteq everLinked,
           next.step = "complete" => next.proof \in Guided \cap everLinked \cap everChallenged,
           UNCHANGED <<emitted, linked, owned, everLinked, everChallenged>>,
           guideDoc.status = "completed" => guideDoc'.status = "completed"
    PROVE  ChecksOK'
<1>1. ChecksOK /\ Away.step = "away"
  BY DEF GuideInv, Away
<1>2. CASE checks' = [c \in Browsers |-> Away]
  BY <1>1, <1>2 DEF ChecksOK
<1>3. CASE checks' = [checks EXCEPT ![b] = next]
  <2>1. /\ checks' = [c \in Browsers |-> checks'[c]] /\ checks'[b] = next
        /\ \A c \in Browsers \ {b} : checks'[c] = checks[c]
    BY <1>1, <1>3 DEF ChecksOK
  <2>2. ASSUME NEW c \in Browsers
        PROVE  /\ checks'[c].step = "reviews" => checks'[c].linked \subseteq everLinked
               /\ checks'[c].step = "complete" =>
                     checks'[c].proof \in Guided \cap everLinked \cap everChallenged
               /\ checks'[c].step = "emit" => c # b /\ checks[c].step = "emit"
    BY <1>1, <2>1 DEF ChecksOK
  <2> QED
    BY <1>1, <2>1, <2>2 DEF ChecksOK
<1> QED
  BY <1>2, <1>3

\* What leaves the log and the guide as they are.
LEMMA OwnStand ==
    ASSUME GuideInv, UNCHANGED <<guideRows, reviewOwn, everLinked>>,
           UNCHANGED <<guideDoc, guideMem, guideBroken>>
    PROVE  LogOK' /\ GuideOK'
BY DEF GuideInv, LogOK, GuideOK, ReviewsAreKept, reviewOwn

\* A read of the guide.
LEMMA GuideReadKeeps ==
    ASSUME GuideInv, NEW load \in GuideLoads,
           guideMem' = load.guide, guideBroken' = load.broken,
           UNCHANGED <<guideRows, guideDoc, reviewOwn, everLinked>>
    PROVE  LogOK' /\ GuideOK'
<1>1. LogOK /\ GuideOK
  BY DEF GuideInv
<1>2. /\ load.guide \in Guides /\ load.broken \in BOOLEAN
      /\ ~load.broken => load.guide = guideDoc
      /\ load.guide.status = "completed" => guideDoc.status = "completed"
  BY <1>1, GuideLoadIs
<1> QED
  BY <1>1, <1>2 DEF LogOK, GuideOK, ReviewsAreKept, reviewOwn

\* POST /onboarding.
LEMMA ProgressKeeps ==
    ASSUME GuideInv, NEW b \in Browsers, Progress(b)
    PROVE  GuideInv'
<1>1. PICK load, end, next :
        /\ load \in GuideLoads
        /\ next = [load.guide EXCEPT !.status = IF @ = "not_started" THEN "in_progress" ELSE @]
        /\ PersistGuide(load, next, end)
        /\ Advanced(b, end, IF end = "done" THEN Begun(next) ELSE Away)
        /\ UNCHANGED emitted
  BY DEF Progress
<1>2. GuideOK
  BY DEF GuideInv
<1>3. /\ load.guide \in Guides /\ load.broken \in BOOLEAN
      /\ load.guide.status = "completed" => guideDoc.status = "completed"
      /\ ~load.broken => load.guide = guideDoc
  BY <1>1, <1>2, GuideLoadIs
<1>4. /\ next \in Guides /\ next.proof = load.guide.proof
      /\ next.status = "completed" <=> load.guide.status = "completed"
  BY <1>1, <1>3 DEF Guides
<1>5. ~load.broken /\ next.status = "completed" => next.proof \in everLinked \cap everChallenged
  BY <1>2, <1>3, <1>4 DEF GuideOK
<1>6. /\ LogOK' /\ GuideOK'
      /\ guideDoc.status = "completed" => guideDoc'.status = "completed"
      /\ UNCHANGED <<linked, owned, everLinked>>
  BY <1>1, <1>4, <1>5, PersistKeeps
<1>7. everChallenged' = everChallenged
  BY <1>1 DEF PersistGuide
<1>8. PICK check : check = IF end = "done" THEN Begun(next) ELSE Away
  OBVIOUS
<1>9. check.step \in {"away", "theses"}
  BY <1>8 DEF Begun, Away
<1>10. checks' = [checks EXCEPT ![b] = check] \/ checks' = [c \in Browsers |-> Away]
  BY <1>1, <1>8 DEF Advanced
<1>11. ChecksOK'
  BY <1>1, <1>6, <1>7, <1>9, <1>10, ChecksStand
<1> QED
  BY <1>6, <1>11 DEF GuideInv

\* completeIfActivated, by the request that is first.
LEMMA CompleteKeeps ==
    ASSUME GuideInv, NEW b \in Browsers, Complete(b)
    PROVE  GuideInv'
<1>1. PICK load, end, next :
        /\ load \in GuideLoads
        /\ next = [status |-> "completed", proof |-> checks[b].proof]
        /\ checks[b].step = "complete"
        /\ load.guide.status # "completed"
        /\ PersistGuide(load, next, end)
        /\ Advanced(b, end, IF end = "done" THEN [step |-> "emit"] ELSE Away)
        /\ UNCHANGED emitted
  BY DEF Complete, MayComplete
<1>2. GuideOK /\ ChecksOK
  BY DEF GuideInv
<1>3. next \in Guides /\ next.status = "completed" /\ next.proof \in everLinked \cap everChallenged
  BY <1>1, <1>2 DEF Guides, ChecksOK
<1>4. /\ LogOK' /\ GuideOK'
      /\ end \in {"done", "refused", "lost"} => load.guide = guideDoc
      /\ guideDoc.status = "completed" => guideDoc'.status = "completed"
      /\ end = "done" => guideDoc' = next
      /\ UNCHANGED <<linked, owned, everLinked>>
  BY <1>1, <1>3, PersistKeeps
<1>5. everChallenged' = everChallenged
  BY <1>1 DEF PersistGuide
<1>6. Away.step = "away"
  BY DEF Away
<1>7. CASE end # "done"
  <2>1. checks' = [checks EXCEPT ![b] = Away] \/ checks' = [c \in Browsers |-> Away]
    BY <1>1, <1>7 DEF Advanced
  <2>2. ChecksOK'
    BY <1>1, <1>4, <1>5, <1>6, <2>1, ChecksStand
  <2> QED
    BY <1>4, <2>2 DEF GuideInv
<1>8. CASE end = "done"
  <2>1. guideDoc.status # "completed" /\ guideDoc'.status = "completed"
    BY <1>1, <1>3, <1>4, <1>8
  <2>2. emitted = 0 /\ \A c \in Browsers : checks[c].step # "emit"
    BY <1>2, <2>1 DEF ChecksOK
  <2>3. checks' = [checks EXCEPT ![b] = [step |-> "emit"]]
    BY <1>1, <1>8 DEF Advanced, GuideStops
  <2>4. /\ checks' = [c \in Browsers |-> checks'[c]] /\ checks'[b].step = "emit"
        /\ \A c \in Browsers \ {b} : checks'[c] = checks[c]
    BY <1>2, <2>3 DEF ChecksOK
  <2>5. ASSUME NEW c \in Browsers
        PROVE  /\ checks'[c].step = "reviews" => checks'[c].linked \subseteq everLinked
               /\ checks'[c].step = "complete" =>
                     checks'[c].proof \in Guided \cap everLinked \cap everChallenged
               /\ checks'[c].step = "emit" => c = b
    BY <1>2, <2>2, <2>4 DEF ChecksOK
  <2>6. ChecksOK'
    BY <1>1, <1>2, <1>4, <1>5, <2>1, <2>2, <2>4, <2>5 DEF ChecksOK
  <2> QED
    BY <1>4, <2>6 DEF GuideInv
<1> QED
  BY <1>7, <1>8

\* GET /onboarding, and the request that comes second to complete.
LEMMA GuideReadsKeep ==
    ASSUME GuideInv, NEW b \in Browsers,
           OpenGuide(b) \/ SecondToComplete(b)
    PROVE  GuideInv'
<1>1. PICK load, next :
        /\ load \in GuideLoads
        /\ guideMem' = load.guide /\ guideBroken' = load.broken
        /\ checks' = [checks EXCEPT ![b] = next]
        /\ next \in {Begun(load.guide), Away}
        /\ UNCHANGED <<guideRows, guideDoc, emitted, reviewOwn, elsewhere>>
  BY DEF OpenGuide, SecondToComplete
<1>2. LogOK' /\ GuideOK'
  BY <1>1, GuideReadKeeps DEF elsewhere
<1>3. next.step \in {"away", "theses"}
  BY <1>1 DEF Begun, Away
<1>4. ChecksOK'
  BY <1>1, <1>3, ChecksStand DEF elsewhere, reviewOwn
<1> QED
  BY <1>2, <1>4 DEF GuideInv

\* verifyActivation, read by read.
LEMMA ProofReadsKeep ==
    ASSUME GuideInv, NEW b \in Browsers,
           ReadTheses(b) \/ ReadLinks(b) \/ ReadReviews(b)
    PROVE  GuideInv'
<1>1. /\ UNCHANGED <<guideRows, guideOwn, reviewOwn, elsewhere>>
      /\ UNCHANGED <<guideDoc, guideMem, guideBroken, emitted, linked, owned, everLinked, everChallenged>>
  BY DEF ReadTheses, ReadLinks, ReadReviews, guideOwn, reviewOwn, elsewhere
<1>2. LogOK' /\ GuideOK'
  BY <1>1, OwnStand
<1>3. LogOK /\ ChecksOK /\ Away.step = "away"
  BY DEF GuideInv, Away
<1>4. \E next : /\ checks' = [checks EXCEPT ![b] = next]
                /\ next.step \in {"away", "links", "reviews", "complete"}
                /\ next.step = "reviews" => next.linked \subseteq everLinked
                /\ next.step = "complete" => next.proof \in Guided \cap everLinked \cap everChallenged
  <2>1. CASE ReadTheses(b)
    <3>1. PICK next : next = IF owned = {} THEN Away ELSE [step |-> "links", owned |-> owned]
      OBVIOUS
    <3>2. checks' = [checks EXCEPT ![b] = next]
      BY <2>1, <3>1 DEF ReadTheses
    <3>3. next.step \in {"away", "links"}
      BY <1>3, <3>1
    <3> QED
      BY <3>2, <3>3
  <2>2. CASE ReadLinks(b)
    <3>1. PICK next : next = IF linked \cap checks[b].owned = {} THEN Away
                             ELSE [step |-> "reviews", linked |-> linked \cap checks[b].owned]
      OBVIOUS
    <3>2. checks' = [checks EXCEPT ![b] = next]
      BY <2>2, <3>1 DEF ReadLinks
    <3>3. next.step \in {"away", "reviews"} /\ (next.step = "reviews" => next.linked \subseteq linked)
      BY <1>3, <3>1
    <3> QED
      BY <1>3, <3>2, <3>3 DEF ChecksOK
  <2>3. CASE ReadReviews(b)
    <3>1. checks[b].step = "reviews"
      BY <2>3 DEF ReadReviews
    <3>2. PICK next \in {[step |-> "complete", proof |-> t] : t \in Proven(checks[b])} \cup {Away} :
             checks' = [checks EXCEPT ![b] = next]
      BY <2>3 DEF ReadReviews
    <3>3. CASE next = Away
      BY <1>3, <3>2, <3>3
    <3>4. CASE next # Away
      <4>1. PICK t \in Proven(checks[b]) : next = [step |-> "complete", proof |-> t]
        BY <3>2, <3>4
      <4>2. Challenged = ChallengedIn(reviewsDoc)
        BY DEF Challenged, ChallengedIn
      <4>3. t \in everLinked /\ t \in everChallenged
        BY <1>3, <3>1, <4>1, <4>2 DEF Proven, ChecksOK, LogOK
      <4>4. t \in Guided
        <5>1. t \in ChallengedIn(reviewsDoc) /\ reviewsDoc \in Lists
          BY <1>3, <4>1, <4>2 DEF Proven, LogOK
        <5>2. PICK i \in DOMAIN reviewsDoc : t = reviewsDoc[i].thesis
          BY <5>1 DEF ChallengedIn
        <5>3. reviewsDoc[i] \in SavedReviews
          BY <5>1 DEF Lists
        <5> QED
          BY <5>2, <5>3 DEF SavedReviews
      <4>5. next.step = "complete" /\ next.proof = t
        BY <4>1
      <4> QED
        BY <3>2, <4>3, <4>4, <4>5
    <3> QED
      BY <3>3, <3>4
  <2> QED
    BY <2>1, <2>2, <2>3
<1>5. PICK next : /\ checks' = [checks EXCEPT ![b] = next]
                  /\ next.step \in {"away", "links", "reviews", "complete"}
                  /\ next.step = "reviews" => next.linked \subseteq everLinked
                  /\ next.step = "complete" => next.proof \in Guided \cap everLinked \cap everChallenged
  BY <1>4
<1>6. ChecksOK'
  BY <1>1, <1>5, ChecksStand
<1> QED
  BY <1>2, <1>6 DEF GuideInv

\* Only one request comes to tell of the completion, once.
LEMMA EmitKeeps ==
    ASSUME GuideInv, NEW b \in Browsers, EmitCompleted(b)
    PROVE  GuideInv'
<1>1. /\ checks[b].step = "emit" /\ emitted' = emitted + 1
      /\ checks' = [checks EXCEPT ![b] = Away]
      /\ UNCHANGED <<guideRows, guideDoc, guideMem, guideBroken, reviewOwn, linked, owned, everLinked,
                     everChallenged>>
  BY DEF EmitCompleted, elsewhere, reviewOwn
<1>2. LogOK' /\ GuideOK'
  BY <1>1, OwnStand
<1>3. ChecksOK /\ Away.step = "away"
  BY DEF GuideInv, Away
<1>4. emitted = 0 /\ guideDoc.status = "completed" /\ \A c \in Browsers \ {b} : checks[c].step # "emit"
  BY <1>1, <1>3 DEF ChecksOK
<1>5. /\ checks' = [c \in Browsers |-> checks'[c]] /\ checks'[b] = Away
      /\ \A c \in Browsers \ {b} : checks'[c] = checks[c]
  BY <1>1, <1>3 DEF ChecksOK
<1>6. ASSUME NEW c \in Browsers
      PROVE  /\ checks'[c].step = "reviews" => checks'[c].linked \subseteq everLinked
             /\ checks'[c].step = "complete" =>
                   checks'[c].proof \in Guided \cap everLinked \cap everChallenged
             /\ checks'[c].step # "emit"
  BY <1>3, <1>4, <1>5 DEF ChecksOK
<1>7. ChecksOK'
  BY <1>1, <1>3, <1>4, <1>5, <1>6 DEF ChecksOK
<1> QED
  BY <1>2, <1>7 DEF GuideInv

\* GET /reviews, the other stores, and a start.
LEMMA GuideRestKeeps ==
    ASSUME GuideInv, ListReviews \/ ChangeElsewhere \/ RestartGuide \/ UNCHANGED guideVars
    PROVE  GuideInv'
<1>1. LogOK /\ GuideOK /\ ChecksOK /\ Away.step = "away" /\ NoGuide.status = "not loaded"
  BY DEF GuideInv, Away, NoGuide
<1>2. CASE ListReviews
  <2>1. PICK log \in LogRead : reviewsMem' = log
    BY <1>2 DEF ListReviews
  <2>2. UNCHANGED <<guideRows, reviewsDoc, guideDoc, guideMem, guideBroken, emitted, linked, owned,
                    everLinked, checks, reviewIds, saved, fallen, spoilt, everChallenged>>
    BY <1>2 DEF ListReviews, guideOwn, elsewhere
  <2>3. LogOK'
    <3>1. /\ log = [held |-> TRUE, list |-> log.list, paired |-> log.paired]
          /\ log.list \in Lists /\ log.paired \in BOOLEAN
          /\ ChallengedIn(log.list) \subseteq everChallenged
          /\ ~spoilt => Idents(log.list) = Idents(reviewsDoc)
      BY <1>1, LogReads
    <3>2. log.held = TRUE
      BY <3>1
    <3> QED
      BY <1>1, <2>1, <2>2, <3>1, <3>2 DEF LogOK, ReviewsAreKept
  <2>4. GuideOK' /\ ChecksOK'
    BY <1>1, <2>2 DEF GuideOK, ChecksOK
  <2> QED
    BY <2>3, <2>4 DEF GuideInv
<1>3. CASE ChangeElsewhere
  <2>1. /\ linked' \subseteq Guided /\ owned' \subseteq Guided /\ everLinked' = everLinked \cup linked'
        /\ UNCHANGED <<guideRows, guideDoc, guideMem, guideBroken, emitted, reviewOwn, checks>>
    BY <1>1, <1>3 DEF ChangeElsewhere, guideOwn, ChecksOK
  <2>2. everChallenged' = everChallenged
    BY <2>1 DEF reviewOwn
  <2>3. LogOK'
    BY <1>1, <2>1 DEF LogOK, ReviewsAreKept, reviewOwn
  <2>4. GuideOK' /\ ChecksOK'
    BY <1>1, <2>1, <2>2 DEF GuideOK, ChecksOK
  <2> QED
    BY <2>3, <2>4 DEF GuideInv
<1>4. CASE RestartGuide
  <2>1. /\ reviewsMem' = NoLog /\ guideMem' = NoGuide /\ guideBroken' = FALSE
        /\ checks' = [c \in Browsers |-> Away]
        /\ UNCHANGED <<guideRows, reviewsDoc, guideDoc, linked, owned, everLinked, emitted, reviewIds,
                       saved, fallen, spoilt, everChallenged>>
    BY <1>4 DEF RestartGuide, elsewhere
  <2>2. LogOK' /\ GuideOK' /\ ChecksOK'
    BY <1>1, <2>1 DEF LogOK, ReviewsAreKept, GuideOK, ChecksOK
  <2> QED
    BY <2>2 DEF GuideInv
<1>5. CASE UNCHANGED guideVars
  BY <1>1, <1>5 DEF guideVars, GuideInv, LogOK, ReviewsAreKept, GuideOK, ChecksOK
<1> QED
  BY <1>2, <1>3, <1>4, <1>5

(***************************************************************************)
(* What the user did in the guided review stands (reviews.go,              *)
(* onboarding.go): the reviews that were saved, and a completion that one  *)
(* thesis proves and that is told once; for any number of theses, requests *)
(* in flight, refused or lost writes, failed reads and starts.             *)
(***************************************************************************)
THEOREM GuidesStand == GuideSpec => []GuideStands
<1>1. GuideInit => GuideInv
  <2> SUFFICES ASSUME GuideInit PROVE GuideInv
    OBVIOUS
  <2>1. <<>> \in Lists /\ DOMAIN <<>> = {} /\ ChallengedIn(<<>>) = {} /\ Idents(<<>>) = {}
    BY DEF Lists, ChallengedIn, Idents
  <2>2. LogOK
    BY <2>1 DEF GuideInit, LogOK, ReviewsAreKept
  <2>3. NewGuide \in Guides /\ NewGuide.status = "not_started" /\ NoGuide.status = "not loaded"
    BY DEF Guides, NewGuide, NoGuide
  <2>4. GuideOK
    BY <2>3 DEF GuideInit, GuideOK
  <2>5. Away.step = "away"
    BY DEF Away
  <2>6. \A b \in Browsers : checks[b] = Away
    BY DEF GuideInit
  <2>7. ChecksOK
    BY <2>5, <2>6 DEF GuideInit, ChecksOK
  <2> QED
    BY <2>2, <2>4, <2>7 DEF GuideInv
<1>2. GuideInv /\ [GuideNext]_guideVars => GuideInv'
  <2> SUFFICES ASSUME GuideInv, [GuideNext]_guideVars PROVE GuideInv'
    OBVIOUS
  <2> QED
    BY CreateReviewKeeps, RateReviewKeeps, DeleteReviewKeeps, GuideRestKeeps, ProgressKeeps,
       CompleteKeeps, GuideReadsKeep, ProofReadsKeep, EmitKeeps DEF GuideNext
<1>3. GuideInv => GuideStands
  <2> SUFFICES ASSUME GuideInv PROVE GuideStands
    OBVIOUS
  <2>1. ReviewsAreKept
    BY DEF GuideInv, LogOK
  <2>2. CompletionIsProven
    BY DEF GuideInv, GuideOK, ChecksOK, CompletionIsProven
  <2> QED
    BY <2>1, <2>2 DEF GuideStands
<1> QED
  BY <1>1, <1>2, <1>3, PTL DEF GuideSpec
=============================================================================
