------------------------------ MODULE FollowState ------------------------------
(***************************************************************************)
(* What one user follows and has seen (journal/subscriptions.go,           *)
(* event_state.go, last_check.go): the follow graph with its one-time seed *)
(* from the old settings, the flags of the events in the feed, and the     *)
(* stamp up to which the feed was read. Three documents, each behind its   *)
(* own lock, each request one step of its store.                           *)
(*                                                                         *)
(* The first two are held in memory once loaded; a load that fails is      *)
(* remembered and refuses every write until the next start. The stamp is   *)
(* read anew at every request.                                             *)
(***************************************************************************)
EXTENDS Integers, FiniteSets

CONSTANTS
    Tickers,            \* companies one can follow
    Feed,               \* events of the feed
    MaxStamp,           \* latest time a client may send
    MaxFollows, MaxFollowFaults, MaxFollowStarts    \* bounds

ASSUME FollowAssumption == {MaxStamp, MaxFollows, MaxFollowFaults, MaxFollowStarts} \subseteq Nat

Levels == {"material", "none"}      \* two of the five notification levels
Unfollowed == "unfollowed"
NoGraph == [t \in Tickers |-> Unfollowed]
NoFlags == [e \in Feed |-> {}]
NotHeld == [x \in {} |-> Unfollowed]

VARIABLES
    followRows,             \* PostgreSQL, or files
    made,                   \* durable: the follow document exists, the marker of the migration
    follows, flags,         \* durable: ticker -> level, event -> {"read", "saved"}
    followsMem, flagsMem,   \* memory: s.subs, s.states
    followLatched,          \* memory: the documents whose load failed
    boundary,               \* durable: the last check, 0 for none
    followWrites, followFaults, followStarts,   \* bounds
    left,                   \* history: unfollowed, by their answers, and not followed since
    kept,                   \* history: event -> the flags its answers promise
    followExcused           \* history: a file could not be looked at, read or written

followVars == <<followRows, made, follows, flags, followsMem, flagsMem, followLatched, boundary,
                followWrites, followFaults, followStarts, left, kept, followExcused>>

-----------------------------------------------------------------------------
\* loadLocked of either store.
Held(memory, doc, empty, name) ==
    IF memory # NotHeld THEN {[shown |-> memory, latch |-> {}, faults |-> 0]}
    ELSE {[shown |-> doc, latch |-> {}, faults |-> 0]}
         \cup IF followFaults >= MaxFollowFaults THEN {}
              ELSE {[shown |-> empty, latch |-> IF followRows THEN {name} ELSE {}, faults |-> 1]}
FollowLoads == Held(followsMem, follows, NoGraph, "follows")
FlagLoads == Held(flagsMem, flags, NoFlags, "flags")

\* A write ends done, refused, or durable without an answer (files: the process stopped).
FollowEnds(faults) ==
    {"done"} \cup IF faults + followFaults < MaxFollowFaults THEN {"refused", "lost"} ELSE {}
Halts(end) == ~followRows /\ end = "lost"

\* The memory of a document after a write of it: a failed write drops it on PostgreSQL, and leaves
\* the change in it with files.
HeldAfter(end, next) ==
    IF Halts(end) \/ (followRows /\ end # "done") THEN NotHeld ELSE next

\* What every write leaves behind.
Account(load, end) ==
    /\ followWrites < MaxFollows
    /\ followWrites' = followWrites + 1
    /\ followFaults' = followFaults + load.faults + IF end \in {"refused", "lost"} THEN 1 ELSE 0
    /\ followExcused' = (followExcused \/ (~followRows /\ (load.faults > 0 \/ end = "refused")))
    /\ UNCHANGED <<followRows, followStarts>>

\* A failed load is remembered as long as the process runs.
LatchedAfter(latches, end) == IF Halts(end) THEN {} ELSE followLatched \cup latches

WriteFollows(load, next, end) ==
    /\ Account(load, end)
    /\ followLatched' = LatchedAfter(load.latch, end)
    /\ follows' = IF end \in {"done", "lost"} THEN next ELSE follows
    /\ made' = (made \/ end \in {"done", "lost"})
    /\ followsMem' = IF end \in {"unwritable", "none"} THEN load.shown ELSE HeldAfter(end, next)
    /\ flagsMem' = IF Halts(end) THEN NotHeld ELSE flagsMem
    /\ UNCHANGED <<flags, boundary, kept>>

FollowWriteEnds(load) ==
    IF "follows" \in followLatched \cup load.latch THEN {"unwritable"} ELSE FollowEnds(load.faults)

\* POST /subscriptions: following twice is following once, and keeps what is there.
Added(shown, t, level) == IF shown[t] = Unfollowed THEN [shown EXCEPT ![t] = level] ELSE shown
Follow ==
    \E load \in FollowLoads, t \in Tickers, level \in Levels :
      LET next == Added(load.shown, t, level)
          ends == FollowWriteEnds(load) IN
      \E end \in IF ends # {"unwritable"} /\ next = load.shown THEN {"none"} ELSE ends :
        /\ WriteFollows(load, next, end)
        /\ left' = left \ {t}

\* PATCH /subscriptions/{id}: the level.
Retuned(shown, t, level) == [shown EXCEPT ![t] = level]
RetuneFollow ==
    \E load \in FollowLoads, level \in Levels : \E t \in {u \in Tickers : load.shown[u] # Unfollowed},
      end \in FollowWriteEnds(load) :
        /\ WriteFollows(load, Retuned(load.shown, t, level), end)
        /\ UNCHANGED left

\* DELETE /subscriptions/{id}: the document stays, empty if need be.
Removed(shown, t) == [shown EXCEPT ![t] = Unfollowed]
Unfollow ==
    \E load \in FollowLoads : \E t \in {u \in Tickers : load.shown[u] # Unfollowed},
      end \in FollowWriteEnds(load) :
        /\ WriteFollows(load, Removed(load.shown, t), end)
        /\ left' = IF end = "done" THEN left \cup {t} ELSE left

\* Mutant: an empty document is taken for none.
MarkedByContent == follows # NoGraph

\* POST /subscriptions/migrate: the one-time seed. That the document exists is the marker, looked up
\* afresh; a row that cannot be looked up is an error, a file that cannot counts as not there.
Marked == made
Seeded(seed) == [t \in Tickers |-> IF t = seed THEN "material" ELSE Unfollowed]
MigrateFollows ==
    \E seed \in Tickers \cup {"nothing"}, blind \in BOOLEAN :
        LET load == [faults |-> IF blind THEN 1 ELSE 0]
            next == Seeded(seed) IN
        /\ ~Marked \/ blind
        /\ blind => ~followRows /\ followFaults < MaxFollowFaults
        /\ \E end \in FollowEnds(load.faults) :
              /\ Account(load, end)
              /\ followLatched' = IF end = "done" THEN followLatched \ {"follows"}
                                  ELSE LatchedAfter({}, end)
              /\ follows' = IF end \in {"done", "lost"} THEN next ELSE follows
              /\ made' = (made \/ end \in {"done", "lost"})
              /\ followsMem' = IF end = "done" THEN next
                               ELSE IF end = "lost" \/ followRows THEN NotHeld ELSE followsMem
              /\ flagsMem' = IF Halts(end) THEN NotHeld ELSE flagsMem
        /\ UNCHANGED <<flags, boundary, left, kept>>

\* GET /subscriptions and the union of all followed tickers: a read never makes the document.
ListFollows ==
    /\ followsMem = NotHeld
    /\ \E load \in FollowLoads :
          /\ followsMem' = load.shown
          /\ followLatched' = followLatched \cup load.latch
          /\ followFaults' = followFaults + load.faults
          /\ followExcused' = (followExcused \/ (~followRows /\ load.faults > 0))
    /\ UNCHANGED <<followRows, made, follows, flags, flagsMem, boundary, followWrites, followStarts,
                   left, kept>>

\* POST /event-state: only the flags in the body are set or cleared.
Flagged(shown, e, on, off) == [shown EXCEPT ![e] = (@ \ off) \cup on]
FlagEvent ==
    \E load \in FlagLoads, e \in Feed, on \in SUBSET {"read", "saved"} :
      \E off \in SUBSET ({"read", "saved"} \ on),
         end \in IF "flags" \in followLatched \cup load.latch THEN {"unwritable"}
                 ELSE FollowEnds(load.faults) :
        LET next == Flagged(load.shown, e, on, off) IN
        /\ on \cup off # {}
        /\ Account(load, end)
        /\ followLatched' = LatchedAfter(load.latch, end)
        /\ flags' = IF end \in {"done", "lost"} THEN next ELSE flags
        /\ flagsMem' = IF end = "unwritable" THEN load.shown ELSE HeldAfter(end, next)
        /\ followsMem' = IF Halts(end) THEN NotHeld ELSE followsMem
        /\ kept' = [kept EXCEPT ![e] = (@ \ off) \cup IF end = "done" THEN on ELSE {}]
        /\ UNCHANGED <<made, follows, boundary, left>>

\* POST /event-state/last-check: a later stamp wins; what cannot be read counts as never checked.
LaterStamp(stamp, current) == stamp > current
SetLastCheck ==
    \E stamp \in 1..MaxStamp, unread \in BOOLEAN :
        LET load == [faults |-> IF unread THEN 1 ELSE 0]
            current == IF unread THEN 0 ELSE boundary IN
        /\ unread => followFaults < MaxFollowFaults
        /\ LaterStamp(stamp, current)
        /\ \E end \in FollowEnds(load.faults) :
              /\ Account(load, end)
              /\ followLatched' = LatchedAfter({}, end)
              /\ boundary' = IF end \in {"done", "lost"} THEN stamp ELSE boundary
              /\ followsMem' = IF Halts(end) THEN NotHeld ELSE followsMem
              /\ flagsMem' = IF Halts(end) THEN NotHeld ELSE flagsMem
        /\ UNCHANGED <<made, follows, flags, left, kept>>

RestartFollows ==
    /\ followStarts < MaxFollowStarts
    /\ followStarts' = followStarts + 1
    /\ followsMem' = NotHeld /\ flagsMem' = NotHeld
    /\ followLatched' = {}
    /\ UNCHANGED <<followRows, made, follows, flags, boundary, followWrites, followFaults, left,
                   kept, followExcused>>

FollowInit ==
    /\ followRows \in BOOLEAN
    /\ made = FALSE
    /\ follows = NoGraph /\ flags = NoFlags
    /\ followsMem = NotHeld /\ flagsMem = NotHeld
    /\ followLatched = {}
    /\ boundary = 0
    /\ followWrites = 0 /\ followFaults = 0 /\ followStarts = 0
    /\ left = {} /\ kept = NoFlags /\ followExcused = FALSE

FollowNext ==
    \/ ListFollows \/ MigrateFollows \/ Follow \/ RetuneFollow \/ Unfollow
    \/ FlagEvent \/ SetLastCheck
    \/ RestartFollows

FollowSpec == FollowInit /\ [][FollowNext]_followVars

-----------------------------------------------------------------------------
\* What the answers said stands. A company the user left does not come back by itself: not by the
\* seed from the old settings (subscriptions.go, migrate), not out of a memory that was dropped,
\* latched or never written. A flag stays until a request changes that flag: marking an event as
\* read does not un-save it, also when writes in between are refused or lost. With files, both hold
\* as long as no file operation failed.
LeftAndFlagsStand ==
    ~followExcused =>
        /\ \A t \in left : follows[t] = Unfollowed
        /\ \A e \in Feed : kept[e] \subseteq flags[e]
=============================================================================
