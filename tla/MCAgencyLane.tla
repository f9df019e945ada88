----------------------------- MODULE MCAgencyLane -----------------------------
(***************************************************************************)
(* Small instances of the lane.  "races": two workers, late calls, a       *)
(* failing write and a restart around one question, or without the last    *)
(* two around one review.  "evidence": one worker whose calls arrive or    *)
(* are lost, reviews of several snapshots under retention.  "ends": two    *)
(* questions, or one review, whose worker may do or fail to do anything.   *)
(***************************************************************************)
EXTENDS AgencyLane

CONSTANTS
    Instances,
    Alone       \* the one worker of "evidence"

VARIABLE instance

Bounds ==
    CASE instance = "races" ->
            /\ created' =< 1 /\ taken' =< 1
            /\ taken' = 0 \/ (crashes' = 0 /\ saveFailures' = 0)
      [] instance = "evidence" ->
            /\ \A c \in inbox' : ~c.late
            /\ \A w \in Workers : w # Alone => bridge'[w].pc = "idle"
            /\ \A i \in RunIds : runs'[i].about \notin Questions
            /\ crashes' = crashes
      [] instance = "ends" -> taken' = 0 \/ created' =< 1

MCInit == Init /\ instance \in Instances

MCSpec ==
    /\ MCInit
    /\ [][Next /\ Bounds /\ UNCHANGED instance]_<<vars, instance>>

\* AgencyLane's fairness: neither Tick nor Poll is an action that Bounds stops.
MCFairSpec == MCSpec /\ Fairness
=============================================================================
