------------------------------ MODULE GuidedReview ------------------------------
(***************************************************************************)
(* A user's saved reviews (journal/reviews.go) and the guide of the first  *)
(* session (journal/onboarding.go), which is completed on the server's own *)
(* proof: a thesis with live evidence and a challenge review of it. The    *)
(* proof is gathered from documents that three other stores go on writing, *)
(* one read after the other and without a common lock; the guide has a     *)
(* lock of its own for the write that completes it.                        *)
(***************************************************************************)
EXTENDS Integers, Sequences, FiniteSets

CONSTANTS
    Guided,             \* the user's theses
    Browsers,           \* requests in flight
    MaxKept,            \* maxReviewsPerUser
    MaxReviewIds, MaxGuideWrites, MaxGuideFaults, MaxGuideStarts    \* bounds

ASSUME GuidedAssumption ==
    /\ MaxKept \in Nat \ {0}
    /\ {MaxReviewIds, MaxGuideWrites, MaxGuideFaults, MaxGuideStarts} \subseteq Nat

NoLog == [held |-> FALSE]
NewGuide == [status |-> "not_started", proof |-> "none"]
NoGuide == [status |-> "not loaded"]
Away == [step |-> "away"]

VARIABLES
    guideRows,              \* PostgreSQL, or files
    reviewsDoc,             \* durable: the saved reviews, oldest first
    reviewsMem,             \* memory: s.byUser, or NoLog
    guideDoc, guideMem,     \* durable and in memory: the guide
    guideBroken,            \* memory: s.broken
    linked,                 \* durable, of other stores: theses that have live evidence
    owned,                  \* durable, of other stores: theses that are there
    checks,                 \* what each request has read of the proof
    emitted,                \* analytics: completions recorded
    reviewIds, guideWrites, guideFaults, guideStarts,   \* bounds
    saved,                  \* history: reviews whose save was acknowledged
    fallen,                 \* history: reviews trimmed off the log
    spoilt,                 \* history: a delete was refused by the files
    everLinked, everChallenged      \* history: theses that ever had live evidence, a challenge

guideVars == <<guideRows, reviewsDoc, reviewsMem, guideDoc, guideMem, guideBroken, linked, owned,
               checks, emitted, reviewIds, guideWrites, guideFaults, guideStarts, saved, fallen,
               spoilt, everLinked, everChallenged>>

reviewOwn == <<reviewsDoc, reviewsMem, reviewIds, saved, fallen, spoilt, everChallenged>>
guideOwn == <<guideDoc, guideMem, guideBroken, emitted>>
elsewhere == <<linked, owned, everLinked>>

-----------------------------------------------------------------------------
GuideEnds(faults) ==
    {"done"} \cup IF faults + guideFaults < MaxGuideFaults THEN {"refused", "lost"} ELSE {}
GuideStops(end) == ~guideRows /\ end = "lost"
InDocument(end) == end \in {"done", "lost"}

\* A write that stops the process leaves nothing in memory.
Counted(end, faults) ==
    /\ guideWrites < MaxGuideWrites
    /\ guideWrites' = guideWrites + 1
    /\ guideFaults' = guideFaults + faults + IF end \in {"refused", "lost"} THEN 1 ELSE 0
    /\ UNCHANGED <<guideRows, guideStarts>>

\* The log is read when memory has none; when it cannot be read, the request fails and the next one
\* reads again. `paired` says that two entries may be one object.
FromDocument == [held |-> TRUE, list |-> reviewsDoc, paired |-> FALSE]

\* The log as a handler reads it.
LogRead == IF reviewsMem.held THEN {reviewsMem} ELSE {FromDocument}

Idents(list) == {list[i].id : i \in DOMAIN list}
Capped(list) ==
    IF Len(list) =< MaxKept THEN list ELSE SubSeq(list, Len(list) - MaxKept + 1, Len(list))

\* save: on PostgreSQL a failed write drops the memory; with files memory keeps `left`, which is
\* what the request did in place before it wrote.
SaveLog(log, list, leftBehind, end) ==
    /\ Counted(end, 0)
    /\ reviewsDoc' = IF InDocument(end) THEN Capped(list) ELSE reviewsDoc
    /\ reviewsMem' = IF end = "done" THEN [held |-> TRUE, list |-> Capped(list), paired |-> log.paired]
                     ELSE IF guideRows \/ end = "lost" THEN NoLog ELSE leftBehind
    /\ fallen' = IF InDocument(end) THEN fallen \cup (Idents(list) \ Idents(Capped(list))) ELSE fallen
    /\ IF GuideStops(end)
       THEN /\ guideMem' = NoGuide /\ guideBroken' = FALSE
            /\ checks' = [b \in Browsers |-> Away]
       ELSE UNCHANGED <<guideMem, guideBroken, checks>>
    /\ UNCHANGED <<guideDoc, emitted, elsewhere>>

\* POST /reviews, from the gateway.
CreateReview ==
    \E log \in LogRead, thesis \in Guided, challenge \in BOOLEAN, end \in GuideEnds(0) :
        LET review == [id |-> reviewIds + 1, thesis |-> thesis, challenge |-> challenge,
                       rated |-> FALSE] IN
        /\ reviewIds < MaxReviewIds
        /\ reviewIds' = reviewIds + 1
        /\ SaveLog(log, Append(log.list, review), log, end)
        /\ saved' = IF end = "done" THEN saved \cup {review.id} ELSE saved
        /\ everChallenged' = IF challenge /\ InDocument(end) THEN everChallenged \cup {thesis}
                             ELSE everChallenged
        /\ UNCHANGED spoilt

\* PATCH /reviews/{id}: the rating is set on the object in memory before it is written.
Rated(log, i) ==
    [j \in DOMAIN log.list |->
        IF j = i \/ (log.paired /\ log.list[j].id = log.list[i].id)
        THEN [log.list[j] EXCEPT !.rated = TRUE] ELSE log.list[j]]
RateReview ==
    \E log \in LogRead, end \in GuideEnds(0) : \E i \in DOMAIN log.list :
        /\ ~log.list[i].rated
        /\ \A j \in 1..(i - 1) : log.list[j].id # log.list[i].id
        /\ SaveLog(log, Rated(log, i), [log EXCEPT !.list = Rated(log, i)], end)
        /\ UNCHANGED <<reviewIds, saved, spoilt, everChallenged>>

\* DELETE /reviews/{id}: the entries behind it move up in the array that memory shares, and memory
\* still has its length: after a refused write its last entry is there twice.
Shifted(log, i) ==
    [held |-> TRUE, paired |-> TRUE,
     list |-> [j \in DOMAIN log.list |->
                  IF j < i \/ j = Len(log.list) THEN log.list[j] ELSE log.list[j + 1]]]
Without(list, i) == SubSeq(list, 1, i - 1) \o SubSeq(list, i + 1, Len(list))
DeleteReview ==
    \E log \in LogRead, end \in GuideEnds(0) : \E i \in DOMAIN log.list :
        /\ \A j \in 1..(i - 1) : log.list[j].id # log.list[i].id
        /\ SaveLog(log, Without(log.list, i), Shifted(log, i), end)
        /\ saved' = saved \ {log.list[i].id}
        /\ spoilt' = (spoilt \/ (~guideRows /\ end = "refused"))
        /\ UNCHANGED <<reviewIds, everChallenged>>

\* GET /reviews.
ListReviews ==
    /\ ~reviewsMem.held
    /\ reviewsMem' \in LogRead
    /\ UNCHANGED <<guideRows, reviewsDoc, guideOwn, elsewhere, checks, reviewIds, guideWrites,
                   guideFaults, guideStarts, saved, fallen, spoilt, everChallenged>>

-----------------------------------------------------------------------------
\* The guide, once per process: a fresh one when the stored one cannot be read, and then broken.
GuideLoads ==
    IF guideMem # NoGuide THEN {[guide |-> guideMem, broken |-> guideBroken, faults |-> 0]}
    ELSE {[guide |-> guideDoc, broken |-> guideBroken, faults |-> 0]}
         \cup IF guideFaults < MaxGuideFaults
              THEN {[guide |-> NewGuide, broken |-> TRUE, faults |-> 1]} ELSE {}

\* persistLocked, and what its callers do when it fails: they put the guide back as it was.
GuideWritable(broken) == ~broken
PutBack(before, next, end) == IF end = "done" THEN next ELSE before
PersistGuide(load, next, end) ==
    /\ end \in IF GuideWritable(load.broken) THEN GuideEnds(load.faults) ELSE {"unwritable"}
    /\ Counted(end, load.faults)
    /\ guideDoc' = IF InDocument(end) THEN next ELSE guideDoc
    /\ guideMem' = IF GuideStops(end) THEN NoGuide ELSE PutBack(load.guide, next, end)
    /\ guideBroken' = IF GuideStops(end) THEN FALSE
                      ELSE load.broken \/ (guideRows /\ end \in {"refused", "lost"})
    /\ IF GuideStops(end) THEN reviewsMem' = NoLog ELSE UNCHANGED reviewsMem
    /\ UNCHANGED <<reviewsDoc, elsewhere, reviewIds, saved, fallen, spoilt, everChallenged>>

\* What a browser's request goes on with: the check of the proof, which only matters to one that
\* read an uncompleted guide.
Begun(guide) == IF guide.status = "completed" THEN Away ELSE [step |-> "theses"]
Advanced(b, end, check) ==
    checks' = IF GuideStops(end) THEN [c \in Browsers |-> Away] ELSE [checks EXCEPT ![b] = check]

\* POST /onboarding: progress. A broken guide is refused before it is loaded, or by the write.
Progress(b) ==
    \E load \in GuideLoads, end \in {"done", "refused", "lost", "unwritable"} :
        LET next == [load.guide EXCEPT !.status = IF @ = "not_started" THEN "in_progress" ELSE @] IN
        /\ checks[b] = Away
        /\ ~guideBroken
        /\ PersistGuide(load, next, end)
        /\ Advanced(b, end, IF end = "done" THEN Begun(next) ELSE Away)
        /\ UNCHANGED emitted

\* GET /onboarding.
OpenGuide(b) ==
    \E load \in GuideLoads :
        /\ checks[b] = Away
        /\ guideMem' = load.guide /\ guideBroken' = load.broken
        /\ guideFaults' = guideFaults + load.faults
        /\ checks' = [checks EXCEPT ![b] = Begun(load.guide)]
        /\ UNCHANGED <<guideRows, guideDoc, emitted, reviewOwn, elsewhere, guideWrites, guideStarts>>

\* verifyActivation, read by read. A read that fails ends the check without a proof.
ReadTheses(b) ==
    /\ checks[b].step = "theses"
    /\ checks' = [checks EXCEPT ![b] = IF owned = {} THEN Away
                                       ELSE [step |-> "links", owned |-> owned]]
    /\ UNCHANGED <<guideRows, guideOwn, reviewOwn, elsewhere, guideWrites, guideFaults, guideStarts>>
ReadLinks(b) ==
    /\ checks[b].step = "links"
    /\ checks' = [checks EXCEPT ![b] = IF linked \cap checks[b].owned = {} THEN Away
                                       ELSE [step |-> "reviews", linked |-> linked \cap checks[b].owned]]
    /\ UNCHANGED <<guideRows, guideOwn, reviewOwn, elsewhere, guideWrites, guideFaults, guideStarts>>

Challenged == {reviewsDoc[i].thesis : i \in {j \in DOMAIN reviewsDoc : reviewsDoc[j].challenge}}

\* Mutant: the challenge may be of another thesis.
ProvenApart(check) == Challenged

\* The theses that a check proves: each has its evidence and its challenge. The guide's own thesis
\* goes first, a preference left open here.
Proven(check) == check.linked \cap Challenged
ReadReviews(b) ==
    /\ checks[b].step = "reviews"
    /\ \E next \in {[step |-> "complete", proof |-> t] : t \in Proven(checks[b])} \cup {Away} :
          checks' = [checks EXCEPT ![b] = next]
    /\ UNCHANGED <<guideRows, guideOwn, reviewOwn, elsewhere, guideWrites, guideFaults, guideStarts>>

\* completeIfActivated: another request may have been first; the event follows the durable write.
MayComplete(guide) == guide.status # "completed"
Complete(b) ==
    \E load \in GuideLoads, end \in {"done", "refused", "lost", "unwritable"} :
        LET t == checks[b].proof
            next == [status |-> "completed", proof |-> t] IN
        /\ checks[b].step = "complete"
        /\ MayComplete(load.guide)
        /\ PersistGuide(load, next, end)
        /\ Advanced(b, end, IF end = "done" THEN [step |-> "emit"] ELSE Away)
        /\ UNCHANGED emitted
SecondToComplete(b) ==
    \E load \in GuideLoads :
        /\ checks[b].step = "complete"
        /\ ~MayComplete(load.guide)
        /\ guideMem' = load.guide /\ guideBroken' = load.broken
        /\ guideFaults' = guideFaults + load.faults
        /\ checks' = [checks EXCEPT ![b] = Away]
        /\ UNCHANGED <<guideRows, guideDoc, emitted, reviewOwn, elsewhere, guideWrites, guideStarts>>
EmitCompleted(b) ==
    /\ checks[b].step = "emit"
    /\ emitted' = emitted + 1
    /\ checks' = [checks EXCEPT ![b] = Away]
    /\ UNCHANGED <<guideRows, guideDoc, guideMem, guideBroken, reviewOwn, elsewhere, guideWrites,
                   guideFaults, guideStarts>>

\* The thesis and the evidence stores go on: a thesis is deleted, its evidence linked or revoked.
ChangeElsewhere ==
    \E t \in owned :
        /\ \/ linked' = linked \cup {t} /\ UNCHANGED owned
           \/ linked' = linked \ {t} /\ UNCHANGED owned
           \/ owned' = owned \ {t} /\ UNCHANGED linked
        /\ everLinked' = everLinked \cup linked'
        /\ guideWrites < MaxGuideWrites
        /\ guideWrites' = guideWrites + 1
        /\ UNCHANGED <<guideRows, guideOwn, reviewOwn, checks, guideFaults, guideStarts>>

RestartGuide ==
    /\ guideStarts < MaxGuideStarts
    /\ guideStarts' = guideStarts + 1
    /\ reviewsMem' = NoLog /\ guideMem' = NoGuide /\ guideBroken' = FALSE
    /\ checks' = [b \in Browsers |-> Away]
    /\ UNCHANGED <<guideRows, reviewsDoc, guideDoc, elsewhere, emitted, reviewIds, guideWrites,
                   guideFaults, saved, fallen, spoilt, everChallenged>>

GuideInit ==
    /\ guideRows \in BOOLEAN
    /\ reviewsDoc = <<>> /\ reviewsMem = NoLog
    /\ guideDoc = NewGuide /\ guideMem = NoGuide /\ guideBroken = FALSE
    /\ linked = {} /\ owned = Guided
    /\ checks = [b \in Browsers |-> Away]
    /\ emitted = 0
    /\ reviewIds = 0 /\ guideWrites = 0 /\ guideFaults = 0 /\ guideStarts = 0
    /\ saved = {} /\ fallen = {} /\ spoilt = FALSE
    /\ everLinked = {} /\ everChallenged = {}

GuideNext ==
    \/ CreateReview \/ RateReview \/ DeleteReview \/ ListReviews
    \/ ChangeElsewhere \/ RestartGuide
    \/ \E b \in Browsers :
          \/ Progress(b) \/ OpenGuide(b) \/ ReadTheses(b) \/ ReadLinks(b) \/ ReadReviews(b)
          \/ Complete(b) \/ SecondToComplete(b) \/ EmitCompleted(b)

GuideSpec == GuideInit /\ [][GuideNext]_guideVars

-----------------------------------------------------------------------------
\* A review whose save was acknowledged stays in the log until it is deleted or trimmed, whatever
\* write was refused or lost and whatever read failed; except after a delete the files refused,
\* which has already moved the entries of the shared array.
ReviewsAreKept == ~spoilt => saved \subseteq Idents(reviewsDoc) \cup fallen

\* The guide is completed on a thesis that had live evidence and a challenge of its own, never on
\* the evidence of one thesis and the challenge of another; the completion is recorded at most
\* once, and nobody is told of one that is not durable.
CompletionIsProven ==
    /\ guideDoc.status = "completed" => guideDoc.proof \in everLinked \cap everChallenged
    /\ emitted =< 1
    /\ emitted = 1 \/ guideMem.status = "completed" => guideDoc.status = "completed"

\* What the user did in the guided review stands: the reviews that were saved, and a completion
\* that is proven by one thesis and told once.
GuideStands == ReviewsAreKept /\ CompletionIsProven
=============================================================================
