------------------------------ MODULE ThesisBook ------------------------------
(***************************************************************************)
(* One user's theses (journal/theses.go, internal_theses.go,               *)
(* document_postgres.go): one document, loaded once into memory and written*)
(* back whole by every change. A load or a PostgreSQL write that fails     *)
(* marks the user `broken`: reads serve what memory holds and every write  *)
(* is refused until the next start. All the theses are on one ticker; the  *)
(* invalidation conditions stand for the five lists of items, and whether a*)
(* request edits the claim, the notes, the horizon or the confidence for   *)
(* those fields.                                                           *)
(***************************************************************************)
EXTENDS Integers, FiniteSets, SequencesExt

CONSTANTS
    OldTheses,      \* theses of a v1 file, from before this code
    NewTheses,      \* ids newID may hand out
    Items,          \* item ids resolveItems may mint
    MaxActive,      \* maxActiveTheses
    MaxVersions,    \* maxVersionEvents
    ThesisFaults,   \* of "load", "refuse", "lost"
    MaxChanges, MaxThesisFaults, MaxThesisStarts    \* bounds

ASSUME ThesisBookAssumption ==
    /\ OldTheses \cap NewTheses = {}
    /\ ThesisFaults \subseteq {"load", "refuse", "lost"}
    /\ {MaxActive, MaxVersions} \subseteq Nat \ {0}
    /\ {MaxChanges, MaxThesisFaults, MaxThesisStarts} \subseteq Nat

ThesisIds == OldTheses \cup NewTheses
Nothing == "nothing"
Statuses == {"draft", "active", "closed", "archived"}
Absent == [status |-> Nothing]
NotLoaded == [id \in {} |-> Absent]

VARIABLES
    inPostgres,     \* the document is a row, not a file
    document,       \* durable: thesis id -> thesis, or Absent
    memory,         \* the user's cache, or NotLoaded
    broken,         \* memory: s.broken[uid]
    minted,         \* item ids handed out so far
    thesesUp,       \* the process runs
    changes, thesisFaults, thesisStarts,    \* bounds
    believed,       \* history: what a thesis may be, going by the answers
    lived           \* history: the statuses a thesis went through

thesisVars == <<inPostgres, document, memory, broken, minted, thesesUp, changes,
                thesisFaults, thesisStarts, believed, lived>>

-----------------------------------------------------------------------------
\* A v1 record has a text and perhaps a status; read, it is an active thesis without history.
OldThesis ==
    [status |-> "active", reason |-> FALSE, by |-> Nothing, dated |-> FALSE,
     items |-> {}, checked |-> FALSE, reviewed |-> FALSE, versions |-> <<>>, cut |-> FALSE]
\* What a load makes of a record: the close fields of one that is not closed are dropped.
Normalized(t) ==
    IF t.status \in {"closed", Nothing} THEN t
    ELSE [t EXCEPT !.reason = FALSE, !.dated = FALSE, !.by = Nothing]

\* At most one new item a request, which newID has never handed out.
Fresh == {{}} \cup {{i} : i \in Items \ minted}

Exists(book) == {id \in ThesisIds : book[id] # Absent}
CountActive(book, except) == Cardinality({id \in Exists(book) \ except : book[id].status = "active"})

LegalTransition ==
    {<<"draft", "active">>, <<"draft", "archived">>, <<"active", "closed">>,
     <<"active", "archived">>, <<"closed", "archived">>, <<"archived", "active">>}

\* validateThesisInvariants.
Acceptable(t) ==
    /\ t.reason = (t.status = "closed")
    /\ t.by # Nothing => t.by \in t.items

\* What a load finds: the document, or nothing at all when it cannot be read.
LoadResults ==
    IF memory # NotLoaded THEN {[book |-> memory, broken |-> broken, faults |-> 0]}
    ELSE {[book |-> [id \in ThesisIds |-> Normalized(document[id])], broken |-> broken, faults |-> 0]}
         \cup IF "load" \in ThesisFaults /\ thesisFaults < MaxThesisFaults
              THEN {[book |-> [id \in ThesisIds |-> Absent], broken |-> TRUE, faults |-> 1]}
              ELSE {}

\* The ways the write of the whole document ends, once the user is not broken.
WriteResults(faults) ==
    {"done"} \cup IF faults + thesisFaults >= MaxThesisFaults THEN {}
                  ELSE (IF "refuse" \in ThesisFaults THEN {"refused"} ELSE {})
                       \cup (IF "lost" \in ThesisFaults THEN {"lost"} ELSE {})

\* Mutant: a write goes through whatever the load said.
MayPersistAnyway(bad) == TRUE

\* A user who is broken is not written.
MayPersist(bad) == ~bad

\* What a request leaves behind: an answer lost by the files is a stop of the process.
Settle(load, book, outcome) ==
    /\ memory' = IF outcome = "lost" /\ ~inPostgres THEN NotLoaded
                 ELSE IF outcome = "done" THEN book ELSE load.book
    /\ document' = IF outcome \in {"done", "lost"} THEN book ELSE document
    /\ broken' = IF outcome = "lost" /\ ~inPostgres THEN FALSE
                 ELSE load.broken \/ (inPostgres /\ outcome \in {"refused", "lost"})
    /\ thesesUp' = ~(outcome = "lost" /\ ~inPostgres)
    /\ thesisFaults' = thesisFaults + load.faults + IF outcome \in {"refused", "lost"} THEN 1 ELSE 0

\* A request that only reads loads the document, once per process.
ListTheses ==
    /\ thesesUp /\ memory = NotLoaded
    /\ \E load \in LoadResults : Settle(load, load.book, "read")
    /\ UNCHANGED <<inPostgres, minted, changes, thesisStarts, believed, lived>>

\* The bound on the changes, and a user who is not already known to be broken.
MayChange == thesesUp /\ ~broken /\ changes < MaxChanges

\* One change of thesis `id` into `next`, and what the answer tells the user. The document is
\* written whole; a refused write puts memory back, and on PostgreSQL breaks the user.
Change(id, load, next) ==
    LET book == [load.book EXCEPT ![id] = next] IN
    \E outcome \in IF MayPersist(load.broken) THEN WriteResults(load.faults) ELSE {"unwritable"} :
        /\ changes' = changes + 1
        /\ Settle(load, book, outcome)
        /\ believed' = CASE outcome = "done" -> [believed EXCEPT ![id] = {next}]
                         [] outcome = "lost" -> [believed EXCEPT ![id] = @ \cup {next}]
                         [] OTHER -> believed
        /\ lived' = IF \/ outcome \notin {"done", "lost"} \/ next = Absent
                       \/ lived[id] # <<>> /\ Last(lived[id]) = next.status
                    THEN lived ELSE [lived EXCEPT ![id] = Append(@, next.status)]
        /\ UNCHANGED <<inPostgres, thesisStarts>>

\* Create refuses an active thesis over the cap, and takes the rest of the record from the request:
\* its closedAt too, whatever the status. Items get new ids.
CreateThesis ==
    \E load \in LoadResults, id \in NewTheses, status \in Statuses, dated \in BOOLEAN,
       fresh \in Fresh :
        /\ MayChange
        /\ believed[id] = {Absent} /\ lived[id] = <<>>
        /\ status = "active" => CountActive(load.book, {}) < MaxActive
        /\ Change(id, load,
                  [OldThesis EXCEPT !.status = status, !.reason = (status = "closed"),
                                    !.dated = (dated \/ status = "closed"), !.items = fresh])
        /\ minted' = minted \cup fresh

\* An item keeps its id when it is on the list; any other gets a new one.
Kept(current) == SUBSET current

\* Mutant: a change that comes with a check leaves no version event.
MaterialUnchecked(t, next, edited) ==
    /\ edited \/ <<t.status, t.reason, t.items>> # <<next.status, next.reason, next.items>>
    /\ t.checked = next.checked

\* A version event: the prior status, when that is what changed. Only a material change has one:
\* never a check.
Material(t, next, edited) ==
    edited \/ <<t.status, t.reason, t.items>> # <<next.status, next.reason, next.items>>
Versioned(t, next, edited) ==
    LET event == [from |-> IF t.status = next.status THEN Nothing ELSE t.status]
        versions == Append(t.versions, event)
        over == Len(versions) - MaxVersions IN
    IF ~Material(t, next, edited) THEN next
    ELSE IF over =< 0 THEN [next EXCEPT !.versions = versions]
    ELSE [next EXCEPT !.versions = SubSeq(versions, over + 1, Len(versions)), !.cut = TRUE]

\* applyThesisPatch moves the status last; leaving `closed` clears the record of the close.
Moved(t, status, reason, by) ==
    LET named == [t EXCEPT !.reason = IF reason = Nothing THEN @ ELSE reason = "given",
                           !.by = IF by = "same" THEN @ ELSE by] IN
    IF status = t.status THEN named
    ELSE IF t.status = "closed"
         THEN [named EXCEPT !.status = status, !.reason = FALSE, !.dated = FALSE, !.by = Nothing]
         ELSE [named EXCEPT !.status = status, !.dated = (@ \/ status = "closed")]

\* The cap is for every way into `active`, on the live list.
MayMove(book, id, from, to) ==
    \/ from = to
    \/ /\ <<from, to>> \in LegalTransition
       /\ to = "active" => CountActive(book, {id}) < MaxActive

\* The next record: the lists replace those that are there, the status goes last.
Patched(t, items, check, status, reason, by) ==
    Moved([t EXCEPT !.checked = (@ \/ check), !.items = items], status, reason, by)

\* PATCH /theses/{id}: any of an edit, a list of conditions, the condition that closed it, a status
\* with its reason, and the result of a check.
PatchThesis ==
    MayChange /\ \E load \in LoadResults : \E id \in Exists(load.book), status \in Statuses :
        LET t == load.book[id] IN
        /\ MayMove(load.book, id, t.status, status)
        /\ \E kept \in Kept(t.items), fresh \in Fresh, reason \in {Nothing, "given", "cleared"},
              by \in t.items \cup {Nothing, "same"}, edited \in BOOLEAN, check \in BOOLEAN :
              LET next == Patched(t, kept \cup fresh, check, status, reason, by) IN
              /\ Acceptable(next)
              /\ Change(id, load, Versioned(t, next, edited))
              /\ minted' = minted \cup fresh

\* The two writes of the system's own: a review checkpoint and the check of the monitor's worker.
ReviewOrCheckThesis ==
    \E load \in LoadResults, id \in ThesisIds, what \in {"review", "check"} :
        /\ MayChange
        /\ id \in Exists(load.book)
        /\ what = "check" => Acceptable(load.book[id])
        /\ Change(id, load, IF what = "check" THEN [load.book[id] EXCEPT !.checked = TRUE]
                            ELSE [load.book[id] EXCEPT !.reviewed = TRUE])
        /\ UNCHANGED minted

DeleteThesis ==
    \E load \in LoadResults, id \in ThesisIds :
        /\ MayChange
        /\ id \in Exists(load.book)
        /\ Change(id, load, Absent)
        /\ UNCHANGED minted

RestartTheses ==
    /\ thesisStarts < MaxThesisStarts
    /\ thesisStarts' = thesisStarts + 1
    /\ thesesUp' = TRUE
    /\ memory' = NotLoaded
    /\ broken' = FALSE
    /\ UNCHANGED <<inPostgres, document, minted, changes, thesisFaults, believed, lived>>

ThesisInit ==
    /\ inPostgres \in BOOLEAN
    /\ document = [id \in ThesisIds |-> IF id \in OldTheses THEN OldThesis ELSE Absent]
    /\ memory = NotLoaded
    /\ broken = FALSE /\ thesesUp = TRUE
    /\ minted = {}
    /\ changes = 0 /\ thesisFaults = 0 /\ thesisStarts = 0
    /\ believed = [id \in ThesisIds |-> {document[id]}]
    /\ lived = [id \in ThesisIds |-> IF id \in OldTheses THEN <<"active">> ELSE <<>>]

ThesisNext ==
    \/ ListTheses
    \/ CreateThesis
    \/ PatchThesis
    \/ ReviewOrCheckThesis
    \/ DeleteThesis
    \/ RestartTheses

ThesisSpec == ThesisInit /\ [][ThesisNext]_thesisVars

-----------------------------------------------------------------------------
AsLoaded(t) == {t, IF t = Absent THEN t ELSE Normalized(t)}

\* Whatever a load, a write or a stop did, the durable document is what the answers say, or what a
\* write without an answer would have made of it (up to what a load drops): no thesis is overwritten
\* by a memory that could not be loaded, or that missed a write whose answer was lost.
NothingIsClobbered ==
    \A id \in ThesisIds : \E t \in believed[id] : document[id] \in AsLoaded(t)

\* The history of a thesis that was never cut tells every status it went through, in order: a
\* reopen can be read out of it, whatever else the requests carried. Each event that has a prior
\* status is one move, and the status the thesis has is where the last one led.
Moves(t) == {i \in DOMAIN t.versions : t.versions[i].from # Nothing}
Tells(t, life) ==
    /\ Len(life) = Cardinality(Moves(t)) + 1
    /\ Last(life) = t.status
    /\ \A i \in Moves(t) : life[Cardinality({j \in Moves(t) : j =< i})] = t.versions[i].from
HistoryTellsTheLife ==
    \A id \in Exists(document) : ~document[id].cut => Tells(document[id], lived[id])
=============================================================================
