------------------------------ MODULE EventCorpus ------------------------------
(***************************************************************************)
(* The ingestion of services/events: the call budget of one provider       *)
(* (budget.py), the documents it returns (documents.py), the release row    *)
(* its numbers go to (ingest.py, macro.py) and the clustering of documents  *)
(* into events (events.py), for one story and one release.                  *)
(*                                                                          *)
(* A pass runs from the scheduler's lane, from POST /ingest and from the    *)
(* service's start; only the first takes the lane's lease, so passes run    *)
(* side by side. Every step below is one PostgreSQL transaction, except     *)
(* the clustering, whose transaction is a step for each document: it reads  *)
(* what is committed and what it has itself written.                        *)
(***************************************************************************)
EXTENDS Naturals, FiniteSets, FiniteSetsExt

CONSTANTS Ingests,     \* the passes
          MaxDoc,      \* the documents of the story are 1 .. MaxDoc, by their time
          MacroDoc,    \* the one that carries the release's macro key
          DailyLimit,  \* the provider's daily limit
          MaxCalls,    \* bound on the calls of one pass
          MaxIngests   \* bound on the passes begun

ASSUME CorpusAssumption == MaxDoc \in Nat /\ MacroDoc \in 1 .. MaxDoc

Docs == 1 .. MaxDoc
Nothing == {}
NoRelease == [expected |-> FALSE, actual |-> FALSE]
NoRow == [exists |-> FALSE, captured |-> "none", actual |-> FALSE, linked |-> FALSE]
Asleep == [pc |-> "idle", late |-> FALSE, calls |-> 0, got |-> Nothing, release |-> NoRelease,
           copy |-> NoRow, todo |-> Nothing, made |-> Nothing, mine |-> Nothing,
           degraded |-> FALSE]

VARIABLES budget,    \* the provider's row of the day: calls made, blocked or not
          doc,       \* source_documents: absent, stored or swept
          link,      \* event_documents: <<event, document>>, an event named by its first document
          macro,     \* the release's row of macro_events
          released,  \* whether the release's time has come
          ingest,    \* where each pass is
          torn,      \* history: a pass stopped, or its clustering failed, since the last good one
          began      \* the passes begun

corpusVars == <<budget, doc, link, macro, released, ingest, torn, began>>

CorpusInit ==
    /\ budget = [calls |-> 0, blocked |-> FALSE]
    /\ doc = [d \in Docs |-> "absent"]
    /\ link = Nothing
    /\ macro = NoRow
    /\ released = FALSE
    /\ ingest = [i \in Ingests |-> Asleep]
    /\ torn = FALSE
    /\ began = 0

EventsIn(links) == {pair[1] : pair \in links}
DocsIn(links) == {pair[2] : pair \in links}
In(i, pc) == ingest[i].pc = pc

ReleaseComes ==
    /\ ~released
    /\ released' = TRUE
    /\ UNCHANGED <<budget, doc, link, macro, ingest, torn, began>>

BeginIngest(i) ==
    /\ In(i, "idle") /\ began < MaxIngests
    /\ ingest' = [ingest EXCEPT ![i] = [Asleep EXCEPT !.pc = "asking", !.late = released]]
    /\ began' = began + 1
    /\ UNCHANGED <<budget, doc, link, macro, released, torn>>

--------------------------------------------------------------------------------
(* The provider's budget.                                                  *)

(* The increment is committed before the socket is opened.                 *)
Counted(calls) == calls + 1

Reserve(i) ==
    /\ In(i, "asking")
    /\ IF budget.blocked \/ budget.calls >= DailyLimit \/ ingest[i].calls = MaxCalls
       THEN /\ ingest' = [ingest EXCEPT ![i].pc = "selecting"]
            /\ UNCHANGED budget
       ELSE /\ budget' = [budget EXCEPT !.calls = Counted(@)]
            /\ ingest' = [ingest EXCEPT ![i].pc = "calling", ![i].calls = @ + 1]
    /\ UNCHANGED <<doc, link, macro, released, torn, began>>

(* The request: an answer clears the block and the breadcrumb, a rate limit *)
(* or a server error sets the block, any other failure leaves it.           *)
Call(i) ==
    /\ In(i, "calling")
    /\ \/ \E got \in SUBSET Docs, release \in [expected : BOOLEAN, actual : BOOLEAN] :
             /\ release.actual => released
             /\ ingest' = [ingest EXCEPT ![i].pc = "storing", ![i].got = got,
                                         ![i].release = release]
             /\ budget' = [budget EXCEPT !.blocked = FALSE]
       \/ /\ ingest' = [ingest EXCEPT ![i].pc = "asking"]
          /\ budget' \in {budget, [budget EXCEPT !.blocked = TRUE]}
    /\ UNCHANGED <<doc, link, macro, released, torn, began>>

(* The block runs out.                                                     *)
BlockEnds ==
    /\ budget.blocked
    /\ budget' = [budget EXCEPT !.blocked = FALSE]
    /\ UNCHANGED <<doc, link, macro, released, ingest, torn, began>>

--------------------------------------------------------------------------------
(* What the answer leaves in the store.                                    *)

(* A document is known by its content hash: a second arrival is dropped. A *)
(* swept document is not offered again, the providers' windows being far   *)
(* shorter than the retention.                                             *)
StoreDocuments(i) ==
    /\ In(i, "storing")
    /\ doc' = [d \in Docs |-> IF d \in ingest[i].got /\ doc[d] = "absent" THEN "stored" ELSE doc[d]]
    /\ ingest' = [ingest EXCEPT
          ![i].mine = @ \cup {d \in ingest[i].got : doc[d] = "absent"},
          ![i].got = Nothing,
          ![i].pc = IF ingest[i].release = NoRelease THEN "asking" ELSE "reading"]
    /\ UNCHANGED <<budget, link, macro, released, torn, began>>

(* The merge of an observed release: the row is read ...                   *)
ReadRelease(i) ==
    /\ In(i, "reading")
    /\ ingest' = [ingest EXCEPT ![i].pc = "writing", ![i].copy = macro]
    /\ UNCHANGED <<budget, doc, link, macro, released, torn, began>>

(* ... an expectation captured before the release is kept, and a known     *)
(* number is not replaced by none ...                                      *)
Captured(copy, release, late) ==
    IF copy.captured = "early" \/ ~release.expected THEN copy.captured
    ELSE IF late THEN "late" ELSE "early"

(* ... and the whole row is written over, its link to an event reset.      *)
WriteRelease(i) ==
    /\ In(i, "writing")
    /\ macro' = [exists |-> TRUE, linked |-> FALSE,
                 captured |-> Captured(ingest[i].copy, ingest[i].release, ingest[i].late),
                 actual |-> ingest[i].copy.actual \/ ingest[i].release.actual]
    /\ ingest' = [ingest EXCEPT ![i].pc = "asking", ![i].copy = NoRow, ![i].release = NoRelease]
    /\ UNCHANGED <<budget, doc, link, released, torn, began>>

--------------------------------------------------------------------------------
(* The clustering.                                                         *)

Unlinked(i) == {d \in Docs : doc[d] = "stored" /\ d \notin DocsIn(link)}

SelectDocuments(i) ==
    /\ In(i, "selecting")
    /\ ingest' = [ingest EXCEPT ![i].pc = "clustering", ![i].todo = Unlinked(i)]
    /\ UNCHANGED <<budget, doc, link, macro, released, torn, began>>

(* The earliest document left joins the first event of the story that this *)
(* transaction can see, or becomes one. An event that another transaction  *)
(* has created and not committed makes the insert wait.                    *)
ClusterDocument(i) ==
    LET d == Min(ingest[i].todo)
        seen == EventsIn(link \cup ingest[i].made)
        event == IF seen = {} THEN d ELSE Min(seen) IN
    /\ In(i, "clustering") /\ ingest[i].todo # Nothing
    /\ IF seen = {} /\ \E other \in Ingests \ {i} : d \in EventsIn(ingest[other].made)
       THEN ingest' = [ingest EXCEPT ![i].pc = "blocked"]
       ELSE ingest' = [ingest EXCEPT ![i].todo = @ \ {d}, ![i].made = @ \cup {<<event, d>>}]
    /\ UNCHANGED <<budget, doc, link, macro, released, torn, began>>

(* The insert that waited goes on when the other transaction is undone.    *)
InsertResumes(i) ==
    /\ In(i, "blocked")
    /\ \A other \in Ingests \ {i} : Min(ingest[i].todo) \notin EventsIn(ingest[other].made)
    /\ Min(ingest[i].todo) \notin EventsIn(link)
    /\ ingest' = [ingest EXCEPT ![i].pc = "clustering"]
    /\ UNCHANGED <<budget, doc, link, macro, released, torn, began>>

\* Mutant: a clustering that failed is not reported.
RolledBackQuietly(pass) == [pass EXCEPT !.pc = "sweeping", !.todo = Nothing, !.made = Nothing]

(* A failed clustering is rolled back; the pass goes on and reports it.    *)
RolledBack(pass) ==
    [pass EXCEPT !.pc = "sweeping", !.todo = Nothing, !.made = Nothing, !.degraded = TRUE]

(* The insert that waited finds the event committed.                       *)
ClusteringFails(i) ==
    /\ In(i, "blocked") /\ Min(ingest[i].todo) \in EventsIn(link)
    /\ ingest' = [ingest EXCEPT ![i] = RolledBack(@)]
    /\ torn' = TRUE
    /\ UNCHANGED <<budget, doc, link, macro, released, began>>

(* _reconcile_macro_events looks at every document that has an event.      *)
Linkers(i) == {d \in DocsIn(link \cup ingest[i].made) : doc[d] = "stored"}

CommitClusters(i) ==
    /\ In(i, "clustering") /\ ingest[i].todo = Nothing
    /\ link' = link \cup ingest[i].made
    /\ macro' = [macro EXCEPT !.linked = @ \/ (macro.exists /\ MacroDoc \in Linkers(i))]
    /\ ingest' = [ingest EXCEPT ![i].pc = "sweeping", ![i].made = Nothing]
    /\ torn' = FALSE
    /\ UNCHANGED <<budget, doc, released, began>>

(* The retention sweep removes documents and never a link, and the run's   *)
(* record ends the pass. The release's document is an official one.        *)
Sweep(i) ==
    /\ In(i, "sweeping")
    /\ \E old \in SUBSET (DocsIn(link) \ {MacroDoc}) :
          doc' = [d \in Docs |-> IF d \in old THEN "swept" ELSE doc[d]]
    /\ ingest' = [ingest EXCEPT ![i].pc = "done"]
    /\ UNCHANGED <<budget, link, macro, released, torn, began>>

Rests(i) ==
    /\ In(i, "done")
    /\ ingest' = [ingest EXCEPT ![i] = Asleep]
    /\ UNCHANGED <<budget, doc, link, macro, released, torn, began>>

StopIngest(i) ==
    /\ ingest[i].pc \notin {"idle", "done"}
    /\ ingest' = [ingest EXCEPT ![i] = Asleep]
    /\ torn' = TRUE
    /\ UNCHANGED <<budget, doc, link, macro, released, began>>

CorpusNext ==
    \/ ReleaseComes \/ BlockEnds
    \/ \E i \in Ingests :
          \/ BeginIngest(i) \/ Reserve(i) \/ Call(i) \/ StoreDocuments(i)
          \/ ReadRelease(i) \/ WriteRelease(i) \/ SelectDocuments(i) \/ ClusterDocument(i)
          \/ InsertResumes(i) \/ ClusteringFails(i) \/ CommitClusters(i) \/ Sweep(i)
          \/ Rests(i) \/ StopIngest(i)

CorpusSpec == CorpusInit /\ [][CorpusNext]_corpusVars

--------------------------------------------------------------------------------

(* A pass that ends without saying its clustering failed leaves no         *)
(* document it stored outside an event, whatever the other passes did.     *)
(* The release's link to its event heals: when it is missing although the  *)
(* document is in an event, a pass that will repair it is on its way, or   *)
(* one was stopped or failed.                                              *)
Coming(i) == ingest[i].pc \in {"asking", "calling", "storing", "reading", "writing",
                               "selecting", "clustering", "blocked"}

ClusteringIsComplete ==
    /\ \A i \in Ingests :
          In(i, "done") /\ ~ingest[i].degraded => ingest[i].mine \subseteq DocsIn(link)
    /\ macro.exists /\ MacroDoc \in DocsIn(link) /\ ~macro.linked =>
          torn \/ \E i \in Ingests : Coming(i)

================================================================================
