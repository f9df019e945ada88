----------------------------- MODULE EvidenceStore -----------------------------
(***************************************************************************)
(* One user's evidence (journal/evidence_store.go, evidence.go): the saved *)
(* records and their links to theses, two documents behind one lock, each  *)
(* loaded once into memory and written back whole. A load that fails is    *)
(* remembered until the next start, and refuses every write; for files, a  *)
(* read that fails counts as "no file yet".                                *)
(*                                                                         *)
(* On PostgreSQL a failed write drops what memory held, so that the next   *)
(* request reads the row; with files memory keeps the refused change.      *)
(* The theses are there throughout: deleting one touches neither document. *)
(***************************************************************************)
EXTENDS Integers, FiniteSets

CONSTANTS
    Records,        \* ids newEvidenceID may hand out
    Sources,        \* upstream things: the dedupe keys
    Cited,          \* the user's theses
    Tabs,           \* requests in flight
    MaxEdits, MaxEvidenceFaults, MaxEvidenceStarts  \* bounds

ASSUME EvidenceAssumption == {MaxEdits, MaxEvidenceFaults, MaxEvidenceStarts} \subseteq Nat

NoRecord == [source |-> "none"]
Unread == [e \in {} |-> NoRecord]
NoRecords == [e \in Records |-> NoRecord]
NoLinks == [l \in Cited \X Records |-> "none"]
NoRequest == [step |-> "none"]

VARIABLES
    onRows,             \* PostgreSQL, or files
    recordsDoc,         \* durable: evidence id -> record
    linksDoc,           \* durable: (thesis, evidence) -> "none", "live" or "revoked"
    recordsMem, linksMem,   \* memory: s.records, s.links
    latched,            \* memory: s.loadErr
    requests,           \* memory: what each tab's request has passed
    edits, evidenceFaults, evidenceStarts,  \* bounds
    promised,           \* history: records whose save was acknowledged
    excused,            \* history: a file could not be read or written
    relinked            \* history: links written when their record was gone already

evidenceVars == <<onRows, recordsDoc, linksDoc, recordsMem, linksMem, latched, requests, edits,
                  evidenceFaults, evidenceStarts, promised, excused, relinked>>

-----------------------------------------------------------------------------
\* What loading one document yields. A row that cannot be read latches; a file that cannot counts
\* as missing.
Loads(memory, doc, empty, name) ==
    IF memory # Unread THEN {[shown |-> memory, latch |-> {}, faults |-> 0]}
    ELSE {[shown |-> doc, latch |-> {}, faults |-> 0]}
         \cup IF evidenceFaults >= MaxEvidenceFaults THEN {}
              ELSE {[shown |-> empty, latch |-> IF onRows THEN {name} ELSE {}, faults |-> 1]}
RecordLoads == Loads(recordsMem, recordsDoc, NoRecords, "evidence")
LinkLoads == Loads(linksMem, linksDoc, NoLinks, "links")

Writable(latches) == latches = {}

Saved(shown) == {e \in Records : shown[e] # NoRecord}

\* The ways a write ends: done, refused, torn between the two files of a forced delete (the second
\* refused, or never reached), durable but unanswered.
WriteEnds(faults, torn) ==
    {"done"} \cup IF faults + evidenceFaults >= MaxEvidenceFaults THEN {}
                  ELSE {"refused", "lost"} \cup IF torn THEN {"half", "torn"} ELSE {}
Durable(end) == end \in {"done", "lost", "half", "torn"}
Stopped(end) == ~onRows /\ end \in {"lost", "torn"}

\* Memory after the write of one document.
InMemory(end, written, next, shown) ==
    IF Stopped(end) THEN Unread
    ELSE IF ~written THEN shown
    ELSE IF onRows /\ end # "done" THEN Unread ELSE next

\* One locked operation of the store: `write` says which documents it writes, and what. What the
\* tab's request goes on to is `after`, once the write is done.
Operate(c, rec, lnk, write, end, after) ==
    LET wroteRecords == "records" \in DOMAIN write
        wroteLinks == "links" \in DOMAIN write
        faults == rec.faults + lnk.faults
        nextRecords == IF wroteRecords THEN write.records ELSE rec.shown
        nextLinks == IF wroteLinks THEN write.links ELSE lnk.shown IN
    /\ edits < MaxEdits
    /\ edits' = edits + 1
    /\ recordsDoc' = IF wroteRecords /\ Durable(end) THEN nextRecords ELSE recordsDoc
    /\ linksDoc' = IF wroteLinks /\ Durable(end) /\ end \notin {"half", "torn"} THEN nextLinks
                   ELSE linksDoc
    /\ recordsMem' = InMemory(end, wroteRecords, nextRecords, rec.shown)
    /\ linksMem' = InMemory(end, wroteLinks, nextLinks, lnk.shown)
    /\ latched' = IF Stopped(end) THEN {} ELSE latched \cup rec.latch \cup lnk.latch
    /\ evidenceFaults' = evidenceFaults + faults + IF end \in {"done", "none"} THEN 0 ELSE 1
    /\ evidenceFaults' =< MaxEvidenceFaults
    /\ excused' = (excused \/ (~onRows /\ (faults > 0 \/ end \in {"refused", "half", "torn"})))
    /\ requests' = IF Stopped(end) THEN [d \in Tabs |-> NoRequest]
                   ELSE [requests EXCEPT ![c] = IF end \in {"done", "none"} THEN after ELSE NoRequest]
    /\ UNCHANGED <<onRows, evidenceStarts>>

\* A request that finds a document it cannot write (503), or nothing to do (404, 409, 200).
Nowhere == [x \in {} |-> NoRecords]

\* GET: the listing, loading what it needs.
ListEvidence ==
    /\ recordsMem = Unread \/ linksMem = Unread
    /\ \E rec \in RecordLoads, lnk \in LinkLoads :
          /\ recordsMem' = rec.shown
          /\ linksMem' = lnk.shown
          /\ latched' = latched \cup rec.latch \cup lnk.latch
          /\ evidenceFaults + rec.faults + lnk.faults =< MaxEvidenceFaults
          /\ evidenceFaults' = evidenceFaults + rec.faults + lnk.faults
          /\ excused' = (excused \/ (~onRows /\ rec.faults + lnk.faults > 0))
    /\ UNCHANGED <<onRows, recordsDoc, linksDoc, requests, edits, evidenceStarts, promised, relinked>>

\* The record that already carries a dedupe key. A deliberate re-capture has a key of its own.
SameSource(shown, source) == {e \in Saved(shown) : shown[e].source = source}

\* POST /evidence, as far as addRecord; with an inline link, the link comes after it.
SaveEvidence(c) ==
    \E rec \in RecordLoads, lnk \in LinkLoads, e \in Records, source \in Sources \cup {"own"},
       thesis \in Cited \cup {"none"} :
        LET same == IF source = "own" THEN {} ELSE SameSource(rec.shown, source)
            stored == IF same = {} THEN e ELSE CHOOSE d \in same : TRUE
            after == IF thesis = "none" THEN NoRequest
                     ELSE [step |-> "link", link |-> <<thesis, stored>>, saving |-> TRUE]
            next == [rec.shown EXCEPT ![e] = [source |-> source, note |-> FALSE]] IN
        /\ requests[c] = NoRequest
        /\ e \notin Saved(recordsDoc) \cup Saved(rec.shown)
        /\ \A l \in Cited \X {e} : linksDoc[l] = "none"
        /\ e \notin promised
        /\ \E end \in IF ~Writable(latched \cup rec.latch \cup lnk.latch) THEN {"unwritable"}
                      ELSE IF same # {} THEN {"none"}
                      ELSE WriteEnds(rec.faults + lnk.faults, FALSE) :
              /\ Operate(c, rec, lnk,
                         IF end \in {"none", "unwritable"} THEN Nowhere ELSE [records |-> next],
                         end, after)
              /\ promised' = IF end \in {"done", "none"} /\ thesis = "none"
                             THEN promised \cup {stored} ELSE promised
        /\ UNCHANGED relinked

\* POST /evidence/links, as far as its checks that both ends are there.
CheckLink(c) ==
    \E rec \in RecordLoads, thesis \in Cited :
        /\ requests[c] = NoRequest
        /\ edits < MaxEdits
        /\ \E e \in Saved(rec.shown) :
              requests' = [requests EXCEPT ![c] = [step |-> "link", link |-> <<thesis, e>>,
                                                   saving |-> FALSE]]
        /\ recordsMem' = rec.shown
        /\ UNCHANGED <<onRows, recordsDoc, linksDoc, linksMem, latched, edits, evidenceFaults,
                       evidenceStarts, promised, excused, relinked>>

\* A write of the links only: an upsert, a patch or an unlink; none looks whether the record is
\* still there. With `saving`, its answer is that of the request which saved the record.
WriteLink(c, link, value, saving) ==
    \E rec \in RecordLoads, lnk \in LinkLoads :
      \E end \in IF Writable(latched \cup rec.latch \cup lnk.latch)
                 THEN WriteEnds(rec.faults + lnk.faults, FALSE) ELSE {"unwritable"} :
        /\ Operate(c, rec, lnk,
                   IF end = "unwritable" THEN Nowhere
                   ELSE [links |-> [lnk.shown EXCEPT ![link] = value]],
                   end, NoRequest)
        /\ relinked' = IF value = "live" /\ Durable(end) /\ link[2] \notin Saved(rec.shown)
                       THEN relinked \cup {link} ELSE relinked
        /\ promised' = IF saving /\ end = "done" /\ link[2] \in Saved(rec.shown)
                       THEN promised \cup {link[2]} ELSE promised

\* upsertLink: the pair is unique, and linking it again restores a revoked link.
FinishLink(c) ==
    /\ requests[c].step = "link"
    /\ WriteLink(c, requests[c].link, "live", requests[c].saving)

\* PATCH and DELETE of a link that memory shows.
EditLink(c) ==
    \E link \in Cited \X Records, value \in {"live", "revoked", "none"} :
        /\ requests[c] = NoRequest
        /\ linksMem # Unread /\ linksMem[link] # "none"
        /\ WriteLink(c, link, value, FALSE)

\* PATCH /evidence/{id}: the note.
NoteEvidence(c) ==
    \E rec \in RecordLoads, lnk \in LinkLoads : \E e \in Saved(rec.shown) :
      \E end \in IF Writable(latched \cup rec.latch \cup lnk.latch)
                 THEN WriteEnds(rec.faults + lnk.faults, FALSE) ELSE {"unwritable"} :
        /\ requests[c] = NoRequest
        /\ ~rec.shown[e].note
        /\ Operate(c, rec, lnk,
                   IF end = "unwritable" THEN Nowhere
                   ELSE [records |-> [rec.shown EXCEPT ![e].note = TRUE]],
                   end, NoRequest)
        /\ UNCHANGED <<promised, relinked>>

\* Mutant: nothing keeps a record from an unforced delete.
BlockingNothing(shown, e) == {}

\* Live links keep a record from an unforced delete; a revoked one is history.
Blocking(shown, e) == {l \in Cited \X {e} : shown[l] = "live"}

\* DELETE /evidence/{id}: with force, the links go too; one transaction, or two files in turn. A
\* transaction that fails drops both documents from memory.
DeleteEvidence(c) ==
    \E rec \in RecordLoads, lnk \in LinkLoads, force \in BOOLEAN : \E e \in Saved(rec.shown) :
        LET nextRecords == [rec.shown EXCEPT ![e] = NoRecord]
            nextLinks == [l \in Cited \X Records |-> IF l[2] = e THEN "none" ELSE lnk.shown[l]] IN
        /\ requests[c] = NoRequest
        /\ force \/ Blocking(lnk.shown, e) = {}
        /\ \E end \in IF Writable(latched \cup rec.latch \cup lnk.latch)
                      THEN WriteEnds(rec.faults + lnk.faults, force /\ ~onRows) ELSE {"unwritable"} :
              /\ Operate(c, rec, lnk,
                         IF end = "unwritable" THEN Nowhere
                         ELSE IF (~force /\ (~onRows \/ end = "done")) \/ (end = "refused" /\ ~onRows)
                         THEN [records |-> nextRecords]
                         ELSE [records |-> nextRecords, links |-> IF force THEN nextLinks ELSE lnk.shown],
                         end, NoRequest)
              /\ promised' = IF end = "unwritable" THEN promised ELSE promised \ {e}
        /\ UNCHANGED relinked

RestartEvidence ==
    /\ evidenceStarts < MaxEvidenceStarts
    /\ evidenceStarts' = evidenceStarts + 1
    /\ recordsMem' = Unread /\ linksMem' = Unread
    /\ latched' = {}
    /\ requests' = [c \in Tabs |-> NoRequest]
    /\ UNCHANGED <<onRows, recordsDoc, linksDoc, edits, evidenceFaults, promised, excused, relinked>>

EvidenceInit ==
    /\ onRows \in BOOLEAN
    /\ recordsDoc = NoRecords /\ linksDoc = NoLinks
    /\ recordsMem = Unread /\ linksMem = Unread
    /\ latched = {}
    /\ requests = [c \in Tabs |-> NoRequest]
    /\ edits = 0 /\ evidenceFaults = 0 /\ evidenceStarts = 0
    /\ promised = {} /\ relinked = {} /\ excused = FALSE

EvidenceNext ==
    \/ ListEvidence
    \/ RestartEvidence
    \/ \E c \in Tabs :
          \/ SaveEvidence(c) \/ NoteEvidence(c) \/ DeleteEvidence(c)
          \/ CheckLink(c) \/ FinishLink(c) \/ EditLink(c)

EvidenceSpec == EvidenceInit /\ [][EvidenceNext]_evidenceVars

-----------------------------------------------------------------------------
\* Evidence whose save was acknowledged (a new record, or the one that was there) is durable until
\* somebody deletes it: a refused or lost write, a document that cannot be read, a retry answered
\* from memory never lose it. And no record is deleted from under a live link: the dangling ones
\* were made live after the delete, by a request that had seen the record before (upsertLink and
\* patchLink do not look). With files, both hold as long as no file operation failed.
EvidenceIsKept ==
    ~excused =>
        /\ promised \subseteq Saved(recordsDoc)
        /\ \A l \in Cited \X Records :
              linksDoc[l] = "live" => l[2] \in Saved(recordsDoc) \/ l \in relinked
=============================================================================
