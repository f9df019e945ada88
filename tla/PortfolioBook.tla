----------------------------- MODULE PortfolioBook -----------------------------
(***************************************************************************)
(* One user's portfolios, their snapshots and their reviews                *)
(* (journal/portfolio_store.go, portfolio_snapshot_store.go,               *)
(* portfolio_review_store.go and their handlers): three documents, each    *)
(* with a lock and a cache of its own. Unlike the older stores, a document *)
(* that cannot be read is an error until the next start, and a write that  *)
(* fails leaves the cache as it was, also when the database had committed  *)
(* it.                                                                     *)
(*                                                                         *)
(* A request reads the portfolio, then the market and the theses, then the *)
(* papers there are, and writes last; the stores are free in between. The  *)
(* import of old files and the text of a review are left out.              *)
(***************************************************************************)
EXTENDS Integers, FiniteSets, FiniteSetsExt

CONSTANTS
    PortfolioLimit,     \* maxPortfoliosPerUser
    PaperLimit,         \* maxSnapshotsPerPortfolio, maxReviewsPerPortfolio
    Holdings,           \* what the positions, or the targets, of a portfolio may be
    Requests,           \* requests in flight
    MaxBookWrites, MaxBookFaults, MaxBookStarts, MaxMoves   \* bounds

ASSUME BookAssumption == PaperLimit \in Nat \ {0}

Papers == {"snapshots", "reviews"}
Docs == Papers \cup {"portfolios"}
Fields == {"positions", "targets"}
Waiting == [step |-> "waiting"]
Unloaded == [loaded |-> FALSE, items |-> {}, err |-> FALSE]

VARIABLES
    onDocs,             \* PostgreSQL, or files
    docs,               \* durable: what each document holds
    buckets,            \* memory: cache
    asks,               \* memory: what a request has read
    market, second,     \* the world: how often quotes, risk or theses changed, and the clock
    bookWrites, bookFaults, bookStarts,     \* bounds
    shown,              \* history: portfolios that were answered
    deletions,          \* history: portfolios whose deletion was asked
    papersTold          \* history: papers whose creation was acknowledged

bookVars == <<onDocs, docs, buckets, asks, market, second, bookWrites, bookFaults, bookStarts,
              shown, deletions, papersTold>>

-----------------------------------------------------------------------------
\* Mutant: as in the older stores, what cannot be read is empty.
UnreadableIsEmpty == [Unloaded EXCEPT !.loaded = TRUE]

\* A failed read is kept with the cache, and no operation of the document works until a restart.
Unreadable == [loaded |-> TRUE, items |-> {}, err |-> TRUE]

LoadLocked(k) ==
    IF buckets[k].loaded THEN {buckets[k]}
    ELSE {[loaded |-> TRUE, items |-> docs[k], err |-> FALSE]}
         \cup IF bookFaults < MaxBookFaults THEN {Unreadable} ELSE {}
LoadFaults(k, b) == IF b = Unreadable /\ ~buckets[k].loaded THEN 1 ELSE 0

\* An operation of request r that only reads document k, and what the request goes on with.
Reads(r, k, b, next) ==
    /\ buckets' = [buckets EXCEPT ![k] = b]
    /\ bookFaults' = bookFaults + LoadFaults(k, b)
    /\ asks' = [asks EXCEPT ![r] = IF b.err THEN Waiting ELSE next]
    /\ UNCHANGED <<onDocs, docs, bookWrites, bookStarts, market, deletions, papersTold>>

\* How a write ends. A file that was not renamed was not written; a commit may lose its answer.
BookEnds(k, b) ==
    {"done"} \cup IF bookFaults + LoadFaults(k, b) < MaxBookFaults
                  THEN {"refused"} \cup IF onDocs THEN {"lost"} ELSE {} ELSE {}

\* persistLocked: the whole document from memory, which takes the change only when it succeeds.
PersistLocked(k, b, items, end) ==
    /\ bookWrites < MaxBookWrites /\ ~b.err
    /\ bookWrites' = bookWrites + 1
    /\ docs' = IF end = "refused" THEN docs ELSE [docs EXCEPT ![k] = items]
    /\ buckets' = [buckets EXCEPT ![k] = IF end = "done" THEN [b EXCEPT !.items = items] ELSE b]
    /\ bookFaults' = bookFaults + LoadFaults(k, b) + IF end = "done" THEN 0 ELSE 1
    /\ UNCHANGED <<onDocs, bookStarts, market>>

Answered(r) == asks' = [asks EXCEPT ![r] = Waiting]

\* Ids are random; here they are in the order of the writes.
NewId == bookWrites + 1

-----------------------------------------------------------------------------
\* GET /portfolios and /portfolios/{id}.
ListPortfolios(r) ==
    \E b \in LoadLocked("portfolios") :
        /\ asks[r] = Waiting
        /\ Reads(r, "portfolios", b, Waiting)
        /\ shown' = shown \cup b.items
        /\ UNCHANGED second

\* What a portfolio begins with; every other content is a PATCH away.
FirstVersion(id) ==
    [id |-> id, version |-> 1, content |-> [f \in Fields |-> CHOOSE h \in Holdings : TRUE]]

\* POST /portfolios counts what there is before it reads the body...
CountPortfolios(r) ==
    \E b \in LoadLocked("portfolios") :
        /\ asks[r] = Waiting
        /\ Reads(r, "portfolios", b, IF Cardinality(b.items) >= PortfolioLimit THEN Waiting
                                     ELSE [step |-> "create"])
        /\ UNCHANGED <<shown, second>>

\* ... and adds under another lock.
AddPortfolio(r) ==
    \E b \in LoadLocked("portfolios") : \E end \in BookEnds("portfolios", b) :
        LET new == FirstVersion(NewId) IN
        /\ asks[r].step = "create"
        /\ PersistLocked("portfolios", b, b.items \cup {new}, end)
        /\ Answered(r)
        /\ shown' = IF end = "done" THEN shown \cup {new} ELSE shown
        /\ UNCHANGED <<deletions, papersTold, second>>

\* The copy a PATCH, a snapshot or a review begins with.
GetPortfolio(r, step) ==
    \E b \in LoadLocked("portfolios") : \E p \in b.items \cup {Waiting} :
        /\ asks[r] = Waiting
        /\ b.err \/ p # Waiting
        /\ Reads(r, "portfolios", b, [step |-> step, portfolio |-> p])
        /\ UNCHANGED <<shown, second>>

\* Mutant: the version of the copy the request read counts.
NextVersionOfCopy(copy, prior) == copy.version + 1

\* Replace: the version is the store's, the content is the request's copy with the patched field.
NextVersion(copy, prior) == prior.version + 1

PatchPortfolio(r) ==
    /\ asks[r].step = "patch"
    /\ \E b \in LoadLocked("portfolios") :
        \/ /\ \A p \in b.items : p.id # asks[r].portfolio.id      \* gone, or unreadable
           /\ Reads(r, "portfolios", b, Waiting)
           /\ UNCHANGED <<shown, second>>
        \/ \E prior \in b.items, f \in Fields, h \in Holdings, end \in BookEnds("portfolios", b) :
            LET copy == asks[r].portfolio
                new == [id |-> prior.id, version |-> NextVersion(copy, prior),
                        content |-> [copy.content EXCEPT ![f] = h]] IN
            /\ prior.id = copy.id
            /\ PersistLocked("portfolios", b, (b.items \ {prior}) \cup {new}, end)
            /\ Answered(r)
            /\ shown' = IF end = "done" THEN shown \cup {new} ELSE shown
            /\ UNCHANGED <<deletions, papersTold, second>>

\* DELETE /portfolios/{id}: the papers stay.
DeletePortfolio ==
    \E b \in LoadLocked("portfolios") : \E p \in b.items, end \in BookEnds("portfolios", b) :
        /\ PersistLocked("portfolios", b, b.items \ {p}, end)
        /\ deletions' = deletions \cup {p.id}
        /\ UNCHANGED <<asks, shown, papersTold, second>>

-----------------------------------------------------------------------------
\* buildPortfolioIntelligence: what the papers are about, whatever the portfolio's version. What
\* cannot be fetched is part of it.
ContextOf(portfolio, seen) == <<portfolio.content, seen>>

Build(r) ==
    /\ asks[r].step \in Papers
    /\ asks' = [asks EXCEPT ![r] = [step |-> "built", kind |-> asks[r].step,
                                            of |-> asks[r].portfolio.id,
                                            context |-> ContextOf(asks[r].portfolio, market)]]
    /\ UNCHANGED <<onDocs, docs, buckets, market, second, bookWrites, bookFaults, bookStarts, shown,
                   deletions, papersTold>>

PapersOf(items, of) == {p \in items : p.of = of}
LatestId(papers) == IF papers = {} THEN 0 ELSE Max({p.id : p \in papers})

\* A snapshot is taken again only when the context is not the latest one's; a review is written
\* only when no review has the context.
Reusable(kind, papers, context) ==
    \E p \in papers : p.context = context /\ (kind = "reviews" \/ p.id = LatestId(papers))

\* Latest, or ByContext.
Look(r) ==
    /\ asks[r].step = "built"
    /\ LET q == asks[r] IN
       \E b \in LoadLocked(q.kind) :
        LET papers == PapersOf(b.items, q.of) IN
        /\ Reads(r, q.kind, b, IF Reusable(q.kind, papers, q.context) THEN Waiting
                               ELSE [step |-> "write", kind |-> q.kind, of |-> q.of,
                                     context |-> q.context, base |-> LatestId(papers),
                                     known |-> {p.id : p \in PapersOf(papersTold[q.kind], q.of)}])
        /\ UNCHANGED <<shown, second>>

\* The language model fails, or answers nothing of use.
ReviewFails(r) ==
    /\ asks[r].step = "write" /\ asks[r].kind = "reviews"
    /\ Answered(r)
    /\ UNCHANGED <<onDocs, docs, buckets, market, second, bookWrites, bookFaults, bookStarts, shown,
                   deletions, papersTold>>

\* Past the limit the oldest goes; of one second's, any, for ids are random.
Surplus(papers) ==
    IF Cardinality(papers) =< PaperLimit THEN {{}}
    ELSE {{p} : p \in {q \in papers : \A o \in papers : q.at =< o.at}}

\* Add. Fewer papers than the limit are written in one second.
AddPaper(r) ==
    /\ asks[r].step = "write"
    /\ LET q == asks[r] IN
       \E b \in LoadLocked(q.kind), at \in {second, second + 1} :
        LET new == [id |-> NewId, of |-> q.of, context |-> q.context, base |-> q.base,
                    known |-> q.known, at |-> at]
            items == b.items \cup {new} IN
        \/ b.err /\ Reads(r, q.kind, b, Waiting) /\ UNCHANGED <<shown, second>>
        \/ \E end \in BookEnds(q.kind, b), over \in Surplus(PapersOf(items, q.of)) :
            /\ Cardinality({p \in PapersOf(items, q.of) : p.at = at}) =< PaperLimit
            /\ PersistLocked(q.kind, b, items \ over, end)
            /\ second' = at
            /\ Answered(r)
            /\ papersTold' = IF end = "done" THEN [papersTold EXCEPT ![q.kind] = @ \cup {new}] ELSE papersTold
            /\ UNCHANGED <<shown, deletions>>

-----------------------------------------------------------------------------
MarketMoves ==
    /\ market < MaxMoves
    /\ market' = market + 1
    /\ UNCHANGED <<onDocs, docs, buckets, asks, second, bookWrites, bookFaults, bookStarts, shown,
                   deletions, papersTold>>

RestartBook ==
    /\ bookStarts < MaxBookStarts
    /\ bookStarts' = bookStarts + 1
    /\ buckets' = [k \in Docs |-> Unloaded]
    /\ asks' = [r \in Requests |-> Waiting]
    /\ UNCHANGED <<onDocs, docs, market, second, bookWrites, bookFaults, shown, deletions, papersTold>>

\* The user has one portfolio.
BookInit ==
    /\ onDocs \in BOOLEAN
    /\ docs = [k \in Docs |-> IF k = "portfolios" THEN {FirstVersion(0)} ELSE {}]
    /\ buckets = [k \in Docs |-> Unloaded]
    /\ asks = [r \in Requests |-> Waiting]
    /\ market = 0 /\ second = 0
    /\ bookWrites = 0 /\ bookFaults = 0 /\ bookStarts = 0
    /\ shown = {FirstVersion(0)} /\ deletions = {} /\ papersTold = [k \in Papers |-> {}]

BookNext ==
    \/ \E r \in Requests : \/ ListPortfolios(r) \/ CountPortfolios(r) \/ AddPortfolio(r)
                           \/ PatchPortfolio(r) \/ Build(r) \/ Look(r) \/ ReviewFails(r)
                           \/ AddPaper(r)
                           \/ \E step \in Papers \cup {"patch"} : GetPortfolio(r, step)
    \/ DeletePortfolio \/ MarketMoves \/ RestartBook

BookSpec == BookInit /\ [][BookNext]_bookVars

-----------------------------------------------------------------------------
(***************************************************************************)
(* "An unreadable collection is surfaced as an error on reads and writes,  *)
(* never silently presented as an empty portfolio list"                    *)
(* (portfolio_store.go:14): nothing that was answered is lost, and what a  *)
(* version was answered to be it stays.                                    *)
(*  - A portfolio that was answered is stored, in that version or a newer  *)
(*    one, unless its deletion was asked; two answers with one version     *)
(*    have one content, whichever PATCH requests crossed.                  *)
(*  - A paper that was acknowledged is stored, unless as many others of    *)
(*    its portfolio as the limit are, and no older.                        *)
(*  - A snapshot is compared with one no older than any acknowledged       *)
(*    before its request looked, and never with one of its own context;    *)
(*    what was reviewed, and acknowledged before the request looked, is    *)
(*    not reviewed again while the review is kept.                       *)
(***************************************************************************)
PortfoliosStand ==
    /\ \A s \in shown : s.id \in deletions \/ \E p \in docs["portfolios"] :
                                                  p.id = s.id /\ p.version >= s.version
    /\ \A s, t \in shown : s.id = t.id /\ s.version = t.version => s = t
    /\ \A k \in Papers : \A p \in papersTold[k] :
        \/ p \in docs[k]
        \/ Cardinality({q \in PapersOf(docs[k], p.of) : q.at >= p.at}) >= PaperLimit
    /\ \A p \in docs["snapshots"] :
        /\ \A id \in p.known : id =< p.base
        /\ \A q \in docs["snapshots"] : q.id = p.base => q.context # p.context
    /\ \A p, q \in docs["reviews"] : p.context = q.context /\ p.of = q.of => p.id \notin q.known
=============================================================================
