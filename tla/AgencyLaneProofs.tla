--------------------------- MODULE AgencyLaneProofs ---------------------------
(***************************************************************************)
(* Theorems about the agency lane, for any number of workers, runs and     *)
(* snapshots, any attempt cap, lease and retention, and any number of      *)
(* crashes, failed writes and calls that arrive late.                      *)
(***************************************************************************)
EXTENDS AgencyLane, FiniteSetTheorems, WellFoundedInduction, TLAPS

Verdicts == {"completed", "failed", "cancelled"}
Jobs == [pc : {"idle", "stage"} \cup Ops, run : RunIds \cup {0}, token : Nat, stage : Nat]
Calls == [w : Workers, op : Ops, run : RunIds \cup {0}, token : Nat, good : BOOLEAN, late : BOOLEAN]

RunsTypeOK ==
    /\ runs \in [RunIds -> Run] /\ saved \in [RunIds -> Run]
    /\ created \in 0 .. MaxRuns /\ handed \in [RunIds -> Nat]
    /\ crashes \in Nat /\ saveFailures \in Nat

SnapsTypeOK == taken \in 0 .. MaxSnaps /\ snaps \subseteq 1 .. taken /\ savedSnaps \subseteq 1 .. taken

BridgeTypeOK == bridge \in [Workers -> Jobs] /\ inbox \subseteq Calls

\* A worker past its claim, and a call about a run, have a run; and a call whose caller waits is its only one.
CallsAreWaited ==
    /\ \A w \in Workers : bridge[w].pc \notin {"idle", "claim"} => bridge[w].run \in RunIds
    /\ \A c \in inbox : c.op # "claim" => c.run \in RunIds
    /\ \A c \in inbox : ~c.late =>
          /\ bridge[c.w].pc \in Ops
          /\ \A d \in inbox : ~d.late /\ d.w = c.w => d = c

\* What the attempts of a run say, in memory and on disk: no lease was handed out, and no worker has
\* one, that they do not count.
Counts(rs) ==
    \A i \in RunIds : rs[i].status # "none" =>
        /\ i <= created /\ handed[i] <= rs[i].attempts
        /\ \A w \in Workers : bridge[w].run = i => bridge[w].token <= rs[i].attempts

LeasesAreOne ==
    /\ Counts(runs) /\ Counts(saved)
    /\ \A i \in RunIds : handed[i] <= MaxAttempts
    /\ \A i \in RunIds : i > created => handed[i] = 0 /\ \A w \in Workers : bridge[w].run # i
    /\ \A v, w \in Workers :
          bridge[v].run = bridge[w].run /\ bridge[v].run # 0 /\ bridge[v].token = bridge[w].token => v = w

\* Until a write fails, every verdict in memory is on disk.
VerdictsAreSaved ==
    saveFailures = 0 =>
        \A i \in RunIds : runs[i].status \in Verdicts =>
            saved[i].status = runs[i].status /\ saved[i].by = runs[i].by

\* Until the journal restarts, a live review has its evidence.
EvidenceIsThere ==
    crashes = 0 =>
        \A i \in RunIds : IsReview(runs[i]) /\ runs[i].status \in Live => runs[i].about \in snaps

-----------------------------------------------------------------------------
(***************************************************************************)
(* What an operation does to the runs.                                     *)
(***************************************************************************)
\* A run keeps what it is about and loses no attempt, or is dropped; a verdict stays, and nothing comes
\* back to life.
Moves(rs, new) ==
    \A i \in RunIds :
        \/ new[i].status = "none"
        \/ /\ rs[i].status # "none" /\ new[i].attempts >= rs[i].attempts /\ new[i].about = rs[i].about
           /\ rs[i].status \in Verdicts => new[i].status = rs[i].status /\ new[i].by = rs[i].by
           /\ new[i].status \in Live => rs[i].status \in Live

\* No run gets a verdict.
Quiet(rs, new) ==
    \A i \in RunIds : new[i].status \in Verdicts => new[i].status = rs[i].status /\ new[i].by = rs[i].by

\* The document was written, or could not be, or had nothing to write.
Wrote ==
    \/ saved' = runs' /\ saveFailures' = saveFailures
    \/ saved' = saved /\ saveFailures' = saveFailures + 1
    \/ saved' = saved /\ saveFailures' = saveFailures /\ Quiet(runs, runs')

\* The runs move, in memory and on disk.
RunsMove ==
    /\ runs' \in [RunIds -> Run] /\ saved' \in [RunIds -> Run] /\ saveFailures' \in Nat
    /\ Moves(runs, runs') /\ Wrote

\* The fields of a run.
LEMMA RunIsTyped ==
    ASSUME NEW r \in Run
    PROVE  /\ r.status \in Live \cup Terminal \cup {"none"} /\ r.attempts \in 0 .. MaxAttempts
           /\ r.token \in 0 .. MaxAttempts /\ r.ttl \in 0 .. LeaseTicks /\ r.by \in 0 .. MaxAttempts
           /\ r.about \in Questions \cup SnapIds \cup {0}
BY DEF Run

\* A run that is not there.
LEMMA NoRunIsRun == NoRun \in Run /\ NoRun.status = "none"
BY LaneAssumption DEF NoRun, Run

\* Retention drops runs and changes none.
LEMMA NewestMoves ==
    ASSUME NEW rs \in [RunIds -> Run]
    PROVE  Newest(rs) \in [RunIds -> Run] /\ \A i \in RunIds : Newest(rs)[i] = rs[i] \/ Newest(rs)[i] = NoRun
BY NoRunIsRun DEF Newest

\* Reconciliation puts runs back into the queue or expires them.
LEMMA ReconciledMoves ==
    ASSUME runs \in [RunIds -> Run]
    PROVE  /\ Reconciled(runs) \in [RunIds -> Run]
           /\ Moves(runs, Reconciled(runs)) /\ Quiet(runs, Reconciled(runs))
           /\ \A i \in RunIds : Reconciled(runs)[i].status = "none" <=> runs[i].status = "none"
<1>1. ASSUME NEW i \in RunIds
      PROVE  LET r == Reconciled(runs)[i] IN
             /\ r \in Run /\ r.attempts = runs[i].attempts /\ r.about = runs[i].about
             /\ r.by = runs[i].by
             /\ r.status = runs[i].status \/ (runs[i].status \in Live /\ r.status \in {"queued", "expired"})
  <2> DEFINE gone == [runs[i] EXCEPT !.status = IF @ \in Live /\ runs[i].attempts >= MaxAttempts
                                                THEN "expired" ELSE "queued",
                                     !.token = 0, !.ttl = 0]
             old == [runs[i] EXCEPT !.status = "expired"]
  <2>1. /\ runs[i] \in Run /\ runs[i].status \in Live \cup Terminal \cup {"none"}
        /\ 0 \in 0 .. MaxAttempts /\ 0 \in 0 .. LeaseTicks
    BY RunIsTyped, LaneAssumption
  <2>2. /\ gone \in Run /\ gone.attempts = runs[i].attempts /\ gone.about = runs[i].about
        /\ gone.by = runs[i].by /\ gone.status \in {"queued", "expired"}
    BY <2>1 DEF Run, Live, Terminal
  <2>3. /\ old \in Run /\ old.attempts = runs[i].attempts /\ old.about = runs[i].about
        /\ old.by = runs[i].by /\ old.status = "expired"
    BY <2>1 DEF Run, Live, Terminal
  <2>4. \/ Reconciled(runs)[i] = gone /\ Lapsed(runs[i])
        \/ Reconciled(runs)[i] = old /\ runs[i].status = "queued"
        \/ Reconciled(runs)[i] = runs[i]
    BY DEF Reconciled
  <2> HIDE DEF gone, old
  <2> QED
    BY <2>1, <2>2, <2>3, <2>4 DEF Lapsed, Live
<1>2. Reconciled(runs) \in [RunIds -> Run]
  BY <1>1 DEF Reconciled
<1>3. \A i \in RunIds : runs[i].attempts >= runs[i].attempts
  BY RunIsTyped
<1> QED
  BY <1>1, <1>2, <1>3 DEF Moves, Quiet, Live, Verdicts

\* A save of runs that move.
LEMMA SaveMoves ==
    ASSUME RunsTypeOK, NEW rs \in [RunIds -> Run], Moves(runs, rs), Persisted(rs) \/ SaveFailed(rs)
    PROVE  RunsMove
<1>1. runs' = Newest(rs) /\ runs' \in [RunIds -> Run] /\ Moves(runs, runs')
  BY NewestMoves, NoRunIsRun DEF Persisted, SaveFailed, Moves
<1> QED
  BY <1>1 DEF Persisted, SaveFailed, Wrote, RunsTypeOK, RunsMove

\* Memory and disk are left alone.
LEMMA UntouchedMoves ==
    ASSUME RunsTypeOK, Untouched
    PROVE  RunsMove
<1>1. \A i \in RunIds : runs[i].attempts >= runs[i].attempts
  BY RunIsTyped DEF RunsTypeOK
<1> QED
  BY <1>1 DEF Untouched, Moves, Wrote, Quiet, RunsTypeOK, RunsMove

\* A read that reconciles.
LEMMA RefreshMoves ==
    ASSUME RunsTypeOK, Refreshed \/ RefreshFailed
    PROVE  RunsMove
BY ReconciledMoves, SaveMoves, UntouchedMoves DEF Refreshed, RefreshFailed, RunsTypeOK

\* One run that is there is set, and keeps what it is about and its attempts.
LEMMA OneMoves ==
    ASSUME NEW old \in [RunIds -> Run], NEW rs \in [RunIds -> Run], Moves(old, rs),
           NEW i \in RunIds, NEW r \in Run, rs[i].status \notin Verdicts \cup {"none"},
           r.attempts >= rs[i].attempts, r.about = rs[i].about,
           r.status \in Live => rs[i].status \in Live
    PROVE  [rs EXCEPT ![i] = r] \in [RunIds -> Run] /\ Moves(old, [rs EXCEPT ![i] = r])
<1> DEFINE new == [rs EXCEPT ![i] = r]
<1>1. new \in [RunIds -> Run] /\ new[i] = r /\ \A j \in RunIds : j # i => new[j] = rs[j]
  OBVIOUS
<1>2. r.attempts \in Nat /\ rs[i].attempts \in Nat /\ old[i].attempts \in Nat
  BY RunIsTyped
<1> HIDE DEF new
<1>3. ASSUME NEW j \in RunIds
      PROVE  \/ new[j].status = "none"
             \/ /\ old[j].status # "none" /\ new[j].attempts >= old[j].attempts
                /\ new[j].about = old[j].about
                /\ old[j].status \in Verdicts => new[j].status = old[j].status /\ new[j].by = old[j].by
                /\ new[j].status \in Live => old[j].status \in Live
  BY <1>1, <1>2 DEF Moves
<1>4. Moves(old, new)
  BY <1>3 DEF Moves
<1> QED
  BY <1>1, <1>4 DEF new

-----------------------------------------------------------------------------
(***************************************************************************)
(* What an answer does to the workers and their calls.                     *)
(***************************************************************************)
\* Every worker keeps its run and token, or gives up its run.
Held == \A w \in Workers : bridge'[w].run = 0 \/ (bridge'[w].run = bridge[w].run /\ bridge'[w].token = bridge[w].token)

\* One worker's job is replaced, and its next call, if it waits for one, is added to calls of others.
LEMMA JobIsSet ==
    ASSUME BridgeTypeOK, CallsAreWaited, NEW w \in Workers, NEW job \in Jobs, NEW rest, NEW sent,
           rest \subseteq Calls, sent \subseteq Calls,
           \A d \in rest : d.op # "claim" => d.run \in RunIds,
           \A d \in rest : ~d.late => d \in inbox /\ d.w # w,
           \A c, d \in sent : c = d /\ c.w = w /\ (c.op # "claim" => c.run \in RunIds),
           sent # {} => job.pc \in Ops,
           job.pc \notin {"idle", "claim"} => job.run \in RunIds,
           bridge' = [bridge EXCEPT ![w] = job], inbox' = rest \cup sent
    PROVE  BridgeTypeOK' /\ CallsAreWaited'
<1>1. BridgeTypeOK'
  BY DEF BridgeTypeOK
<1>2. /\ bridge'[w] = job
      /\ \A v \in Workers : v # w => bridge'[v] = bridge[v]
      /\ \A d \in inbox' : d.w \in Workers
  BY DEF BridgeTypeOK, Calls
<1>3. \A v \in Workers : bridge'[v].pc \notin {"idle", "claim"} => bridge'[v].run \in RunIds
  BY <1>2 DEF CallsAreWaited
<1>4. \A c \in inbox' : c.op # "claim" => c.run \in RunIds
  OBVIOUS
<1>5. ASSUME NEW c \in inbox', ~c.late
      PROVE  bridge'[c.w].pc \in Ops /\ \A d \in inbox' : ~d.late /\ d.w = c.w => d = c
  BY <1>2, <1>5 DEF CallsAreWaited
<1> QED
  BY <1>1, <1>3, <1>4, <1>5 DEF CallsAreWaited

\* A worker is given a job without a call.
LEMMA JobRests ==
    ASSUME BridgeTypeOK, CallsAreWaited, NEW w \in Workers, NEW job \in Jobs, NEW rest,
           rest \subseteq Calls,
           \A d \in rest : d.op # "claim" => d.run \in RunIds,
           \A d \in rest : ~d.late => d \in inbox /\ d.w # w,
           job.pc \notin {"idle", "claim"} => job.run \in RunIds,
           bridge' = [bridge EXCEPT ![w] = job], inbox' = rest
    PROVE  BridgeTypeOK' /\ CallsAreWaited'
<1> DEFINE sent == {}
<1>1. /\ sent \subseteq Calls
      /\ \A c, d \in sent : c = d /\ c.w = w /\ (c.op # "claim" => c.run \in RunIds)
      /\ sent # {} => job.pc \in Ops
      /\ inbox' = rest \cup sent
  OBVIOUS
<1> HIDE DEF sent
<1> QED
  BY <1>1, JobIsSet

\* A worker is given a job and makes the call it begins with.
LEMMA JobAsks ==
    ASSUME BridgeTypeOK, CallsAreWaited, NEW w \in Workers, NEW job \in Jobs, NEW rest, NEW m \in Calls,
           rest \subseteq Calls,
           \A d \in rest : d.op # "claim" => d.run \in RunIds,
           \A d \in rest : ~d.late => d \in inbox /\ d.w # w,
           m.w = w, m.op # "claim" => m.run \in RunIds, job.pc \in Ops,
           job.pc \notin {"idle", "claim"} => job.run \in RunIds,
           bridge' = [bridge EXCEPT ![w] = job], inbox' = rest \cup {m}
    PROVE  BridgeTypeOK' /\ CallsAreWaited'
<1> DEFINE sent == {m}
<1>1. /\ sent \subseteq Calls
      /\ \A c, d \in sent : c = d /\ c.w = w /\ (c.op # "claim" => c.run \in RunIds)
      /\ inbox' = rest \cup sent
  OBVIOUS
<1> HIDE DEF sent
<1> QED
  BY <1>1, JobIsSet

\* An answer, or the lack of one.
LEMMA AfterAnswerKeeps ==
    ASSUME BridgeTypeOK, CallsAreWaited, NEW w \in Workers, bridge[w].pc \in Ops, NEW answer, NEW rest,
           rest \subseteq Calls,
           \A d \in rest : d.op # "claim" => d.run \in RunIds,
           \A d \in rest : ~d.late => d \in inbox /\ d.w # w,
           AfterAnswer(w, bridge[w].pc, answer, rest)
    PROVE  BridgeTypeOK' /\ CallsAreWaited' /\ Held
<1> DEFINE job == bridge[w]
           next == [job EXCEPT !.pc = IF job.pc = "fetch" THEN "beat" ELSE "stage",
                               !.stage = IF job.pc = "beat" THEN job.stage + 1 ELSE @]
           fail == [job EXCEPT !.pc = "fail"]
           send(o, j) == [w |-> w, op |-> o, run |-> j.run, token |-> j.token, good |-> TRUE, late |-> FALSE]
<1>1. /\ job \in Jobs /\ job.stage \in Nat /\ job.stage + 1 \in Nat /\ job.token \in Nat
      /\ job.run \in RunIds \cup {0} /\ bridge \in [Workers -> Jobs]
      /\ job.pc # "claim" => job.run \in RunIds
  BY DEF BridgeTypeOK, CallsAreWaited, Jobs, Ops
<1>2. Idle \in Jobs /\ Idle.pc = "idle" /\ Idle.run = 0
  BY DEF Idle, Jobs
<1>3. /\ next \in Jobs /\ next.run = job.run /\ next.token = job.token /\ next.pc \in {"beat", "stage"}
      /\ job.pc = "fetch" => next.pc = "beat"
  BY <1>1 DEF Jobs, Ops
<1>4. fail \in Jobs /\ fail.run = job.run /\ fail.token = job.token /\ fail.pc = "fail"
  BY <1>1 DEF Jobs, Ops
<1>5. /\ send("beat", next) \in Calls /\ send("fail", job) \in Calls
      /\ send("beat", next).w = w /\ send("beat", next).run = job.run
      /\ send("fail", job).w = w /\ send("fail", job).run = job.run
  BY <1>1, <1>3 DEF Calls, Ops
<1>6. \/ bridge' = [bridge EXCEPT ![w] = Idle] /\ inbox' = rest
      \/ job.pc = "fetch" /\ bridge' = [bridge EXCEPT ![w] = next] /\ inbox' = rest \cup {send("beat", next)}
      \/ job.pc = "beat" /\ bridge' = [bridge EXCEPT ![w] = next] /\ inbox' = rest
      \/ job.pc # "claim" /\ bridge' = [bridge EXCEPT ![w] = fail] /\ inbox' = rest \cup {send("fail", job)}
  BY DEF AfterAnswer
<1> HIDE DEF job, next, fail, send
<1>7. CASE bridge' = [bridge EXCEPT ![w] = Idle] /\ inbox' = rest
  BY <1>1, <1>2, <1>7, JobRests DEF Held
<1>8. CASE job.pc = "fetch" /\ bridge' = [bridge EXCEPT ![w] = next] /\ inbox' = rest \cup {send("beat", next)}
  <2>1. next.pc \in Ops /\ job.run \in RunIds
    BY <1>1, <1>3, <1>8 DEF Ops
  <2>2. BridgeTypeOK' /\ CallsAreWaited'
    BY <1>3, <1>5, <1>8, <2>1, JobAsks
  <2> QED
    BY <1>1, <1>3, <1>8, <2>2 DEF Held, job
<1>9. CASE job.pc = "beat" /\ bridge' = [bridge EXCEPT ![w] = next] /\ inbox' = rest
  <2>1. job.run \in RunIds
    BY <1>1, <1>9
  <2>2. BridgeTypeOK' /\ CallsAreWaited'
    BY <1>3, <1>9, <2>1, JobRests
  <2> QED
    BY <1>1, <1>3, <1>9, <2>2 DEF Held, job
<1>10. CASE job.pc # "claim" /\ bridge' = [bridge EXCEPT ![w] = fail] /\ inbox' = rest \cup {send("fail", job)}
  <2>1. fail.pc \in Ops /\ job.run \in RunIds
    BY <1>1, <1>4, <1>10 DEF Ops
  <2>2. BridgeTypeOK' /\ CallsAreWaited'
    BY <1>4, <1>5, <1>10, <2>1, JobAsks
  <2> QED
    BY <1>1, <1>4, <1>10, <2>2 DEF Held, job
<1> QED
  BY <1>6, <1>7, <1>8, <1>9, <1>10

\* A handler answers one call.
LEMMA AnswerKeeps ==
    ASSUME BridgeTypeOK, CallsAreWaited, NEW c \in inbox, NEW answer, Answer(c, answer)
    PROVE  BridgeTypeOK' /\ CallsAreWaited' /\ Held
<1>1. c.w \in Workers /\ inbox \subseteq Calls
  BY DEF BridgeTypeOK, Calls
<1>2. CASE c.late
  BY <1>1, <1>2 DEF Answer, BridgeTypeOK, CallsAreWaited, Held
<1>3. CASE ~c.late
  <2>1. bridge[c.w].pc \in Ops /\ AfterAnswer(c.w, bridge[c.w].pc, answer, inbox \ {c})
    BY <1>3 DEF Answer, CallsAreWaited
  <2>2. /\ \A d \in inbox \ {c} : d.op # "claim" => d.run \in RunIds
        /\ \A d \in inbox \ {c} : ~d.late => d \in inbox /\ d.w # c.w
    BY <1>3 DEF CallsAreWaited
  <2> QED
    BY <1>1, <2>1, <2>2, AfterAnswerKeeps
<1> QED
  BY <1>2, <1>3

\* A handler goes on with the same call.
LEMMA ContinueKeeps ==
    ASSUME BridgeTypeOK, CallsAreWaited, NEW c \in inbox, c.op # "claim",
           NEW op \in Ops, NEW good \in BOOLEAN, Continue(c, op, good)
    PROVE  BridgeTypeOK' /\ CallsAreWaited' /\ Held
<1> DEFINE next == [c EXCEPT !.op = op, !.good = good]
<1>1. /\ next \in Calls /\ next.w = c.w /\ next.run = c.run /\ next.late = c.late
      /\ c.run \in RunIds
  BY DEF BridgeTypeOK, Calls, CallsAreWaited
<1>2. inbox' = (inbox \ {c}) \cup {next} /\ bridge' = bridge
  BY DEF Continue
<1> HIDE DEF next
<1> QED
  BY <1>1, <1>2 DEF BridgeTypeOK, CallsAreWaited, Held

-----------------------------------------------------------------------------
(***************************************************************************)
(* Every operation but a new run, a successful claim, the clock and a      *)
(* restart moves the runs and leaves each worker its job or ends it.       *)
(***************************************************************************)
Ordinary == RunsMove /\ BridgeTypeOK' /\ CallsAreWaited' /\ Held

\* The stored runs move when they are written with runs that move, or not at all.
LEMMA CountsAreKept ==
    ASSUME RunsTypeOK, LeasesAreOne, RunsMove, Held, BridgeTypeOK, BridgeTypeOK', UNCHANGED <<created, handed>>
    PROVE  LeasesAreOne'
<1>1. ASSUME NEW rs \in [RunIds -> Run], NEW new \in [RunIds -> Run], Counts(rs), Moves(rs, new)
      PROVE  \A i \in RunIds : new[i].status # "none" =>
                /\ i <= created' /\ handed'[i] <= new[i].attempts
                /\ \A w \in Workers : bridge'[w].run = i => bridge'[w].token <= new[i].attempts
  <2>1. ASSUME NEW i \in RunIds, new[i].status # "none"
        PROVE  /\ i <= created /\ handed[i] <= rs[i].attempts /\ rs[i].attempts <= new[i].attempts
               /\ \A w \in Workers : bridge[w].run = i => bridge[w].token <= rs[i].attempts
    BY <1>1, <2>1 DEF Counts, Moves
  <2>2. ASSUME NEW i \in RunIds
        PROVE  rs[i].attempts \in Nat /\ new[i].attempts \in Nat /\ handed[i] \in Nat
    BY <1>1, RunIsTyped DEF RunsTypeOK
  <2>3. ASSUME NEW i \in RunIds, NEW w \in Workers, bridge'[w].run = i
        PROVE  bridge[w].run = i /\ bridge'[w].token = bridge[w].token /\ bridge[w].token \in Nat
    BY <2>3 DEF Held, BridgeTypeOK, Jobs, RunIds
  <2>4. ASSUME NEW i \in RunIds, new[i].status # "none", NEW w \in Workers, bridge'[w].run = i
        PROVE  bridge'[w].token <= new[i].attempts
    BY <2>1, <2>2, <2>3, <2>4
  <2> QED
    BY <2>1, <2>2, <2>4
<1>2. Counts(runs)'
  BY <1>1 DEF RunsMove, RunsTypeOK, LeasesAreOne, Counts
<1>3. Counts(saved)'
  <2>1. CASE saved' = runs'
    BY <1>2, <2>1 DEF Counts
  <2>2. CASE saved' = saved
    BY <2>2 DEF LeasesAreOne, Counts, Held, RunIds
  <2> QED
    BY <2>1, <2>2 DEF RunsMove, Wrote
<1>4. \A i \in RunIds : handed'[i] <= MaxAttempts
  BY DEF LeasesAreOne
<1>5. \A i \in RunIds : i > created' => handed'[i] = 0 /\ \A w \in Workers : bridge'[w].run # i
  BY DEF LeasesAreOne, Held, RunIds
<1>6. \A v, w \in Workers :
          bridge'[v].run = bridge'[w].run /\ bridge'[v].run # 0 /\ bridge'[v].token = bridge'[w].token => v = w
  BY DEF LeasesAreOne, Held
<1> QED
  BY <1>2, <1>3, <1>4, <1>5, <1>6 DEF LeasesAreOne

\* Until a write fails, what is in memory was written or said before.
LEMMA VerdictsAreKept ==
    ASSUME RunsTypeOK, VerdictsAreSaved, RunsMove
    PROVE  VerdictsAreSaved'
<1> SUFFICES ASSUME saveFailures' = 0, NEW i \in RunIds, runs'[i].status \in Verdicts
             PROVE  saved'[i].status = runs'[i].status /\ saved'[i].by = runs'[i].by
  BY DEF VerdictsAreSaved
<1> QED
  BY DEF RunsMove, Wrote, Quiet, VerdictsAreSaved, RunsTypeOK

-----------------------------------------------------------------------------
(***************************************************************************)
(* The worker's routes.                                                    *)
(***************************************************************************)
\* What a handler answers about, and has not changed.
LEMMA OpsAre == Ops = {"claim", "fetch", "beat", "complete", "store", "reject", "fail"}
BY DEF Ops

\* An update of the run a call holds.
LEMMA UnderLeaseMoves ==
    ASSUME RunsTypeOK, BridgeTypeOK, CallsAreWaited, NEW c \in inbox, c.run \in RunIds, NEW update, NEW done,
           Holds(runs[c.run], c) =>
              /\ update \in Run /\ update.attempts = runs[c.run].attempts
              /\ update.about = runs[c.run].about,
           UnderLease(c, update, done)
    PROVE  Ordinary
<1>1. CASE Holds(runs[c.run], c)
  <2> DEFINE new == [runs EXCEPT ![c.run] = update]
  <2>1. runs[c.run].status \notin Verdicts \cup {"none"} /\ runs[c.run].status \in Live
    BY <1>1 DEF Holds, LeaseHeld, Verdicts, Live
  <2>2. \A i \in RunIds : runs[i].attempts \in Nat /\ runs[i].attempts >= runs[i].attempts
    BY RunIsTyped DEF RunsTypeOK
  <2>3. Moves(runs, runs) /\ runs[c.run].attempts \in Nat
    BY <2>2 DEF Moves
  <2>4. update \in Run /\ update.attempts >= runs[c.run].attempts /\ update.about = runs[c.run].about
    BY <1>1, <2>2
  <2>5. new \in [RunIds -> Run] /\ Moves(runs, new)
    BY <2>1, <2>3, <2>4, OneMoves DEF RunsTypeOK
  <2>6. \/ Persisted(new) /\ Answer(c, done)
        \/ SaveFailed(new) /\ Answer(c, "error")
    BY <1>1 DEF UnderLease
  <2> HIDE DEF new
  <2> QED
    BY <2>5, <2>6, SaveMoves, AnswerKeeps DEF Ordinary
<1>2. CASE ~Holds(runs[c.run], c)
  BY <1>2, UntouchedMoves, AnswerKeeps DEF UnderLease, Ordinary
<1> QED
  BY <1>1, <1>2

\* The facts of a call under a lease.
LEMMA HeldRun ==
    ASSUME RunsTypeOK, NEW c \in inbox, c.run \in RunIds, Holds(runs[c.run], c)
    PROVE  c.token \in 0 .. MaxAttempts
BY RunIsTyped DEF Holds, RunsTypeOK

\* No lease, no attempt and a fresh lease are of their types.
LEMMA BoundsAreTyped ==
    0 \in 0 .. MaxAttempts /\ 0 \in 0 .. LeaseTicks /\ LeaseTicks \in 0 .. LeaseTicks
BY LaneAssumption

\* A heartbeat.
LEMMA BeatMoves ==
    ASSUME RunsTypeOK, BridgeTypeOK, CallsAreWaited, NEW c \in inbox, HandleBeat(c)
    PROVE  Ordinary
<1> DEFINE update == [runs[c.run] EXCEPT !.status = "running", !.ttl = LeaseTicks]
<1>1. c.run \in RunIds /\ runs[c.run] \in Run
  BY DEF HandleBeat, CallsAreWaited, RunsTypeOK
<1>2. update \in Run /\ update.attempts = runs[c.run].attempts /\ update.about = runs[c.run].about
  BY <1>1, BoundsAreTyped DEF Run, Live, Terminal
<1>3. UnderLease(c, update, "ok")
  BY DEF HandleBeat
<1> HIDE DEF update
<1> QED
  BY <1>1, <1>2, <1>3, UnderLeaseMoves

\* A completion.
LEMMA DeliverMoves ==
    ASSUME RunsTypeOK, BridgeTypeOK, CallsAreWaited, NEW c \in inbox, c.op # "claim", NEW valid, Deliver(c, valid)
    PROVE  Ordinary
<1>1. c.run \in RunIds /\ runs[c.run] \in Run
  BY DEF CallsAreWaited, RunsTypeOK
<1>2. ASSUME Holds(runs[c.run], c)
      PROVE  /\ Completed(c) \in Run /\ Completed(c).attempts = runs[c.run].attempts
             /\ Completed(c).about = runs[c.run].about
  BY <1>1, <1>2, HeldRun, BoundsAreTyped DEF Completed, Run, Live, Terminal
<1>3. \/ Untouched /\ \E answer \in {"ok", "stale"} : Answer(c, answer)
      \/ Untouched /\ Continue(c, "reject", FALSE)
      \/ UnderLease(c, Completed(c), "ok")
  BY DEF Deliver
<1>4. CASE Untouched /\ \E answer \in {"ok", "stale"} : Answer(c, answer)
  BY <1>4, UntouchedMoves, AnswerKeeps DEF Ordinary
<1>5. CASE Untouched /\ Continue(c, "reject", FALSE)
  BY <1>5, UntouchedMoves, ContinueKeeps, OpsAre DEF Ordinary
<1>6. CASE UnderLease(c, Completed(c), "ok")
  BY <1>1, <1>2, <1>6, UnderLeaseMoves
<1> QED
  BY <1>3, <1>4, <1>5, <1>6

\* A completion: it goes on to the check of its artifact, is answered, or is delivered.
LEMMA CompleteMoves ==
    ASSUME RunsTypeOK, BridgeTypeOK, CallsAreWaited, NEW c \in inbox, HandleComplete(c)
    PROVE  Ordinary
<1>1. c.op # "claim" /\ c.good \in BOOLEAN
  BY DEF HandleComplete, BridgeTypeOK, Calls
<1>2. CASE Refreshed /\ Continue(c, "store", c.good /\ runs[c.run].about \in snaps)
  <2> DEFINE good == c.good /\ runs[c.run].about \in snaps
  <2>1. good \in BOOLEAN /\ Continue(c, "store", good)
    BY <1>1, <1>2
  <2> HIDE DEF good
  <2> QED
    BY <1>1, <1>2, <2>1, RefreshMoves, ContinueKeeps, OpsAre DEF Ordinary
<1>3. CASE RefreshFailed /\ Answer(c, "error")
  BY <1>3, RefreshMoves, AnswerKeeps DEF Ordinary
<1>4. CASE Deliver(c, c.good)
  BY <1>1, <1>4, DeliverMoves
<1> QED
  BY <1>2, <1>3, <1>4 DEF HandleComplete

\* The delivery of an artifact that was checked.
LEMMA StoreMoves ==
    ASSUME RunsTypeOK, BridgeTypeOK, CallsAreWaited, NEW c \in inbox, HandleStore(c)
    PROVE  Ordinary
BY DeliverMoves DEF HandleStore

\* A failure report, of the worker or of the handler that refused its artifact.
LEMMA FailMoves ==
    ASSUME RunsTypeOK, BridgeTypeOK, CallsAreWaited, NEW c \in inbox, HandleFail(c)
    PROVE  Ordinary
<1> DEFINE done == IF c.op = "reject" THEN "error" ELSE "ok"
           retryable == c.op = "fail" /\ c.good
<1>1. c.run \in RunIds /\ runs[c.run] \in Run
  BY DEF HandleFail, CallsAreWaited, RunsTypeOK
<1>2. ASSUME Holds(runs[c.run], c)
      PROVE  /\ Failed(c, retryable) \in Run /\ Failed(c, retryable).attempts = runs[c.run].attempts
             /\ Failed(c, retryable).about = runs[c.run].about
  <2> DEFINE back == [runs[c.run] EXCEPT !.status = "queued", !.token = 0, !.ttl = 0]
             failed == [runs[c.run] EXCEPT !.status = "failed", !.by = c.token, !.token = 0, !.ttl = 0]
  <2>1. back \in Run /\ back.attempts = runs[c.run].attempts /\ back.about = runs[c.run].about
    BY <1>1, BoundsAreTyped DEF Run, Live, Terminal
  <2>2. failed \in Run /\ failed.attempts = runs[c.run].attempts /\ failed.about = runs[c.run].about
    BY <1>1, <1>2, HeldRun, BoundsAreTyped DEF Run, Live, Terminal
  <2>3. Failed(c, retryable) = back \/ Failed(c, retryable) = failed
    BY DEF Failed
  <2> HIDE DEF back, failed
  <2> QED
    BY <2>1, <2>2, <2>3
<1>3. \/ Untouched /\ \E answer : Answer(c, answer)
      \/ UnderLease(c, Failed(c, retryable), done)
  BY DEF HandleFail
<1> HIDE DEF done, retryable
<1>4. CASE Untouched /\ \E answer : Answer(c, answer)
  BY <1>4, UntouchedMoves, AnswerKeeps DEF Ordinary
<1>5. CASE UnderLease(c, Failed(c, retryable), done)
  BY <1>1, <1>2, <1>5, UnderLeaseMoves
<1> QED
  BY <1>3, <1>4, <1>5

\* A read of the evidence.
LEMMA FetchMoves ==
    ASSUME RunsTypeOK, BridgeTypeOK, CallsAreWaited, NEW c \in inbox, HandleFetch(c)
    PROVE  Ordinary
<1>1. (Refreshed \/ RefreshFailed) /\ \E answer : Answer(c, answer)
  BY DEF HandleFetch
<1> QED
  BY <1>1, RefreshMoves, AnswerKeeps DEF Ordinary

-----------------------------------------------------------------------------
(***************************************************************************)
(* The owner, the workers' own steps, and what is not ordinary.            *)
(***************************************************************************)
\* Nothing happens to the workers.
LEMMA WorkersRest ==
    ASSUME BridgeTypeOK, CallsAreWaited, UNCHANGED <<bridge, inbox>>
    PROVE  BridgeTypeOK' /\ CallsAreWaited' /\ Held
BY DEF BridgeTypeOK, CallsAreWaited, Held

\* A read of the list.
LEMMA PollMoves ==
    ASSUME RunsTypeOK, BridgeTypeOK, CallsAreWaited, Poll
    PROVE  Ordinary
BY RefreshMoves, WorkersRest DEF Poll, Ordinary

\* A run that has ended stays as it is; another is cancelled.
LEMMA CancelMoves ==
    ASSUME RunsTypeOK, BridgeTypeOK, CallsAreWaited, NEW i \in RunIds, Cancel(i)
    PROVE  Ordinary
<1> DEFINE rs == Reconciled(runs)
           r == [rs[i] EXCEPT !.status = "cancelled", !.token = 0, !.ttl = 0]
           cancelled == [rs EXCEPT ![i] = r]
<1>1. /\ rs \in [RunIds -> Run] /\ Moves(runs, rs) /\ Quiet(runs, rs)
      /\ rs[i].status # "none" /\ rs[i] \in Run
  BY ReconciledMoves DEF RunsTypeOK, Cancel
<1>2. [rs EXCEPT ![i].status = "cancelled", ![i].token = 0, ![i].ttl = 0] = cancelled
  BY <1>1
<1>3. \/ runs' = rs /\ UNCHANGED <<saved, saveFailures>>
      \/ rs[i].status \notin Terminal /\ (Persisted(cancelled) \/ SaveFailed(cancelled))
  BY <1>2 DEF Cancel
<1> HIDE DEF rs
<1>4. r \in Run /\ r.attempts = rs[i].attempts /\ r.about = rs[i].about /\ r.status = "cancelled"
  BY <1>1, BoundsAreTyped DEF Run, Live, Terminal
<1> HIDE DEF r
<1>5. rs[i].attempts \in Nat /\ r.attempts >= rs[i].attempts
  BY <1>1, <1>4, RunIsTyped
<1>6. CASE runs' = rs /\ UNCHANGED <<saved, saveFailures>>
  BY <1>1, <1>6, WorkersRest DEF RunsMove, Wrote, Ordinary, RunsTypeOK, Cancel
<1>7. CASE rs[i].status \notin Terminal /\ (Persisted(cancelled) \/ SaveFailed(cancelled))
  <2>1. cancelled \in [RunIds -> Run] /\ Moves(runs, cancelled)
    BY <1>1, <1>4, <1>5, <1>7, OneMoves DEF Terminal, Verdicts, Live, RunsTypeOK
  <2> HIDE DEF cancelled
  <2> QED
    BY <1>7, <2>1, SaveMoves, WorkersRest DEF Ordinary, Cancel
<1> QED
  BY <1>3, <1>6, <1>7

\* A worker calls.
LEMMA AskKeeps ==
    ASSUME BridgeTypeOK, CallsAreWaited, NEW w \in Workers, bridge[w].pc \notin Ops, NEW op \in Ops,
           NEW good \in BOOLEAN, op = "claim" \/ bridge[w].pc = "stage", Ask(w, op, good)
    PROVE  BridgeTypeOK' /\ CallsAreWaited' /\ Held
<1> DEFINE job == [bridge[w] EXCEPT !.pc = op]
           m == [w |-> w, op |-> op, run |-> bridge[w].run, token |-> bridge[w].token,
                 good |-> good, late |-> FALSE]
<1>1. job \in Jobs /\ job.pc = op /\ job.run = bridge[w].run /\ job.token = bridge[w].token
  BY DEF BridgeTypeOK, Jobs
<1>2. m \in Calls /\ m.w = w /\ m.op = op /\ m.run = bridge[w].run
  BY DEF BridgeTypeOK, Jobs, Calls
<1>3. op # "claim" => bridge[w].run \in RunIds
  BY DEF CallsAreWaited
<1>4. /\ \A d \in inbox : d.op # "claim" => d.run \in RunIds
      /\ \A d \in inbox : ~d.late => d \in inbox /\ d.w # w
      /\ inbox \subseteq Calls
  BY DEF CallsAreWaited, BridgeTypeOK
<1>5. bridge' = [bridge EXCEPT ![w] = job] /\ inbox' = inbox \cup {m}
  BY DEF Ask, BridgeTypeOK
<1> HIDE DEF job, m
<1>6. /\ job.pc \in Ops
      /\ m.op # "claim" => m.run \in RunIds
      /\ job.pc \notin {"idle", "claim"} => job.run \in RunIds
  BY <1>1, <1>2, <1>3 DEF Ops
<1>7. BridgeTypeOK' /\ CallsAreWaited'
  BY <1>1, <1>2, <1>4, <1>5, <1>6, JobAsks
<1> QED
  BY <1>1, <1>5, <1>7 DEF Held, BridgeTypeOK

\* A worker process starts, finishes or fails a stage.
LEMMA StageMoves ==
    ASSUME RunsTypeOK, BridgeTypeOK, CallsAreWaited, NEW w \in Workers,
           StartWorker(w) \/ FinishStage(w) \/ FailStage(w)
    PROVE  Ordinary
<1>1. \E op \in Ops, good \in BOOLEAN :
         Ask(w, op, good) /\ bridge[w].pc \notin Ops /\ (op = "claim" \/ bridge[w].pc = "stage")
  BY DEF StartWorker, FinishStage, FailStage, Ops
<1>2. BridgeTypeOK' /\ CallsAreWaited' /\ Held
  BY <1>1, AskKeeps
<1>3. Untouched
  BY DEF StartWorker, FinishStage, FailStage, JournalUntouched, Untouched
<1> QED
  BY <1>2, <1>3, UntouchedMoves DEF Ordinary

\* A call that is no longer waited for keeps what it says.
LEMMA LateIsCall ==
    ASSUME NEW c \in Calls
    PROVE  LET d == [c EXCEPT !.late = TRUE]
           IN  d \in Calls /\ d.late /\ d.w = c.w /\ d.op = c.op /\ d.run = c.run
BY DEF Calls

\* A worker process stops.
LEMMA StopMoves ==
    ASSUME RunsTypeOK, BridgeTypeOK, CallsAreWaited, NEW w \in Workers, StopWorker(w)
    PROVE  Ordinary
<1> DEFINE rest == {IF c.w = w THEN [c EXCEPT !.late = TRUE] ELSE c : c \in inbox}
<1>1. Idle \in Jobs /\ Idle.pc = "idle" /\ Idle.run = 0
  BY DEF Idle, Jobs
<1>2. /\ rest \subseteq Calls
      /\ \A d \in rest : d.op # "claim" => d.run \in RunIds
      /\ \A d \in rest : ~d.late => d \in inbox /\ d.w # w
  <2>1. ASSUME NEW d \in rest
        PROVE  /\ d \in Calls /\ (d.op # "claim" => d.run \in RunIds)
               /\ ~d.late => d \in inbox /\ d.w # w
    <3>1. PICK c \in inbox : d = IF c.w = w THEN [c EXCEPT !.late = TRUE] ELSE c
      OBVIOUS
    <3>2. c \in Calls /\ (c.op # "claim" => c.run \in RunIds)
      BY DEF BridgeTypeOK, CallsAreWaited
    <3>3. CASE c.w = w
      BY <3>1, <3>2, <3>3, LateIsCall
    <3>4. CASE c.w # w
      BY <3>1, <3>2, <3>4
    <3> QED
      BY <3>3, <3>4
  <2> HIDE DEF rest
  <2> QED
    BY <2>1
<1>3. bridge' = [bridge EXCEPT ![w] = Idle] /\ inbox' = rest
  BY DEF StopWorker
<1> HIDE DEF rest
<1>4. BridgeTypeOK' /\ CallsAreWaited'
  BY <1>1, <1>2, <1>3, JobRests
<1>5. Held
  BY <1>1, <1>3 DEF Held, BridgeTypeOK
<1>6. Untouched
  BY DEF StopWorker, JournalUntouched, Untouched
<1> QED
  BY <1>4, <1>5, <1>6, UntouchedMoves DEF Ordinary

\* A worker gives up on its call.
LEMMA GiveUpMoves ==
    ASSUME RunsTypeOK, BridgeTypeOK, CallsAreWaited, NEW w \in Workers, GiveUp(w)
    PROVE  Ordinary
<1> DEFINE mine == {c \in inbox : c.w = w /\ ~c.late}
           lost == inbox \ mine
           late == (inbox \ mine) \cup {[c EXCEPT !.late = TRUE] : c \in mine}
<1>1. /\ lost \subseteq Calls
      /\ \A d \in lost : d.op # "claim" => d.run \in RunIds
      /\ \A d \in lost : ~d.late => d \in inbox /\ d.w # w
  BY DEF BridgeTypeOK, CallsAreWaited
<1>2. /\ late \subseteq Calls
      /\ \A d \in late : d.op # "claim" => d.run \in RunIds
      /\ \A d \in late : ~d.late => d \in inbox /\ d.w # w
  <2>1. ASSUME NEW c \in mine, NEW d, d = [c EXCEPT !.late = TRUE]
        PROVE  d \in Calls /\ (d.op # "claim" => d.run \in RunIds) /\ d.late
    <3>1. c \in Calls /\ (c.op # "claim" => c.run \in RunIds)
      BY DEF BridgeTypeOK, CallsAreWaited
    <3> QED
      BY <2>1, <3>1, LateIsCall
  <2> QED
    BY <1>1, <2>1
<1>3. \/ AfterAnswer(w, bridge[w].pc, "error", lost)
      \/ AfterAnswer(w, bridge[w].pc, "error", late)
  BY DEF GiveUp
<1>4. bridge[w].pc \in Ops
  BY DEF GiveUp, Waiting
<1> HIDE DEF lost, late
<1>5. BridgeTypeOK' /\ CallsAreWaited' /\ Held
  BY <1>1, <1>2, <1>3, <1>4, AfterAnswerKeeps
<1>6. Untouched
  BY DEF GiveUp, JournalUntouched, Untouched
<1> QED
  BY <1>5, <1>6, UntouchedMoves DEF Ordinary

-----------------------------------------------------------------------------
(***************************************************************************)
(* The invariant of runs and leases.                                       *)
(***************************************************************************)
LaneInv ==
    /\ RunsTypeOK /\ BridgeTypeOK /\ CallsAreWaited
    /\ LeasesAreOne /\ VerdictsAreSaved

\* A step drops a verdict or keeps it, unless the journal restarts after a failed write.
VerdictsStand == saveFailures = 0 \/ crashes' = crashes => KeptFrom(Verdicts)

\* An ordinary step.
LEMMA OrdinaryKeeps ==
    ASSUME LaneInv, Ordinary, UNCHANGED <<created, handed, crashes>>
    PROVE  LaneInv' /\ VerdictsStand
<1>1. RunsTypeOK'
  BY DEF LaneInv, RunsTypeOK, Ordinary, RunsMove
<1>2. LeasesAreOne' /\ VerdictsAreSaved'
  BY CountsAreKept, VerdictsAreKept DEF LaneInv, Ordinary
<1>3. KeptFrom(Verdicts)
  BY DEF KeptFrom, Ordinary, RunsMove, Moves
<1> QED
  BY <1>1, <1>2, <1>3 DEF LaneInv, Ordinary, VerdictsStand

\* A new run: nothing was ever handed out for it.
LEMMA NewRunKeeps ==
    ASSUME LaneInv, NEW rs \in [RunIds -> Run], Moves(runs, rs), NEW r \in Run, r.status = "queued",
           created < MaxRuns, created' = created + 1,
           LET new == [rs EXCEPT ![created + 1] = r] IN Persisted(new) \/ SaveFailed(new),
           UNCHANGED <<bridge, inbox, crashes, handed>>
    PROVE  LaneInv' /\ VerdictsStand
<1> DEFINE new == [rs EXCEPT ![created + 1] = r]
<1>1. /\ created + 1 \in RunIds /\ created \in Nat /\ created' \in 0 .. MaxRuns
      /\ runs \in [RunIds -> Run] /\ saved \in [RunIds -> Run]
  BY LaneAssumption DEF LaneInv, RunsTypeOK, RunIds
<1>2. /\ new \in [RunIds -> Run] /\ new[created + 1] = r
      /\ \A i \in RunIds : i # created + 1 => new[i] = rs[i]
  BY <1>1
<1>3. /\ runs' = Newest(new) /\ saveFailures' \in Nat
      /\ \/ saved' = runs' /\ saveFailures' = saveFailures
         \/ saved' = saved /\ saveFailures' = saveFailures + 1
  BY DEF Persisted, SaveFailed, LaneInv, RunsTypeOK
<1> HIDE DEF new
<1>4. runs' \in [RunIds -> Run] /\ \A i \in RunIds : runs'[i] = new[i] \/ runs'[i].status = "none"
  BY <1>2, <1>3, NewestMoves, NoRunIsRun
<1>5. RunsTypeOK'
  BY <1>1, <1>3, <1>4 DEF LaneInv, RunsTypeOK
<1>6. BridgeTypeOK' /\ CallsAreWaited'
  BY WorkersRest DEF LaneInv
<1>7. \A i \in RunIds : runs'[i].status # "none" =>
         /\ i <= created' /\ handed'[i] <= runs'[i].attempts
         /\ \A w \in Workers : bridge'[w].run = i => bridge'[w].token <= runs'[i].attempts
  <2>1. ASSUME NEW i \in RunIds, runs'[i].status # "none", i # created + 1
        PROVE  /\ i <= created' /\ handed'[i] <= runs'[i].attempts
               /\ \A w \in Workers : bridge'[w].run = i => bridge'[w].token <= runs'[i].attempts
    <3>1. runs'[i] = rs[i] /\ runs[i].status # "none" /\ runs[i].attempts <= rs[i].attempts
      BY <1>2, <1>4, <2>1 DEF Moves
    <3>2. runs[i].attempts \in Nat /\ rs[i].attempts \in Nat /\ handed[i] \in Nat
      BY <1>1, RunIsTyped DEF LaneInv, RunsTypeOK
    <3>3. \A w \in Workers : bridge[w].token \in Nat
      BY DEF LaneInv, BridgeTypeOK, Jobs
    <3>4. /\ i <= created /\ handed[i] <= runs[i].attempts
          /\ \A w \in Workers : bridge[w].run = i => bridge[w].token <= runs[i].attempts
      BY <3>1 DEF LaneInv, LeasesAreOne, Counts
    <3>5. i \in Nat /\ created \in Nat
      BY <1>1 DEF RunIds
    <3> QED
      BY <3>1, <3>2, <3>3, <3>4, <3>5
  <2>2. ASSUME NEW i \in RunIds, i = created + 1
        PROVE  /\ i <= created' /\ handed'[i] = 0 /\ \A w \in Workers : bridge'[w].run # i
    BY <1>1, <2>2 DEF LaneInv, LeasesAreOne
  <2>3. \A i \in RunIds : runs'[i].attempts \in Nat
    BY <1>4, RunIsTyped
  <2> QED
    BY <2>1, <2>2, <2>3
<1>8. Counts(runs)'
  BY <1>7 DEF Counts
<1>9. Counts(saved)'
  <2>1. CASE saved' = runs'
    BY <1>8, <2>1 DEF Counts
  <2>2. CASE saved' = saved
    <3>1. \A i \in RunIds : i <= created => i <= created'
      BY <1>1 DEF RunIds
    <3> QED
      BY <2>2, <3>1 DEF LaneInv, LeasesAreOne, Counts
  <2> QED
    BY <1>3, <2>1, <2>2
<1>10. \A i \in RunIds : i > created' => i > created
  BY <1>1 DEF RunIds
<1>11. LeasesAreOne'
  BY <1>8, <1>9, <1>10 DEF LaneInv, LeasesAreOne
<1>12. VerdictsAreSaved'
  BY <1>3 DEF LaneInv, RunsTypeOK, VerdictsAreSaved
<1>13. KeptFrom(Verdicts)
  <2>1. runs[created + 1].status = "none"
    BY <1>1 DEF LaneInv, LeasesAreOne, Counts
  <2> QED
    BY <1>2, <1>4, <2>1 DEF KeptFrom, Moves, Verdicts
<1> QED
  BY <1>5, <1>6, <1>11, <1>12, <1>13 DEF LaneInv, VerdictsStand

\* A request for a run about a question, or about a snapshot.
LEMMA EnqueueKeeps ==
    ASSUME LaneInv, NEW subject \in Questions \cup SnapIds, Enqueue(subject)
    PROVE  LaneInv' /\ VerdictsStand
<1> DEFINE rs == Reconciled(runs)
           r == [NoRun EXCEPT !.status = "queued", !.about = subject]
<1>1. rs \in [RunIds -> Run] /\ Moves(runs, rs) /\ Quiet(runs, rs)
  BY ReconciledMoves DEF LaneInv, RunsTypeOK
<1>2. r \in Run /\ r.status = "queued"
  BY BoundsAreTyped DEF NoRun, Run, Live, Terminal
<1>3. \/ runs' = rs /\ UNCHANGED <<saved, saveFailures, created>>
      \/ /\ created < MaxRuns /\ created' = created + 1
         /\ LET new == [rs EXCEPT ![created + 1] = r] IN Persisted(new) \/ SaveFailed(new)
  BY DEF Enqueue
<1>4. UNCHANGED <<bridge, inbox, crashes, handed>>
  BY DEF Enqueue
<1> HIDE DEF rs, r
<1>5. CASE runs' = rs /\ UNCHANGED <<saved, saveFailures, created>>
  BY <1>1, <1>4, <1>5, WorkersRest, OrdinaryKeeps DEF RunsMove, Wrote, Ordinary, RunsTypeOK, LaneInv
<1> QED
  BY <1>1, <1>2, <1>3, <1>4, <1>5, NewRunKeeps

\* What a lease changes of a run.
LEMMA LeaseIsRun ==
    ASSUME NEW rs \in [RunIds -> Run], NEW i \in RunIds, Claimable(rs[i])
    PROVE  /\ LeaseTo(rs, i) \in [RunIds -> Run]
           /\ LeaseTo(rs, i)[i].status = "claimed" /\ LeaseTo(rs, i)[i].about = rs[i].about
           /\ LeaseTo(rs, i)[i].attempts = rs[i].attempts + 1
           /\ LeaseTo(rs, i)[i].token = rs[i].attempts + 1
           /\ rs[i].attempts + 1 \in 0 .. MaxAttempts
           /\ \A j \in RunIds : j # i => LeaseTo(rs, i)[j] = rs[j]
<1> DEFINE r == [rs[i] EXCEPT !.status = "claimed", !.attempts = @ + 1,
                              !.token = rs[i].attempts + 1, !.ttl = LeaseTicks]
<1>1. rs[i].attempts + 1 \in 0 .. MaxAttempts
  BY RunIsTyped, LaneAssumption DEF Claimable
<1>2. r \in Run
  BY <1>1, BoundsAreTyped DEF Run, Live, Terminal
<1>3. /\ r.status = "claimed" /\ r.about = rs[i].about
      /\ r.attempts = rs[i].attempts + 1 /\ r.token = rs[i].attempts + 1
  BY DEF Run
<1>4. LeaseTo(rs, i) = [rs EXCEPT ![i] = r]
  BY DEF LeaseTo
<1> HIDE DEF r
<1> QED
  BY <1>1, <1>2, <1>3, <1>4

\* A run is given a lease.
LEMMA LeaseMoves ==
    ASSUME LaneInv, NEW i \in RunIds, Claimable(Reconciled(runs)[i])
    PROVE  /\ LeaseTo(Reconciled(runs), i) \in [RunIds -> Run]
           /\ Moves(runs, LeaseTo(Reconciled(runs), i))
           /\ runs[i].attempts <= Reconciled(runs)[i].attempts /\ runs[i].status # "none"
           /\ runs[i].attempts \in Nat /\ Reconciled(runs)[i].attempts \in Nat
<1> DEFINE rs == Reconciled(runs)
           new == LeaseTo(rs, i)
<1>1. /\ rs \in [RunIds -> Run] /\ Moves(runs, rs) /\ rs[i].status \in Live
      /\ runs \in [RunIds -> Run]
  BY ReconciledMoves DEF LaneInv, RunsTypeOK, Claimable
<1>2. rs[i].attempts \in Nat /\ runs[i].attempts \in Nat
  BY <1>1, RunIsTyped
<1>3. runs[i].attempts <= rs[i].attempts /\ runs[i].status # "none" /\ runs[i].status \in Live
  BY <1>1, <1>2 DEF Moves, Live
<1> HIDE DEF rs
<1>4. /\ new \in [RunIds -> Run]
      /\ new[i].status = "claimed" /\ new[i].about = rs[i].about /\ new[i].attempts = rs[i].attempts + 1
      /\ \A j \in RunIds : j # i => new[j] = rs[j]
  BY <1>1, LeaseIsRun DEF rs
<1> HIDE DEF new
<1>5. Moves(runs, new)
  <2>1. ASSUME NEW j \in RunIds
        PROVE  \/ new[j].status = "none"
               \/ /\ runs[j].status # "none" /\ new[j].attempts >= runs[j].attempts
                  /\ new[j].about = runs[j].about
                  /\ runs[j].status \in Verdicts => new[j].status = runs[j].status /\ new[j].by = runs[j].by
                  /\ new[j].status \in Live => runs[j].status \in Live
    <3>1. CASE j = i
      <4>1. runs[i].status \notin Verdicts
        BY <1>3 DEF Live, Verdicts
      <4>2. new[i].attempts >= runs[i].attempts
        BY <1>2, <1>3, <1>4
      <4>3. new[i].about = runs[i].about
        BY <1>1, <1>4 DEF Moves, Live
      <4> QED
        BY <1>3, <3>1, <4>1, <4>2, <4>3
    <3>2. CASE j # i
      BY <1>1, <1>4, <3>2 DEF Moves
    <3> QED
      BY <3>1, <3>2
  <2> QED
    BY <2>1 DEF Moves
<1> QED
  BY <1>2, <1>3, <1>4, <1>5 DEF rs, new

\* A claim that was written: the lease is new, and its token no process has.
LEMMA GrantKeeps ==
    ASSUME LaneInv, NEW c \in inbox, NEW i \in RunIds, Claimable(Reconciled(runs)[i]),
           Persisted(LeaseTo(Reconciled(runs), i)), handed' = [handed EXCEPT ![i] = @ + 1],
           BridgeTypeOK', CallsAreWaited',
           \/ bridge' = bridge
           \/ /\ bridge'[c.w].run = i
              /\ bridge'[c.w].token = Reconciled(runs)[i].attempts + 1
              /\ \A w \in Workers : w # c.w => bridge'[w] = bridge[w],
           UNCHANGED <<created, crashes>>
    PROVE  LaneInv' /\ VerdictsStand
<1> DEFINE rs == Reconciled(runs)
           new == LeaseTo(rs, i)
           attempts == rs[i].attempts
<1>1. /\ rs \in [RunIds -> Run] /\ new \in [RunIds -> Run] /\ Moves(runs, new)
      /\ runs[i].attempts <= attempts /\ runs[i].status # "none"
      /\ runs[i].attempts \in Nat /\ attempts \in Nat
  BY LeaseMoves, ReconciledMoves DEF LaneInv, RunsTypeOK
<1>2. new[i].attempts = attempts + 1 /\ attempts + 1 <= MaxAttempts /\ MaxAttempts \in Nat
  BY <1>1, LeaseIsRun, LaneAssumption
<1> HIDE DEF rs, new
<1>3. RunsMove
  BY <1>1, SaveMoves DEF LaneInv, rs, new
<1>4. saved' = runs' /\ saveFailures' = saveFailures
  BY DEF Persisted
<1>5. \A j \in RunIds : runs'[j].status # "none" => runs'[j] = new[j]
  BY <1>1, NewestMoves, NoRunIsRun DEF Persisted, rs, new
<1>6. ASSUME NEW j \in RunIds
      PROVE  /\ handed[j] \in Nat /\ runs[j].attempts \in Nat /\ new[j].attempts \in Nat
             /\ handed'[j] = IF j = i THEN handed[j] + 1 ELSE handed[j]
  <2>1. handed \in [RunIds -> Nat]
    BY DEF LaneInv, RunsTypeOK
  <2>2. runs[j] \in Run /\ new[j] \in Run
    BY <1>1 DEF LaneInv, RunsTypeOK
  <2>3. runs[j].attempts \in Nat /\ new[j].attempts \in Nat
    BY <2>2, RunIsTyped
  <2> QED
    BY <2>1, <2>3
<1>7. /\ i <= created /\ handed[i] <= runs[i].attempts
      /\ \A w \in Workers : bridge[w].run = i => bridge[w].token <= runs[i].attempts
  BY <1>1 DEF LaneInv, LeasesAreOne, Counts
<1>8. \A w \in Workers : bridge[w].token \in Nat
  BY DEF LaneInv, BridgeTypeOK, Jobs
<1>9. handed'[i] <= attempts + 1
  BY <1>1, <1>6, <1>7
<1>10. \A w \in Workers : bridge[w].run = i => bridge[w].token < attempts + 1
  BY <1>1, <1>7, <1>8
<1> HIDE DEF attempts
<1>11. c.w \in Workers
  BY DEF LaneInv, BridgeTypeOK, Calls
<1>12. \A w \in Workers : bridge'[w] = bridge[w] \/ (w = c.w /\ bridge'[w].run = i /\ bridge'[w].token = attempts + 1)
  BY DEF rs, attempts
<1>13. ASSUME NEW j \in RunIds, runs'[j].status # "none"
       PROVE  /\ j <= created /\ handed'[j] <= runs'[j].attempts
              /\ \A w \in Workers : bridge'[w].run = j => bridge'[w].token <= runs'[j].attempts
  <2>1. CASE j = i
    <3>1. runs'[i].attempts = attempts + 1
      BY <1>2, <1>5, <1>13, <2>1
    <3>2. \A w \in Workers : bridge'[w].run = i => bridge'[w].token <= attempts + 1
      BY <1>1, <1>8, <1>10, <1>12
    <3> QED
      BY <1>7, <1>9, <2>1, <3>1, <3>2
  <2>2. CASE j # i
    <3>1. /\ runs'[j] = new[j] /\ runs[j].status # "none" /\ runs[j].attempts <= new[j].attempts
      BY <1>1, <1>5, <1>6, <1>13 DEF Moves
    <3>2. /\ j <= created /\ handed[j] <= runs[j].attempts
          /\ \A w \in Workers : bridge[w].run = j => bridge[w].token <= runs[j].attempts
      BY <3>1 DEF LaneInv, LeasesAreOne, Counts
    <3>3. handed'[j] <= runs'[j].attempts
      BY <1>6, <2>2, <3>1, <3>2
    <3>4. ASSUME NEW w \in Workers, bridge'[w].run = j
          PROVE  bridge'[w].token <= runs'[j].attempts
      BY <1>6, <1>8, <1>12, <2>2, <3>1, <3>2, <3>4
    <3> QED
      BY <3>2, <3>3, <3>4
  <2> QED
    BY <2>1, <2>2
<1>14. Counts(runs)' /\ Counts(saved)'
  BY <1>4, <1>13 DEF Counts
<1>15. \A j \in RunIds : handed'[j] <= MaxAttempts
  <2>1. handed'[i] <= MaxAttempts
    BY <1>1, <1>2, <1>6, <1>9
  <2> QED
    BY <1>6, <2>1 DEF LaneInv, LeasesAreOne
<1>16. \A j \in RunIds : j > created => handed'[j] = 0 /\ \A w \in Workers : bridge'[w].run # j
  <2>1. ~(i > created)
    BY <1>7 DEF LaneInv, RunsTypeOK, RunIds
  <2> QED
    BY <1>6, <1>12, <2>1 DEF LaneInv, LeasesAreOne
<1>17. \A v, w \in Workers :
          bridge'[v].run = bridge'[w].run /\ bridge'[v].run # 0 /\ bridge'[v].token = bridge'[w].token => v = w
  <2>1. \A v, w \in Workers : bridge[v].run = bridge[w].run /\ bridge[v].run # 0
                              /\ bridge[v].token = bridge[w].token => v = w
    BY DEF LaneInv, LeasesAreOne
  <2>2. \A w \in Workers : bridge[w].run = i => bridge[w].token # attempts + 1
    BY <1>1, <1>8, <1>10
  <2> QED
    BY <1>12, <2>1, <2>2
<1>18. LeasesAreOne'
  BY <1>14, <1>15, <1>16, <1>17 DEF LeasesAreOne
<1>19. RunsTypeOK'
  <2>1. handed' \in [RunIds -> Nat]
    BY DEF LaneInv, RunsTypeOK
  <2> QED
    BY <1>3, <2>1 DEF LaneInv, RunsTypeOK, RunsMove
<1>20. VerdictsAreSaved' /\ KeptFrom(Verdicts)
  BY <1>3, VerdictsAreKept DEF LaneInv, KeptFrom, RunsMove, Moves
<1> QED
  BY <1>18, <1>19, <1>20 DEF LaneInv, VerdictsStand

\* A claim.
LEMMA ClaimKeeps ==
    ASSUME LaneInv, NEW c \in inbox, HandleClaim(c)
    PROVE  LaneInv' /\ VerdictsStand
<1> DEFINE rs == Reconciled(runs)
           token(i) == LeaseTo(rs, i)[i].token
           op(i) == IF IsReview(rs[i]) THEN "fetch" ELSE "beat"
           job(i) == [pc |-> op(i), run |-> i, token |-> token(i), stage |-> 0]
           m(i) == [w |-> c.w, op |-> op(i), run |-> i, token |-> token(i), good |-> TRUE, late |-> FALSE]
<1>1. UNCHANGED <<created, crashes>>
  BY DEF HandleClaim, HandlerUntouched
<1>2. \/ (Refreshed \/ RefreshFailed) /\ Answer(c, "error") /\ UNCHANGED handed
      \/ \E i \in RunIds : /\ Claimable(rs[i])
                           /\ SaveFailed(LeaseTo(rs, i)) /\ Answer(c, "error") /\ UNCHANGED handed
      \/ \E i \in RunIds : /\ Claimable(rs[i])
                           /\ Persisted(LeaseTo(rs, i)) /\ handed' = [handed EXCEPT ![i] = @ + 1]
                           /\ IF c.late THEN UNCHANGED bridge /\ inbox' = inbox \ {c}
                              ELSE /\ bridge' = [bridge EXCEPT ![c.w] = job(i)]
                                   /\ inbox' = (inbox \ {c}) \cup {m(i)}
  BY DEF HandleClaim
<1>3. CASE (Refreshed \/ RefreshFailed) /\ Answer(c, "error") /\ UNCHANGED handed
  BY <1>1, <1>3, RefreshMoves, AnswerKeeps, OrdinaryKeeps DEF Ordinary, LaneInv
<1>4. ASSUME NEW i \in RunIds, Claimable(rs[i]),
             SaveFailed(LeaseTo(rs, i)) /\ Answer(c, "error") /\ UNCHANGED handed
      PROVE  LaneInv' /\ VerdictsStand
  BY <1>1, <1>4, LeaseMoves, SaveMoves, AnswerKeeps, OrdinaryKeeps DEF Ordinary, LaneInv
<1>5. ASSUME NEW i \in RunIds, Claimable(rs[i]),
             Persisted(LeaseTo(rs, i)), handed' = [handed EXCEPT ![i] = @ + 1],
             IF c.late THEN UNCHANGED bridge /\ inbox' = inbox \ {c}
             ELSE /\ bridge' = [bridge EXCEPT ![c.w] = job(i)]
                  /\ inbox' = (inbox \ {c}) \cup {m(i)}
      PROVE  LaneInv' /\ VerdictsStand
  <2>1. c.w \in Workers /\ bridge \in [Workers -> Jobs]
    BY DEF LaneInv, BridgeTypeOK, Calls
  <2>2. CASE c.late
    <3>1. BridgeTypeOK' /\ CallsAreWaited'
      BY <1>5, <2>2 DEF LaneInv, BridgeTypeOK, CallsAreWaited
    <3> QED
      BY <1>1, <1>5, <2>2, <3>1, GrantKeeps
  <2>3. CASE ~c.late
    <3>1. token(i) = rs[i].attempts + 1 /\ token(i) \in Nat
      BY <1>5, LeaseIsRun, ReconciledMoves, LaneAssumption DEF LaneInv, RunsTypeOK
    <3>2. op(i) \in {"fetch", "beat"}
      OBVIOUS
    <3> HIDE DEF token, op
    <3>3. job(i) \in Jobs /\ job(i).run = i /\ job(i).token = token(i) /\ job(i).pc = op(i)
      BY <3>1, <3>2 DEF Jobs, Ops
    <3>4. m(i) \in Calls /\ m(i).w = c.w /\ m(i).run = i
      BY <2>1, <3>1, <3>2 DEF Calls, Ops
    <3>5. bridge' = [bridge EXCEPT ![c.w] = job(i)] /\ inbox' = (inbox \ {c}) \cup {m(i)}
      BY <1>5, <2>3
    <3> HIDE DEF job, m
    <3>6. /\ inbox \ {c} \subseteq Calls
          /\ \A d \in inbox \ {c} : d.op # "claim" => d.run \in RunIds
          /\ \A d \in inbox \ {c} : ~d.late => d \in inbox /\ d.w # c.w
      BY <2>3 DEF LaneInv, BridgeTypeOK, CallsAreWaited
    <3>7. job(i).pc \in Ops
      BY <3>2, <3>3 DEF Ops
    <3>8. BridgeTypeOK' /\ CallsAreWaited'
      BY ZenonT(30), <2>1, <3>3, <3>4, <3>5, <3>6, <3>7, JobAsks DEF LaneInv
    <3>9. /\ bridge'[c.w].run = i /\ bridge'[c.w].token = rs[i].attempts + 1
          /\ \A w \in Workers : w # c.w => bridge'[w] = bridge[w]
      BY <2>1, <3>1, <3>3, <3>5
    <3> QED
      BY <1>1, <1>5, <3>8, <3>9, GrantKeeps
  <2> QED
    BY <2>2, <2>3
<1> QED
  BY <1>2, <1>3, <1>4, <1>5

\* Time passes.
LEMMA TickKeeps ==
    ASSUME LaneInv, Tick
    PROVE  LaneInv' /\ VerdictsStand
<1>1. ASSUME NEW rs \in [RunIds -> Run]
      PROVE  /\ Older(rs) \in [RunIds -> Run]
             /\ \A i \in RunIds : /\ Older(rs)[i].status = rs[i].status /\ Older(rs)[i].by = rs[i].by
                                  /\ Older(rs)[i].attempts = rs[i].attempts
  <2>1. ASSUME NEW i \in RunIds
        PROVE  LET r == [rs[i] EXCEPT !.ttl = IF @ > 0 THEN @ - 1 ELSE 0] IN
               r \in Run /\ r.status = rs[i].status /\ r.by = rs[i].by /\ r.attempts = rs[i].attempts
    <3> DEFINE ttl == IF rs[i].ttl > 0 THEN rs[i].ttl - 1 ELSE 0
    <3>1. ttl \in 0 .. LeaseTicks
      BY RunIsTyped, LaneAssumption
    <3> HIDE DEF ttl
    <3>2. LET r == [rs[i] EXCEPT !.ttl = ttl] IN
          r \in Run /\ r.status = rs[i].status /\ r.by = rs[i].by /\ r.attempts = rs[i].attempts
      BY <3>1 DEF Run, Live, Terminal
    <3> QED
      BY <3>2 DEF ttl
  <2> QED
    BY <2>1 DEF Older
<1>2. /\ runs' = Older(runs) /\ saved' = Older(saved)
      /\ runs \in [RunIds -> Run] /\ saved \in [RunIds -> Run]
      /\ UNCHANGED <<created, inbox, bridge, crashes, saveFailures, handed>>
  BY DEF Tick, LaneInv, RunsTypeOK
<1>3. RunsTypeOK' /\ BridgeTypeOK' /\ CallsAreWaited'
  BY <1>1, <1>2, WorkersRest DEF LaneInv, RunsTypeOK
<1>4. LeasesAreOne'
  BY <1>1, <1>2 DEF LaneInv, LeasesAreOne, Counts
<1>5. VerdictsAreSaved' /\ KeptFrom(Verdicts)
  BY <1>1, <1>2 DEF LaneInv, VerdictsAreSaved, KeptFrom
<1> QED
  BY <1>3, <1>4, <1>5 DEF LaneInv, VerdictsStand

\* A restart goes back to the disk.
LEMMA RestartKeeps ==
    ASSUME LaneInv, Restart
    PROVE  LaneInv' /\ VerdictsStand
<1>1. /\ runs' = saved /\ saved' = saved /\ inbox' = {} /\ crashes' = crashes + 1
      /\ UNCHANGED <<created, bridge, saveFailures, handed>>
  BY DEF Restart
<1>2. RunsTypeOK' /\ BridgeTypeOK' /\ CallsAreWaited'
  BY <1>1 DEF LaneInv, RunsTypeOK, BridgeTypeOK, CallsAreWaited
<1>3. LeasesAreOne' /\ VerdictsAreSaved'
  BY <1>1 DEF LaneInv, LeasesAreOne, Counts, VerdictsAreSaved
<1>4. crashes' # crashes
  BY <1>1 DEF LaneInv, RunsTypeOK
<1>5. saveFailures = 0 => KeptFrom(Verdicts)
  BY <1>1 DEF LaneInv, VerdictsAreSaved, KeptFrom
<1> QED
  BY <1>2, <1>3, <1>4, <1>5 DEF LaneInv, VerdictsStand

-----------------------------------------------------------------------------
(***************************************************************************)
(* The invariant holds, and what follows from it.                          *)
(***************************************************************************)
LEMMA LaneInit == Init => LaneInv
<1> SUFFICES ASSUME Init PROVE LaneInv
  OBVIOUS
<1>1. \A i \in RunIds : runs[i] = NoRun /\ saved[i] = NoRun
  BY DEF Init
<1>2. RunsTypeOK
  BY NoRunIsRun, LaneAssumption DEF Init, RunsTypeOK
<1>3. Idle \in Jobs /\ Idle.pc = "idle" /\ Idle.run = 0
  BY DEF Idle, Jobs
<1>4. BridgeTypeOK /\ CallsAreWaited
  BY <1>3 DEF Init, BridgeTypeOK, CallsAreWaited
<1>5. LeasesAreOne
  BY SMTT(30), <1>1, <1>3, NoRunIsRun, LaneAssumption DEF Init, LeasesAreOne, Counts, RunIds
<1>6. VerdictsAreSaved
  BY <1>1, NoRunIsRun DEF VerdictsAreSaved, Verdicts
<1> QED
  BY <1>2, <1>4, <1>5, <1>6 DEF LaneInv

\* Snapshots are numbered in the order they are taken.
LEMMA SnapsStep == SnapsTypeOK /\ [Next]_vars => SnapsTypeOK'
<1> SUFFICES ASSUME SnapsTypeOK, [Next]_vars PROVE SnapsTypeOK'
  OBVIOUS
<1>1. CASE TakeSnapshot
  <2>1. taken + 1 \in 0 .. MaxSnaps /\ taken' = taken + 1 /\ 1 .. taken \subseteq 1 .. taken + 1
    BY <1>1, LaneAssumption DEF TakeSnapshot, SnapsTypeOK
  <2>2. snaps' \subseteq snaps \cup {taken + 1}
    BY <1>1 DEF TakeSnapshot, Retained
  <2>3. taken + 1 \in 1 .. taken + 1
    BY DEF SnapsTypeOK
  <2>4. snaps' \subseteq 1 .. taken + 1
    BY <2>1, <2>2, <2>3 DEF SnapsTypeOK
  <2>5. savedSnaps' \subseteq 1 .. taken + 1
    BY <1>1, <2>1, <2>4 DEF TakeSnapshot, SnapsTypeOK
  <2> QED
    BY <2>1, <2>4, <2>5 DEF SnapsTypeOK
<1>2. CASE Restart
  BY <1>2 DEF Restart, SnapsTypeOK
<1>3. CASE ~TakeSnapshot /\ ~Restart
  <2>1. UNCHANGED <<taken, snaps, savedSnaps>>
    BY <1>3
       DEF Next, vars, Create, CreateReview, Enqueue, Cancel, Poll, StartWorker, FinishStage, FailStage,
                StopWorker, GiveUp, JournalUntouched, HandleClaim, HandleFetch, HandleBeat,
                HandleComplete,
                HandleStore, HandleFail, HandlerUntouched, Tick
  <2> QED
    BY <2>1 DEF SnapsTypeOK
<1> QED
  BY <1>1, <1>2, <1>3

\* Every step.
LEMMA LaneStep == LaneInv /\ SnapsTypeOK /\ [Next]_vars => LaneInv' /\ VerdictsStand
<1> SUFFICES ASSUME LaneInv, SnapsTypeOK, [Next]_vars PROVE LaneInv' /\ VerdictsStand
  OBVIOUS
<1>1. /\ RunsTypeOK /\ BridgeTypeOK /\ CallsAreWaited
  BY DEF LaneInv
<1>2. CASE Create
  BY <1>2, EnqueueKeeps DEF Create
<1>3. CASE CreateReview
  <2>1. snaps \subseteq SnapIds
    BY LaneAssumption DEF SnapsTypeOK, SnapIds
  <2> QED
    BY <1>3, <2>1, EnqueueKeeps DEF CreateReview
<1>4. CASE TakeSnapshot \/ UNCHANGED vars
  <2>1. UNCHANGED <<runs, saved, created, inbox, bridge, crashes, handed>>
    BY <1>4 DEF TakeSnapshot, vars
  <2>2. saveFailures' \in Nat /\ (saveFailures' = 0 => saveFailures = 0)
    BY <1>1, <1>4 DEF TakeSnapshot, vars, RunsTypeOK
  <2>3. RunsTypeOK' /\ LeasesAreOne' /\ VerdictsAreSaved'
    BY <2>1, <2>2 DEF LaneInv, RunsTypeOK, LeasesAreOne, Counts, VerdictsAreSaved
  <2>4. KeptFrom(Verdicts)
    BY <2>1 DEF KeptFrom
  <2> QED
    BY <1>1, <2>1, <2>3, <2>4, WorkersRest DEF LaneInv, VerdictsStand
<1>5. ASSUME NEW i \in RunIds, Cancel(i) PROVE LaneInv' /\ VerdictsStand
  BY <1>1, <1>5, CancelMoves, OrdinaryKeeps DEF Cancel
<1>6. CASE Poll
  BY <1>1, <1>6, PollMoves, OrdinaryKeeps DEF Poll
<1>7. ASSUME NEW w \in Workers, StartWorker(w) \/ FinishStage(w) \/ FailStage(w) PROVE LaneInv' /\ VerdictsStand
  <2>1. UNCHANGED <<created, handed, crashes>>
    BY <1>7 DEF StartWorker, FinishStage, FailStage, JournalUntouched
  <2> QED
    BY <1>1, <1>7, <2>1, StageMoves, OrdinaryKeeps
<1>8. ASSUME NEW w \in Workers, StopWorker(w) \/ GiveUp(w) PROVE LaneInv' /\ VerdictsStand
  <2>1. UNCHANGED <<created, handed, crashes>>
    BY <1>8 DEF StopWorker, GiveUp, JournalUntouched
  <2> QED
    BY <1>1, <1>8, <2>1, StopMoves, GiveUpMoves, OrdinaryKeeps
<1>9. ASSUME NEW c \in inbox,
             HandleFetch(c) \/ HandleBeat(c) \/ HandleComplete(c) \/ HandleStore(c) \/ HandleFail(c)
      PROVE  LaneInv' /\ VerdictsStand
  <2>1. UNCHANGED <<created, handed, crashes>>
    BY <1>9 DEF HandleFetch, HandleBeat, HandleComplete, HandleStore, HandleFail, HandlerUntouched
  <2> QED
    BY <1>1, <1>9, <2>1, FetchMoves, BeatMoves, CompleteMoves, StoreMoves, FailMoves, OrdinaryKeeps
<1> QED
  BY <1>2, <1>3, <1>4, <1>5, <1>6, <1>7, <1>8, <1>9, ClaimKeeps, TickKeeps, RestartKeeps DEF Next

\* In every reachable state.
LEMMA LaneIsInvariant == Spec => [](LaneInv /\ SnapsTypeOK)
<1>1. Init => LaneInv /\ SnapsTypeOK
  BY LaneInit, LaneAssumption DEF Init, SnapsTypeOK
<1>2. LaneInv /\ SnapsTypeOK /\ [Next]_vars => (LaneInv /\ SnapsTypeOK)'
  BY LaneStep, SnapsStep
<1> QED
  BY <1>1, <1>2, PTL DEF Spec

(***************************************************************************)
(* A lease is one worker's, and no run is worked more than                 *)
(* agencyMaxAttempts times (agency_store.go:262 Claim), whatever lapses,   *)
(* fails to be written, restarts, is lost or arrives late.                 *)
(***************************************************************************)
THEOREM LeasesHold == Spec => []LeasesAreSound
<1>1. LaneInv => LeasesAreSound
  BY DEF LaneInv, LeasesAreOne, LeasesAreSound, HoldsLeaseOf, RunIds
<1> QED
  BY <1>1, LaneIsInvariant, PTL

(***************************************************************************)
(* A completed, failed or cancelled run keeps its status and the lease     *)
(* that produced its result (agency.go:180 terminal), except across a      *)
(* restart after a write that failed.                                      *)
(***************************************************************************)
THEOREM VerdictsAreFinal == Spec => ResultStands
<1>1. LaneInv /\ SnapsTypeOK /\ [Next]_vars
         => [saveFailures = 0 \/ crashes' = crashes => KeptFrom({"completed", "failed", "cancelled"})]_vars
  BY LaneStep DEF VerdictsStand, Verdicts
<1> QED
  BY <1>1, LaneIsInvariant, PTL DEF Spec, ResultStands

-----------------------------------------------------------------------------
(***************************************************************************)
(* The evidence of a review.                                               *)
(***************************************************************************)
\* The reviewed snapshots and the newest ones fit under the hard cap.
ReviewsAreFew == Cardinality(SnapshotIDsInUse) + SnapsPerUser =< SnapsHardCap

\* The newest snapshots are few: SnapsPerUser of them at the most.
LEMMA NewestAreFew ==
    ASSUME NEW ss, IsFiniteSet(ss), ss \subseteq Nat
    PROVE  Cardinality({s \in ss : Cardinality({t \in ss : t > s}) < SnapsPerUser}) =< SnapsPerUser
<1> DEFINE top == {s \in ss : Cardinality({t \in ss : t > s}) < SnapsPerUser}
<1> SUFFICES Cardinality(top) =< SnapsPerUser
  OBVIOUS
<1>1. IsFiniteSet(top) /\ SnapsPerUser \in Nat /\ top \subseteq Nat
  BY FS_Subset, LaneAssumption
<1>2. CASE top = {}
  <2>1. Cardinality(top) = 0
    BY <1>2, FS_EmptySet
  <2> QED
    BY <1>1, <2>1
<1>3. CASE top # {}
  <2>1. PICK n \in top : \A m \in top : n =< m
    <3>1. IsWellFoundedOn(OpToRel(<, Nat), Nat)
      BY NatLessThanWellFounded
    <3>2. top \subseteq Nat
      OBVIOUS
    <3> HIDE DEF top
    <3>3. PICK n \in top : \A m \in top : <<m, n>> \notin OpToRel(<, Nat)
      BY <1>3, <3>1, <3>2, WFMin
    <3>4. ASSUME NEW m \in top PROVE n =< m
      <4>1. m \in Nat /\ n \in Nat /\ <<m, n>> \in Nat \X Nat
        BY <3>2, <3>4
      <4>2. ~(m < n)
        BY <3>3, <4>1 DEF OpToRel
      <4> QED
        BY <4>1, <4>2
    <3> QED
      BY <3>4
  <2> DEFINE newer == {t \in ss : t > n}
  <2>2. Cardinality(newer) < SnapsPerUser /\ IsFiniteSet(newer) /\ Cardinality(newer) \in Nat
    BY FS_Subset, FS_CardinalityType
  <2>3. top \ {n} \subseteq newer
    <3>1. ASSUME NEW m \in top, m # n PROVE m \in ss /\ m > n
      BY <1>1, <2>1, <3>1
    <3> QED
      BY <3>1
  <2>4. /\ IsFiniteSet(top \ {n}) /\ Cardinality(top \ {n}) = Cardinality(top) - 1
        /\ Cardinality(top) \in Nat
    BY <1>1, <2>1, FS_RemoveElement, FS_CardinalityType
  <2>5. Cardinality(top \ {n}) =< Cardinality(newer)
    BY <2>2, <2>3, FS_Subset
  <2> QED
    BY <1>1, <2>2, <2>4, <2>5
<1> QED
  BY <1>2, <1>3

\* Retention keeps what live reviews are about.
LEMMA RetainedKeepsReviews ==
    ASSUME NEW ss, IsFiniteSet(ss), ss \subseteq Nat, IsFiniteSet(SnapshotIDsInUse), ReviewsAreFew,
           NEW s \in ss, s \in SnapshotIDsInUse
    PROVE  s \in Retained(ss)
<1> DEFINE top == {x \in ss : Cardinality({t \in ss : t > x}) < SnapsPerUser}
           kept == {x \in ss : \/ Cardinality({t \in ss : t > x}) < SnapsPerUser
                               \/ x \in SnapshotIDsInUse}
           newer == {t \in kept : t > s}
<1>1. /\ IsFiniteSet(top) /\ IsFiniteSet(kept) /\ IsFiniteSet(newer)
      /\ kept \subseteq top \cup SnapshotIDsInUse /\ newer \subseteq kept \ {s} /\ s \in kept
  <2>1. top \subseteq ss /\ kept \subseteq ss /\ newer \subseteq ss
    OBVIOUS
  <2>2. IsFiniteSet(top) /\ IsFiniteSet(kept) /\ IsFiniteSet(newer)
    BY <2>1, FS_Subset
  <2>3. kept \subseteq top \cup SnapshotIDsInUse /\ s \in kept
    OBVIOUS
  <2>4. newer \subseteq kept \ {s}
    OBVIOUS
  <2> QED
    BY <2>2, <2>3, <2>4
<1>2. SnapsPerUser \in Nat /\ SnapsHardCap \in Nat
  BY LaneAssumption
<1>3. Cardinality(top) =< SnapsPerUser
  BY NewestAreFew
<1>4. Retained(ss) = ss \/ Retained(ss) = {x \in kept : Cardinality({t \in kept : t > x}) < SnapsHardCap}
  BY DEF Retained
<1>5. /\ Cardinality(top) \in Nat /\ Cardinality(kept) \in Nat /\ Cardinality(newer) \in Nat
      /\ Cardinality(SnapshotIDsInUse) \in Nat
  BY <1>1, FS_CardinalityType
<1> HIDE DEF top, kept
<1>6. IsFiniteSet(top \cup SnapshotIDsInUse)
      /\ Cardinality(top \cup SnapshotIDsInUse) =< Cardinality(top) + Cardinality(SnapshotIDsInUse)
  <2>1. /\ IsFiniteSet(top \cap SnapshotIDsInUse) /\ Cardinality(top \cap SnapshotIDsInUse) \in Nat
    BY <1>1, FS_Subset, FS_CardinalityType
  <2>2. /\ IsFiniteSet(top \cup SnapshotIDsInUse)
        /\ Cardinality(top \cup SnapshotIDsInUse)
              = Cardinality(top) + Cardinality(SnapshotIDsInUse) - Cardinality(top \cap SnapshotIDsInUse)
    BY <1>1, FS_Union
  <2> QED
    BY <1>5, <2>1, <2>2
<1>7. Cardinality(kept) =< Cardinality(top \cup SnapshotIDsInUse)
  BY <1>1, <1>6, FS_Subset
<1>8. IsFiniteSet(kept \ {s}) /\ Cardinality(kept \ {s}) = Cardinality(kept) - 1
  BY <1>1, FS_RemoveElement
<1>9. Cardinality(newer) =< Cardinality(kept \ {s})
  BY <1>1, <1>8, FS_Subset
<1>10. Cardinality(top \cup SnapshotIDsInUse) \in Nat
  BY <1>6, FS_CardinalityType
<1>11. Cardinality(newer) < SnapsHardCap
  BY <1>2, <1>3, <1>5, <1>6, <1>7, <1>8, <1>9, <1>10 DEF ReviewsAreFew
<1> QED
  BY <1>1, <1>4, <1>11

\* A step that moves the runs and keeps the snapshots.
LEMMA EvidenceIsKept ==
    ASSUME RunsTypeOK, EvidenceIsThere, Moves(runs, runs'), UNCHANGED <<snaps, crashes>>
    PROVE  EvidenceIsThere'
<1> SUFFICES ASSUME crashes = 0, NEW i \in RunIds, IsReview(runs'[i]), runs'[i].status \in Live
             PROVE  runs'[i].about \in snaps
  BY DEF EvidenceIsThere, IsReview
<1>1. runs[i].status \in Live /\ runs[i].about = runs'[i].about
  BY DEF Moves, Live
<1> QED
  BY <1>1 DEF EvidenceIsThere, IsReview

\* A request for a review names a snapshot that is there.
LEMMA EnqueueHasEvidence ==
    ASSUME LaneInv, EvidenceIsThere, NEW subject \in Questions \cup snaps, Enqueue(subject)
    PROVE  EvidenceIsThere'
<1> DEFINE rs == Reconciled(runs)
           r == [NoRun EXCEPT !.status = "queued", !.about = subject]
           new == [rs EXCEPT ![created + 1] = r]
<1>1. rs \in [RunIds -> Run] /\ Moves(runs, rs)
  BY ReconciledMoves DEF LaneInv, RunsTypeOK
<1>2. r.about = subject
  BY DEF NoRun
<1>3. \/ runs' = rs
      \/ created < MaxRuns /\ runs' = Newest(new)
  BY DEF Enqueue, Persisted, SaveFailed
<1>4. UNCHANGED <<snaps, crashes>>
  BY DEF Enqueue
<1> HIDE DEF rs, r
<1>5. CASE runs' = rs
  BY <1>1, <1>4, <1>5, EvidenceIsKept DEF LaneInv
<1>6. CASE created < MaxRuns /\ runs' = Newest(new)
  <2>1. created + 1 \in RunIds
    BY <1>6, LaneAssumption DEF LaneInv, RunsTypeOK, RunIds
  <2>2. /\ new[created + 1] = r
        /\ \A i \in RunIds : i # created + 1 => new[i] = rs[i]
    BY <1>1, <2>1
  <2>3. \A i \in RunIds : runs'[i] = new[i] \/ runs'[i] = NoRun
    BY <1>6 DEF Newest
  <2> SUFFICES ASSUME crashes = 0, NEW i \in RunIds, IsReview(runs'[i]), runs'[i].status \in Live
               PROVE  runs'[i].about \in snaps
    BY <1>4 DEF EvidenceIsThere, IsReview
  <2>4. runs'[i] = new[i]
    BY <2>3, NoRunIsRun DEF Live
  <2>5. CASE i = created + 1
    <3>1. subject \in SnapIds
      BY <1>2, <2>2, <2>4, <2>5 DEF IsReview
    <3>2. subject \notin Questions
      BY <3>1, LaneAssumption DEF SnapIds
    <3> QED
      BY <1>2, <2>2, <2>4, <2>5, <3>2
  <2>6. CASE i # created + 1
    <3>1. runs'[i] = rs[i] /\ runs[i].status \in Live /\ runs[i].about = rs[i].about
      BY <1>1, <2>2, <2>4, <2>6 DEF Moves, Live
    <3> QED
      BY <3>1 DEF EvidenceIsThere, IsReview
  <2> QED
    BY <2>5, <2>6
<1> QED
  BY <1>3, <1>5, <1>6

\* A capture drops no evidence of a live review.
LEMMA CaptureKeepsEvidence ==
    ASSUME SnapsTypeOK, RunsTypeOK, EvidenceIsThere, ReviewsAreFew, TakeSnapshot
    PROVE  EvidenceIsThere'
<1> SUFFICES ASSUME crashes = 0, NEW i \in RunIds, IsReview(runs[i]), runs[i].status \in Live
             PROVE  runs[i].about \in snaps'
  BY DEF EvidenceIsThere, IsReview, TakeSnapshot
<1>1. IsFiniteSet(1 .. taken) /\ IsFiniteSet(SnapIds)
  BY LaneAssumption, FS_Interval DEF SnapsTypeOK, SnapIds
<1>2. IsFiniteSet(snaps \cup {taken + 1})
  BY <1>1, FS_Subset, FS_AddElement DEF SnapsTypeOK
<1>3. IsFiniteSet(SnapshotIDsInUse)
  <2>1. SnapshotIDsInUse \subseteq SnapIds
    BY DEF SnapshotIDsInUse
  <2> QED
    BY <1>1, <2>1, FS_Subset
<1>4. snaps \cup {taken + 1} \subseteq Nat
  BY DEF SnapsTypeOK
<1>5. runs[i].about \in SnapshotIDsInUse
  BY DEF SnapshotIDsInUse, IsReview
<1>6. runs[i].about \in snaps
  BY DEF EvidenceIsThere
<1> QED
  BY <1>2, <1>3, <1>4, <1>5, <1>6, RetainedKeepsReviews DEF TakeSnapshot

\* Every step.
LEMMA EvidenceStep ==
    LaneInv /\ SnapsTypeOK /\ EvidenceIsThere /\ ReviewsAreFew /\ [Next]_vars => EvidenceIsThere'
<1> SUFFICES ASSUME LaneInv, SnapsTypeOK, EvidenceIsThere, ReviewsAreFew, [Next]_vars
             PROVE  EvidenceIsThere'
  OBVIOUS
<1>1. RunsTypeOK /\ BridgeTypeOK /\ CallsAreWaited
  BY DEF LaneInv
<1>2. CASE Create \/ CreateReview
  BY <1>2, EnqueueHasEvidence DEF Create, CreateReview
<1>3. CASE TakeSnapshot
  BY <1>1, <1>3, CaptureKeepsEvidence
<1>4. ASSUME NEW i \in RunIds, Cancel(i) PROVE EvidenceIsThere'
  BY <1>1, <1>4, CancelMoves, EvidenceIsKept DEF Cancel, Ordinary, RunsMove
<1>5. CASE Poll
  BY <1>1, <1>5, PollMoves, EvidenceIsKept DEF Poll, Ordinary, RunsMove
<1>6. ASSUME NEW w \in Workers,
             StartWorker(w) \/ FinishStage(w) \/ FailStage(w) \/ StopWorker(w) \/ GiveUp(w)
      PROVE  EvidenceIsThere'
  <2>1. UNCHANGED <<runs, snaps, crashes>>
    BY <1>6 DEF StartWorker, FinishStage, FailStage, StopWorker, GiveUp, JournalUntouched
  <2> QED
    BY <2>1 DEF EvidenceIsThere, IsReview
<1>7. ASSUME NEW c \in inbox,
             HandleFetch(c) \/ HandleBeat(c) \/ HandleComplete(c) \/ HandleStore(c) \/ HandleFail(c)
      PROVE  EvidenceIsThere'
  <2>1. UNCHANGED <<snaps, crashes>>
    BY <1>7 DEF HandleFetch, HandleBeat, HandleComplete, HandleStore, HandleFail, HandlerUntouched
  <2> QED
    BY <1>1, <1>7, <2>1, FetchMoves, BeatMoves, CompleteMoves, StoreMoves, FailMoves, EvidenceIsKept
       DEF Ordinary, RunsMove
<1>8. ASSUME NEW c \in inbox, HandleClaim(c) PROVE EvidenceIsThere'
  <2>1. UNCHANGED <<snaps, crashes>>
    BY <1>8 DEF HandleClaim, HandlerUntouched
  <2>2. \/ Refreshed \/ RefreshFailed
        \/ \E i \in RunIds : /\ Claimable(Reconciled(runs)[i])
                             /\ \/ Persisted(LeaseTo(Reconciled(runs), i))
                                \/ SaveFailed(LeaseTo(Reconciled(runs), i))
    BY <1>8 DEF HandleClaim
  <2>3. Moves(runs, runs')
    BY <1>1, <2>2, RefreshMoves, LeaseMoves, SaveMoves DEF RunsMove
  <2> QED
    BY <1>1, <2>1, <2>3, EvidenceIsKept
<1>9. CASE Tick
  <2>1. \A i \in RunIds : runs'[i].status = runs[i].status /\ runs'[i].about = runs[i].about
    <3>1. \A i \in RunIds : runs[i] \in Run
      BY <1>1 DEF RunsTypeOK
    <3> QED
      BY <1>9, <3>1 DEF Tick, Older, Run
  <2> QED
    BY <1>9, <2>1 DEF Tick, EvidenceIsThere, IsReview
<1>10. CASE Restart
  BY <1>1, <1>10 DEF Restart, EvidenceIsThere, RunsTypeOK
<1>11. CASE UNCHANGED vars
  BY <1>11 DEF vars, EvidenceIsThere, IsReview
<1> QED
  BY <1>2, <1>3, <1>4, <1>5, <1>6, <1>7, <1>8, <1>9, <1>10, <1>11 DEF Next

(***************************************************************************)
(* The retention pin (experiment_snapshot_store.go:44-58, agency_store.go: *)
(* 139 SnapshotIDsInUse): until a restart, a review that a worker holds or *)
(* could claim has its evidence, as long as the snapshots under review and *)
(* the newest SnapsPerUser fit under the hard cap.  Without that the hard  *)
(* cap goes first (experiment_snapshot.go:71-74).                          *)
(***************************************************************************)
THEOREM ReviewsKeepEvidence == Spec /\ []ReviewsAreFew => []ReviewHasItsEvidence
<1>1. Init => EvidenceIsThere
  BY NoRunIsRun DEF Init, EvidenceIsThere, Live
<1>2. LaneInv /\ SnapsTypeOK /\ EvidenceIsThere /\ ReviewsAreFew /\ [Next]_vars => EvidenceIsThere'
  BY EvidenceStep
<1>3. EvidenceIsThere => ReviewHasItsEvidence
  BY DEF EvidenceIsThere, ReviewHasItsEvidence, LeaseHeld, ClaimableAt, Claimable, Live
<1> QED
  BY <1>1, <1>2, <1>3, LaneIsInvariant, PTL DEF Spec
=============================================================================
