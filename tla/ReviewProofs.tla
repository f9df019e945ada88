------------------------------ MODULE ReviewProofs ------------------------------
(***************************************************************************)
(* Theorems about paper evidence: what a stored snapshot, and a review the *)
(* journal accepted, say about the paper deployment (EvidenceReview), and  *)
(* what an outcome of the shadow ledger is the outcome of (ShadowLedger).  *)
(***************************************************************************)
EXTENDS EvidenceReview, ShadowLedger, SequenceTheorems, FunctionTheorems, FiniteSetTheorems,
        WellFoundedInduction, TLAPS

-----------------------------------------------------------------------------
(* Sequences *)

\* A set of numbers has a least one.
LEMMA LeastOf ==
    ASSUME NEW S \in SUBSET Nat, S # {}
    PROVE  \E x \in S : \A y \in S : x <= y
<1>1. \E x \in S : \A y \in S : ~ (<<y, x>> \in OpToRel(<, Nat))
  BY NatLessThanWellFounded, WFMin
<1>2. PICK x \in S : \A y \in S : ~ (<<y, x>> \in OpToRel(<, Nat))
  BY <1>1
<1>3. ASSUME NEW y \in S PROVE x <= y
  <2>1. x \in Nat /\ y \in Nat /\ <<y, x>> \in Nat \X Nat
    OBVIOUS
  <2>2. ~ (y < x)
    BY <1>2, <2>1 DEF OpToRel
  <2> QED BY <2>1, <2>2
<1> QED
  BY <1>3

\* Two sequences one after the other have the elements of both.
LEMMA Joined ==
    ASSUME NEW S, NEW a \in Seq(S), NEW b \in Seq(S)
    PROVE  a \o b \in Seq(S) /\ Range(a) \subseteq Range(a \o b) /\ Range(b) \subseteq Range(a \o b)
<1>1. /\ a \o b \in Seq(S) /\ DOMAIN (a \o b) = 1 .. Len(a) + Len(b)
      /\ \A i \in 1 .. Len(a) + Len(b) : (a \o b)[i] = IF i <= Len(a) THEN a[i] ELSE b[i - Len(a)]
  BY ConcatProperties
<1>2. DOMAIN a = 1 .. Len(a) /\ DOMAIN b = 1 .. Len(b) /\ Len(a) \in Nat /\ Len(b) \in Nat
  OBVIOUS
<1>3. ASSUME NEW i \in DOMAIN a PROVE a[i] \in Range(a \o b)
  <2>1. i \in 1 .. Len(a) + Len(b) /\ (a \o b)[i] = a[i]
    BY <1>1, <1>2, <1>3
  <2> QED
    BY <1>1, <2>1 DEF Range
<1>4. ASSUME NEW i \in DOMAIN b PROVE b[i] \in Range(a \o b)
  <2>1. PICK j : j = Len(a) + i
    OBVIOUS
  <2>2. j \in 1 .. Len(a) + Len(b) /\ (a \o b)[j] = b[i]
    BY <1>1, <1>2, <1>4, <2>1
  <2> QED
    BY <1>1, <2>2 DEF Range
<1> QED
  BY <1>1, <1>3, <1>4 DEF Range

\* A function that says what the first n sequences are, one after the other.
Flattens(f, seqs, n) ==
    f = [i \in 1 .. n |-> IF i = 1 THEN seqs[i] ELSE f[i - 1] \o seqs[i]]

\* There is one for every list of sequences.
LEMMA FlattenExists ==
    ASSUME NEW S, NEW seqs \in Seq(Seq(S)), NEW n \in 1 .. Len(seqs)
    PROVE  \E f : Flattens(f, seqs, n)
<1> DEFINE Bad == {k \in Nat : k \in 1 .. Len(seqs) /\ ~ \E f : Flattens(f, seqs, k)}
<1>1. SUFFICES ASSUME Bad # {} PROVE FALSE
  OBVIOUS
<1>2. PICK k \in Bad : \A j \in Bad : k <= j
  <2>1. Bad \in SUBSET Nat
    OBVIOUS
  <2> HIDE DEF Bad
  <2> QED
    BY <1>1, <2>1, LeastOf
<1>3. k \in Nat /\ k \in 1 .. Len(seqs) /\ ~ \E f : Flattens(f, seqs, k)
  BY <1>2
<1>4. CASE k = 1
  <2>1. PICK f : f = [i \in 1 .. 1 |-> seqs[i]]
    OBVIOUS
  <2>2. Flattens(f, seqs, 1)
    BY <2>1 DEF Flattens
  <2> QED
    BY <1>3, <1>4, <2>2
<1>5. CASE k # 1
  <2>1. k - 1 \in Nat /\ k - 1 \in 1 .. Len(seqs) /\ k - 1 \notin Bad
    <3>1. k - 1 \in Nat /\ k - 1 \in 1 .. Len(seqs) /\ ~ (k <= k - 1)
      BY <1>3, <1>5
    <3> HIDE DEF Bad
    <3> QED
      BY <1>2, <3>1
  <2>2. PICK f : Flattens(f, seqs, k - 1)
    BY <2>1
  <2>3. PICK g : g = [i \in 1 .. k |-> IF i = k THEN f[k - 1] \o seqs[k] ELSE f[i]]
    OBVIOUS
  <2>4. \A i \in 1 .. k - 1 : g[i] = f[i]
    BY <1>3, <2>3
  <2>5. ASSUME NEW i \in 1 .. k
        PROVE  g[i] = IF i = 1 THEN seqs[i] ELSE g[i - 1] \o seqs[i]
    <3>1. CASE i = k
      <4>1. g[k - 1] = f[k - 1]
        BY <2>1, <2>4
      <4> QED
        BY <1>5, <2>3, <3>1, <4>1
    <3>2. CASE i # k
      <4>1. i \in 1 .. k - 1 /\ g[i] = f[i]
        BY <1>3, <2>3, <3>2
      <4>2. f[i] = IF i = 1 THEN seqs[i] ELSE f[i - 1] \o seqs[i]
        BY <2>2, <4>1 DEF Flattens
      <4>3. i # 1 => g[i - 1] = f[i - 1]
        <5>1. i # 1 => i - 1 \in 1 .. k - 1
          BY <1>3, <4>1
        <5> QED
          BY <2>4, <5>1
      <4> QED
        BY <4>1, <4>2, <4>3
    <3> QED
      BY <3>1, <3>2
  <2>6. PICK h : h = [i \in 1 .. k |-> IF i = 1 THEN seqs[i] ELSE g[i - 1] \o seqs[i]]
    OBVIOUS
  <2>7. g = h
    BY <2>3, <2>5, <2>6
  <2>8. Flattens(g, seqs, k)
    BY <2>6, <2>7 DEF Flattens
  <2> QED
    BY <1>3, <2>8
<1> QED
  BY <1>4, <1>5

\* What it says of the first k sequences has the elements of each.
LEMMA FlattenParts ==
    ASSUME NEW S, NEW seqs \in Seq(Seq(S)), NEW n \in 1 .. Len(seqs), NEW f, Flattens(f, seqs, n)
    PROVE  f[n] \in Seq(S) /\ \A i \in 1 .. n : Range(seqs[i]) \subseteq Range(f[n])
<1> DEFINE Good(k) == f[k] \in Seq(S) /\ \A i \in 1 .. k : Range(seqs[i]) \subseteq Range(f[k])
           Bad == {k \in Nat : k \in 1 .. n /\ ~Good(k)}
<1>1. SUFFICES ASSUME Bad # {} PROVE FALSE
  <2>1. n \in Nat /\ n \in 1 .. n
    OBVIOUS
  <2>2. ~Good(n) => n \in Bad
    BY <2>1
  <2> QED
    BY <2>2
<1>2. PICK k \in Bad : \A j \in Bad : k <= j
  <2>1. Bad \in SUBSET Nat
    OBVIOUS
  <2> HIDE DEF Bad
  <2> QED
    BY <1>1, <2>1, LeastOf
<1>3. k \in Nat /\ k \in 1 .. n /\ ~Good(k)
  BY <1>2
<1>4. f[k] = IF k = 1 THEN seqs[k] ELSE f[k - 1] \o seqs[k]
  BY <1>3 DEF Flattens
<1>5. seqs[k] \in Seq(S)
  BY <1>3
<1>6. CASE k = 1
  <2>1. f[k] = seqs[1] /\ 1 .. k = {1}
    BY <1>4, <1>6
  <2> QED
    BY <1>3, <1>5, <1>6, <2>1
<1>7. CASE k # 1
  <2>1. k - 1 \in Nat /\ k - 1 \in 1 .. n /\ k - 1 \notin Bad
    <3>1. k - 1 \in Nat /\ k - 1 \in 1 .. n /\ ~ (k <= k - 1)
      BY <1>3, <1>7
    <3> HIDE DEF Bad
    <3> QED
      BY <1>2, <3>1
  <2>2. Good(k - 1)
    BY <2>1
  <2>3. PICK before : before = f[k - 1]
    OBVIOUS
  <2>4. f[k] = before \o seqs[k] /\ before \in Seq(S)
    BY <1>4, <1>7, <2>2, <2>3
  <2>5. /\ f[k] \in Seq(S)
        /\ Range(before) \subseteq Range(f[k]) /\ Range(seqs[k]) \subseteq Range(f[k])
    BY <1>5, <2>4, Joined
  <2>6. ASSUME NEW i \in 1 .. k PROVE Range(seqs[i]) \subseteq Range(f[k])
    <3>1. i # k => i \in 1 .. k - 1
      BY <1>3
    <3> QED
      BY <2>2, <2>3, <2>5, <3>1
  <2> QED
    BY <1>3, <2>5, <2>6
<1> QED
  BY <1>6, <1>7

\* A flattened list has the elements of all its sequences.
LEMMA Flattened ==
    ASSUME NEW S, NEW seqs \in Seq(Seq(S))
    PROVE  /\ FlattenSeq(seqs) \in Seq(S)
           /\ \A i \in DOMAIN seqs : Range(seqs[i]) \subseteq Range(FlattenSeq(seqs))
<1>1. DOMAIN seqs = 1 .. Len(seqs) /\ Len(seqs) \in Nat
  OBVIOUS
<1>2. CASE Len(seqs) = 0
  <2>1. seqs = <<>> /\ FlattenSeq(seqs) = seqs
    BY <1>2 DEF FlattenSeq
  <2> QED
    BY <1>1, <1>2, <2>1, EmptySeq, 1 .. 0 = {}
<1>3. CASE Len(seqs) # 0
  <2> DEFINE n == Len(seqs)
  <2>1. n \in 1 .. Len(seqs)
    BY <1>1, <1>3
  <2> DEFINE flatten == CHOOSE f : f = [i \in 1 .. Len(seqs) |-> IF i = 1 THEN seqs[i] ELSE f[i - 1] \o seqs[i]]
  <2>2. FlattenSeq(seqs) = flatten[Len(seqs)]
    BY <1>3 DEF FlattenSeq
  <2>3. \E f : f = [i \in 1 .. Len(seqs) |-> IF i = 1 THEN seqs[i] ELSE f[i - 1] \o seqs[i]]
    BY <2>1, FlattenExists DEF Flattens
  <2>4. Flattens(flatten, seqs, n)
    BY <2>3 DEF Flattens
  <2> HIDE DEF flatten
  <2> QED
    BY <1>1, <2>1, <2>2, <2>4, FlattenParts
<1> QED
  BY <1>2, <1>3

-----------------------------------------------------------------------------
(* The invariant *)

\* The five sources.
LEMMA NamesAre == Names = {"readiness", "dashboard", "experiments", "status", "provenance"}
<1>1. DOMAIN Order = 1 .. 5
  BY DEF Order
<1>2. /\ Order[1] = "readiness" /\ Order[2] = "dashboard" /\ Order[3] = "experiments"
      /\ Order[4] = "status" /\ Order[5] = "provenance"
  BY DEF Order
<1>3. \A i \in 1 .. 5 : i = 1 \/ i = 2 \/ i = 3 \/ i = 4 \/ i = 5
  OBVIOUS
<1> QED
  BY <1>1, <1>2, <1>3 DEF Names, Range

Phases == {"reading", "refused", "stored", "failed", "assembled", "accepted", "rejected"}

\* What is there is of its type. The dashboard is composed while the sources are read, before it
\* is read itself.
ReviewTypeOK ==
    /\ world \in World
    /\ sources \in [Names -> Reading]
    /\ phase \in Phases
    /\ page # <<>> => page[1] \in World /\ phase = "reading" /\ sources["dashboard"].state = "unread"

\* Every reading is of a configuration the deployment still has, in a generation it has had; a
\* dashboard that shows a running clock states the generation in which it started.
ReadingsOK ==
    /\ world.started => world.gen \in clocks
    /\ \A n \in Names : sources[n].of.rows = world.rows /\ (Available(sources, n) => sources[n].gen # 0)
    /\ Available(sources, "dashboard") /\ sources["dashboard"].of.started =>
            sources["dashboard"].gen \in clocks

\* A snapshot that is stored has read every source and states one generation, and a review that
\* was accepted was validated.
ReviewInv ==
    /\ ReviewTypeOK
    /\ ReadingsOK
    /\ phase # "reading" => \A n \in Names : sources[n].state # "unread"
    /\ phase \notin {"reading", "refused"} => ~Mixed(sources)
    /\ phase = "accepted" => Accepts(review[1], sources)

\* The fields of a deployment.
LEMMA WorldFields ==
    ASSUME NEW w \in World
    PROVE  /\ w.gen \in 1 .. MaxGen /\ w.gen # 0 /\ w.started \in BOOLEAN /\ w.rows \in [Configs -> Row]
           /\ w.gen < MaxGen =>
                LET next == [w EXCEPT !.gen = @ + 1, !.started = FALSE, !.measurable = FALSE]
                IN  next \in World /\ next.gen = w.gen + 1 /\ next.started = FALSE /\ next.rows = w.rows
           /\ LET next == [w EXCEPT !.started = TRUE]
              IN  next \in World /\ next.gen = w.gen /\ next.started = TRUE /\ next.rows = w.rows
           /\ LET next == [w EXCEPT !.rev = 2]
              IN  next \in World /\ next.gen = w.gen /\ next.started = w.started /\ next.rows = w.rows
<1>1. /\ w.gen \in 1 .. MaxGen /\ w.started \in BOOLEAN /\ w.rows \in [Configs -> Row] /\ MaxGen \in Nat
  BY ReviewAssumption DEF World
<1>2. w.gen # 0
  BY <1>1
<1>3. ASSUME w.gen < MaxGen
      PROVE  LET next == [w EXCEPT !.gen = @ + 1, !.started = FALSE, !.measurable = FALSE]
             IN  next \in World /\ next.gen = w.gen + 1 /\ next.started = FALSE /\ next.rows = w.rows
  <2>1. w.gen + 1 \in 1 .. MaxGen
    BY <1>1, <1>3
  <2> QED
    BY <2>1 DEF World
<1>4. LET next == [w EXCEPT !.started = TRUE]
      IN  next \in World /\ next.gen = w.gen /\ next.started = TRUE /\ next.rows = w.rows
  BY DEF World
<1>5. LET next == [w EXCEPT !.rev = 2]
      IN  next \in World /\ next.gen = w.gen /\ next.started = w.started /\ next.rows = w.rows
  BY DEF World
<1> QED
  BY <1>1, <1>2, <1>3, <1>4, <1>5

\* The deployment as it is, with the health it had when the page was opened.
LEMMA HealthyWorld ==
    ASSUME NEW w \in World, NEW h \in BOOLEAN, NEW next, next = [w EXCEPT !.healthy = h]
    PROVE  next \in World /\ next.gen = w.gen /\ next.started = w.started /\ next.rows = w.rows
BY DEF World

\* A reading that is taken of the deployment as it is, or of its page.
LEMMA TakenReading ==
    ASSUME ReviewTypeOK, ReadingsOK, NEW n \in Names, NEW w \in World,
           NEW state \in {"live", "stale", "unavailable"},
           NEW gen \in 0 .. MaxGen, w.rows = world.rows, Take(n, state, gen, w), UNCHANGED <<world, clocks>>,
           state # "unavailable" => gen # 0 /\ (n = "dashboard" /\ w.started => gen \in clocks)
    PROVE  sources' \in [Names -> Reading] /\ ReadingsOK'
           /\ \A m \in Names \ {n} : sources'[m] = sources[m]
<1>1. PICK new : new = [state |-> state, of |-> w, gen |-> IF state = "unavailable" THEN 0 ELSE gen]
  OBVIOUS
<1>2. sources' = [sources EXCEPT ![n] = new]
  BY <1>1 DEF Take
<1>3. MaxGen \in Nat
  BY ReviewAssumption
<1>4. new \in Reading /\ new.state = state /\ new.of = w /\ (state # "unavailable" => new.gen = gen)
  BY <1>1, <1>3 DEF Reading
<1>5. sources' \in [Names -> Reading] /\ sources'[n] = new /\ \A m \in Names \ {n} : sources'[m] = sources[m]
  BY <1>2, <1>4 DEF ReviewTypeOK
<1>6. Available(sources', n) <=> state # "unavailable"
  BY <1>3, <1>4, <1>5 DEF Available
<1>7. \A m \in Names \ {n} : Available(sources', m) <=> Available(sources, m)
  BY <1>5 DEF Available
<1>8. \A m \in Names : sources'[m].of.rows = world'.rows /\ (Available(sources', m) => sources'[m].gen # 0)
  BY <1>4, <1>5, <1>6, <1>7 DEF ReadingsOK
<1>9. "dashboard" \in Names
  BY NamesAre
<1>10. Available(sources', "dashboard") /\ sources'["dashboard"].of.started =>
            sources'["dashboard"].gen \in clocks'
  <2>1. CASE n = "dashboard"
    BY <1>4, <1>5, <1>6, <2>1
  <2>2. CASE n # "dashboard"
    BY <1>5, <1>7, <1>9, <2>2 DEF ReadingsOK
  <2> QED
    BY <2>1, <2>2
<1>11. world'.started => world'.gen \in clocks'
  BY DEF ReadingsOK
<1>12. ReadingsOK'
  BY <1>8, <1>10, <1>11 DEF ReadingsOK, Available
<1> QED
  BY <1>5, <1>12

\* The next source is one that was not read.
LEMMA NextIsUnread ==
    ASSUME ReviewTypeOK, Unread # {}
    PROVE  NextSource \in Names /\ sources[NextSource].state = "unread"
<1>1. Unread \in SUBSET Nat
  BY DEF Unread
<1>2. PICK k \in Unread : \A j \in Unread : k <= j
  BY <1>1, LeastOf
<1> DEFINE i == CHOOSE m \in Unread : \A j \in Unread : m =< j
<1>3. i \in Unread
  BY <1>2
<1>4. NextSource = Order[i]
  BY DEF NextSource
<1> HIDE DEF i
<1>5. i \in 1 .. 5 /\ sources[Order[i]].state = "unread"
  BY <1>3 DEF Unread
<1>6. DOMAIN Order = 1 .. 5
  BY DEF Order
<1> QED
  BY <1>4, <1>5, <1>6 DEF Names, Range

\* The deployment moves on while the sources are read.
LEMMA DeploymentKeeps ==
    ASSUME ReviewInv, Reset \/ StartOfficial \/ Deploy
    PROVE  ReviewInv'
<1>1. UNCHANGED <<page, sources, phase, review>> /\ phase = "reading"
  BY DEF Reset, StartOfficial, Deploy
<1>2. world \in World /\ world.started \in BOOLEAN
  BY WorldFields DEF ReviewInv, ReviewTypeOK
<1>3. /\ world' \in World /\ world'.rows = world.rows /\ clocks \subseteq clocks'
      /\ world'.started => world'.gen \in clocks'
  <2>1. CASE Reset
    <3>1. /\ world' = [world EXCEPT !.gen = @ + 1, !.started = FALSE, !.measurable = FALSE]
          /\ world.gen < MaxGen /\ clocks' = clocks
      BY <2>1 DEF Reset
    <3>2. world' \in World /\ world'.rows = world.rows /\ world'.started = FALSE
      BY <1>2, <3>1, WorldFields
    <3> QED
      BY <3>1, <3>2
  <2>2. CASE StartOfficial
    <3>1. world' = [world EXCEPT !.started = TRUE] /\ clocks' = clocks \cup {world.gen}
      BY <2>2 DEF StartOfficial
    <3>2. world' \in World /\ world'.rows = world.rows /\ world'.gen = world.gen
      BY <1>2, <3>1, WorldFields
    <3> QED
      BY <3>1, <3>2
  <2>3. CASE Deploy
    <3>1. world' = [world EXCEPT !.rev = 2] /\ clocks' = clocks
      BY <2>3 DEF Deploy
    <3>2. /\ world' \in World /\ world'.rows = world.rows
          /\ world'.gen = world.gen /\ world'.started = world.started
      BY <1>2, <3>1, WorldFields
    <3> QED
      BY <3>1, <3>2 DEF ReviewInv, ReadingsOK
  <2> QED
    BY <2>1, <2>2, <2>3
<1>4. ReviewTypeOK'
  BY <1>1, <1>3 DEF ReviewInv, ReviewTypeOK
<1>5. ReadingsOK'
  BY <1>1, <1>3 DEF ReviewInv, ReadingsOK, Available
<1> QED
  BY <1>1, <1>4, <1>5 DEF ReviewInv

\* A source is read as it is now.
LEMMA ReadKeeps == ASSUME ReviewInv, ReadSource PROVE ReviewInv'
<1>1. UNCHANGED <<world, clocks, page, phase, review>> /\ phase = "reading" /\ NextSource # "dashboard"
  BY DEF ReadSource
<1>2. NextSource \in Names /\ ReviewTypeOK /\ ReadingsOK /\ world \in World
  BY NextIsUnread DEF ReadSource, ReviewInv, ReviewTypeOK
<1>3. PICK state \in SourceStates : Take(NextSource, state, world.gen, world)
  BY DEF ReadSource
<1>4. state \in {"live", "stale", "unavailable"} /\ world.gen \in 0 .. MaxGen /\ world.gen # 0
  <2>1. state \in {"live", "stale", "unavailable"} /\ MaxGen \in Nat
    BY ReviewAssumption
  <2>2. world.gen \in 1 .. MaxGen
    BY <1>2, WorldFields
  <2> QED
    BY <2>1, <2>2
<1>5. /\ sources' \in [Names -> Reading] /\ ReadingsOK'
      /\ \A m \in Names \ {NextSource} : sources'[m] = sources[m]
  BY <1>1, <1>2, <1>3, <1>4, TakenReading
<1>6. sources'["dashboard"] = sources["dashboard"]
  BY <1>1, <1>5, NamesAre
<1>7. ReviewTypeOK'
  BY <1>1, <1>2, <1>5, <1>6 DEF ReviewTypeOK
<1> QED
  BY <1>1, <1>5, <1>7 DEF ReviewInv

\* The dashboard names the generation in which all of it was composed.
LEMMA DashboardKeeps ==
    ASSUME ReviewInv, OpenDashboard \/ ServeDashboard
    PROVE  ReviewInv'
<1>1. UNCHANGED <<world, clocks, phase, review>> /\ phase = "reading"
  BY DEF OpenDashboard, ServeDashboard, ReviewInv, ReviewTypeOK
<1>2. ReviewTypeOK /\ ReadingsOK /\ world \in World /\ "dashboard" \in Names
  BY NamesAre DEF ReviewInv, ReviewTypeOK
<1>3. world.gen \in 0 .. MaxGen /\ world.gen # 0 /\ 0 \in 0 .. MaxGen
  <2>1. MaxGen \in Nat
    BY ReviewAssumption
  <2>2. world.gen \in 1 .. MaxGen
    BY <1>2, WorldFields
  <2> QED
    BY <2>1, <2>2
<1>4. CASE OpenDashboard
  <2>1. page' = <<world>> /\ UNCHANGED sources /\ sources["dashboard"].state = "unread"
    BY <1>2, <1>4, NextIsUnread DEF OpenDashboard
  <2>2. page'[1] = world
    BY <2>1
  <2>3. ReviewTypeOK'
    BY <1>1, <1>2, <2>1, <2>2 DEF ReviewTypeOK
  <2>4. ReadingsOK'
    BY <1>1, <1>2, <2>1 DEF ReadingsOK, Available
  <2> QED
    BY <1>1, <2>3, <2>4 DEF ReviewInv
<1>5. CASE ServeDashboard
  <2>1. page' = <<>>
    BY <1>5 DEF ServeDashboard
  <2>2. sources' \in [Names -> Reading] /\ ReadingsOK'
    <3>1. CASE SameToken
      <4>1. PICK state \in SourceStates :
                Take("dashboard", state, page[1].gen, [world EXCEPT !.healthy = page[1].healthy])
        BY <1>5, <3>1 DEF ServeDashboard
      <4>2. page[1] \in World /\ page[1].gen = world.gen
        BY <1>2, <1>5, <3>1 DEF ReviewTypeOK, ServeDashboard, SameToken
      <4>3. page[1].healthy \in BOOLEAN
        BY <4>2 DEF World
      <4>4. PICK w : w = [world EXCEPT !.healthy = page[1].healthy]
        OBVIOUS
      <4>5. w \in World /\ w.gen = world.gen /\ w.started = world.started /\ w.rows = world.rows
        BY <1>2, <4>3, <4>4, HealthyWorld
      <4>6. Take("dashboard", state, world.gen, w)
        BY <4>1, <4>2, <4>4
      <4>7. w.started => world.gen \in clocks
        BY <1>2, <4>5 DEF ReadingsOK
      <4>8. state \in {"live", "stale", "unavailable"}
        BY ReviewAssumption
      <4> QED
        BY <1>1, <1>2, <1>3, <4>5, <4>6, <4>7, <4>8, TakenReading
    <3>2. CASE ~SameToken /\ retried
      <4>1. Take("dashboard", "unavailable", 0, world)
        BY <1>5, <3>2 DEF ServeDashboard
      <4> QED
        BY <1>1, <1>2, <1>3, <4>1, TakenReading
    <3>3. CASE ~SameToken /\ ~retried
      <4>1. UNCHANGED sources
        BY <1>5, <3>3 DEF ServeDashboard
      <4> QED
        BY <1>1, <1>2, <4>1 DEF ReviewTypeOK, ReadingsOK, Available
    <3> QED
      BY <3>1, <3>2, <3>3
  <2>3. ReviewTypeOK'
    BY <1>1, <1>2, <2>1, <2>2 DEF ReviewTypeOK
  <2> QED
    BY <1>1, <2>2, <2>3 DEF ReviewInv
<1> QED
  BY <1>4, <1>5

\* A snapshot of two generations is not stored.
LEMMA AssembleKeeps == ASSUME ReviewInv, AssembleSnapshot PROVE ReviewInv'
<1>1. /\ UNCHANGED <<world, clocks, page, sources, review>> /\ phase = "reading" /\ Unread = {}
      /\ phase' = IF Mixed(sources) THEN "refused" ELSE "stored"
  BY DEF AssembleSnapshot
<1>2. page = <<>>
  <2>1. Order[2] = "dashboard" /\ 2 \in 1 .. 5
    BY DEF Order
  <2>2. sources["dashboard"].state # "unread"
    BY <1>1, <2>1 DEF Unread
  <2> QED
    BY <2>2 DEF ReviewInv, ReviewTypeOK
<1>3. ReviewTypeOK'
  BY <1>1, <1>2 DEF ReviewInv, ReviewTypeOK, Phases
<1>4. ReadingsOK'
  BY <1>1 DEF ReviewInv, ReadingsOK, Available
<1>5. \A n \in Names : sources'[n].state # "unread"
  <2>1. DOMAIN Order = 1 .. 5
    BY DEF Order
  <2>2. \A i \in 1 .. 5 : sources[Order[i]].state # "unread"
    BY <1>1 DEF Unread
  <2> QED
    BY <1>1, <2>1, <2>2 DEF Names, Range
<1> QED
  BY <1>1, <1>3, <1>4, <1>5 DEF ReviewInv

\* The bridge and the journal's validation read what is stored.
LEMMA BridgeKeeps ==
    ASSUME ReviewInv, RaiseClaim \/ AssembleReview \/ Rewrite \/ Upload
    PROVE  ReviewInv'
<1>1. /\ UNCHANGED <<world, clocks, page, sources>> /\ phase \in {"stored", "assembled"}
      /\ phase' \in {"stored", "failed", "assembled", "accepted", "rejected"}
      /\ phase' = "accepted" => UNCHANGED review /\ Accepts(review[1], sources)
  <2>1. CASE RaiseClaim
    <3>1. /\ UNCHANGED <<world, clocks, page, sources>> /\ phase = "stored"
          /\ \E claim \in Claims(sources) : UNCHANGED phase \/ phase' = "failed"
      BY <2>1 DEF RaiseClaim
    <3> QED
      BY <3>1
  <2>2. CASE AssembleReview
    BY <2>2 DEF AssembleReview
  <2>3. CASE Rewrite
    BY <2>3 DEF Rewrite
  <2>4. CASE Upload
    BY <2>4 DEF Upload
  <2> QED
    BY <2>1, <2>2, <2>3, <2>4
<1>2. ReviewTypeOK'
  BY <1>1 DEF ReviewInv, ReviewTypeOK, Phases
<1>3. ReadingsOK'
  BY <1>1 DEF ReviewInv, ReadingsOK, Available
<1>4. ~Mixed(sources)'
  BY <1>1 DEF ReviewInv
<1>5. phase' = "accepted" => Accepts(review[1], sources)'
  BY <1>1
<1> QED
  BY <1>1, <1>2, <1>3, <1>4, <1>5 DEF ReviewInv

\* Nothing is read before the start.
LEMMA ReviewStart == Init => ReviewInv
<1> SUFFICES ASSUME Init PROVE ReviewInv
  OBVIOUS
<1>1. /\ world \in World /\ clocks = (IF world.started THEN {world.gen} ELSE {})
      /\ page = <<>> /\ phase = "reading"
      /\ sources = [n \in Names |-> [state |-> "unread", gen |-> 0, of |-> world]]
  BY ReviewAssumption DEF Init
<1>2. sources \in [Names -> Reading]
  <2>1. PICK new : new = [state |-> "unread", gen |-> 0, of |-> world]
    OBVIOUS
  <2>2. new \in Reading
    BY <1>1, <2>1, ReviewAssumption DEF Reading
  <2> QED
    BY <1>1, <2>1, <2>2
<1>3. \A n \in Names : sources[n].of = world /\ ~Available(sources, n)
  BY <1>1 DEF Available
<1>4. "dashboard" \in Names
  BY NamesAre
<1>5. ReadingsOK
  BY <1>1, <1>3, <1>4 DEF ReadingsOK
<1>6. ReviewTypeOK
  BY <1>1, <1>2 DEF ReviewTypeOK, Phases
<1> QED
  BY <1>1, <1>5, <1>6 DEF ReviewInv

\* The invariant holds in every state of every behaviour.
LEMMA ReviewAlways == Spec => []ReviewInv
<1>1. ReviewInv /\ [Next]_vars => ReviewInv'
  <2> SUFFICES ASSUME ReviewInv, [Next]_vars PROVE ReviewInv'
    OBVIOUS
  <2>1. CASE Next
    BY <2>1, DeploymentKeeps, ReadKeeps, DashboardKeeps, AssembleKeeps, BridgeKeeps DEF Next
  <2>2. CASE UNCHANGED vars
    <3>1. UNCHANGED <<world, clocks, page, sources, phase, review>>
      BY <2>2 DEF vars
    <3>2. ReviewTypeOK'
      BY <3>1 DEF ReviewInv, ReviewTypeOK
    <3>3. ReadingsOK'
      BY <3>1 DEF ReviewInv, ReadingsOK, Available
    <3> QED
      BY <3>1, <3>2, <3>3 DEF ReviewInv
  <2> QED
    BY <2>1, <2>2
<1> QED
  BY <1>1, ReviewStart, PTL DEF Spec

-----------------------------------------------------------------------------
(* What a snapshot says *)

\* A set that has an element and not more than one.
LEMMA OnlyOne ==
    ASSUME NEW S, IsFiniteSet(S), S # {}, ~ (Cardinality(S) > 1)
    PROVE  \E v : S = {v}
<1>1. Cardinality(S) \in Nat /\ Cardinality(S) # 0
  BY FS_CardinalityType, FS_EmptySet
<1>2. Cardinality(S) = 1
  BY <1>1
<1> QED
  BY <1>2, FS_Singleton

\* A snapshot that is not mixed states the generation of each of its sources.
LEMMA OneGeneration ==
    ASSUME ReviewTypeOK, ReadingsOK, ~Mixed(sources), NEW n \in Names, Available(sources, n)
    PROVE  AgreedGeneration(sources) = sources[n].gen
<1> DEFINE gens == Generations(sources)
<1>1. sources[n].gen \in gens
  BY DEF Generations, ReadingsOK
<1>2. IsFiniteSet(gens)
  <2>1. \A m \in Names : sources[m].gen \in 0 .. MaxGen
    BY DEF ReviewTypeOK, Reading
  <2>2. gens \subseteq 0 .. MaxGen
    BY <2>1 DEF Generations
  <2>3. IsFiniteSet(0 .. MaxGen)
    BY FS_Interval, ReviewAssumption
  <2> QED
    BY <2>2, <2>3, FS_Subset
<1>3. PICK g : gens = {g}
  <2>1. ~ (Cardinality(gens) > 1)
    BY DEF Mixed
  <2> HIDE DEF gens
  <2> QED
    BY <1>1, <1>2, <2>1, OnlyOne
<1> QED
  BY <1>1, <1>3 DEF AgreedGeneration

(***************************************************************************)
(* A stored snapshot is of one experiment: a clock that its dashboard      *)
(* shows running did start in the generation the snapshot names, whatever  *)
(* resets and deploys cross the reads (experiment_snapshot.go:171,         *)
(* paper/dashboard.go:92).                                                 *)
(***************************************************************************)
THEOREM ReviewsSnapshotIsOfOneExperiment == Spec => []SnapshotIsOfOneExperiment
<1>1. ReviewInv => SnapshotIsOfOneExperiment
  <2> SUFFICES ASSUME ReviewInv, phase \notin {"reading", "refused"},
                      PaperStatus(sources).value # "unjudged"
               PROVE  AgreedGeneration(sources) \in clocks
    BY DEF SnapshotIsOfOneExperiment
  <2>1. Available(sources, "dashboard")
    BY DEF PaperStatus
  <2>2. sources["dashboard"].of.started
    BY <2>1 DEF PaperStatus
  <2>3. sources["dashboard"].gen \in clocks
    BY <2>1, <2>2 DEF ReviewInv, ReadingsOK
  <2>4. "dashboard" \in Names
    BY NamesAre
  <2> QED
    BY <2>1, <2>3, <2>4, OneGeneration DEF ReviewInv
<1> QED
  BY <1>1, ReviewAlways, PTL

\* The order of the candidate statuses.
LEMMA Ranks ==
    /\ Rank("unknown") = 1 /\ Rank("inconclusive") = 2 /\ Rank("no_edge") = 3 /\ Rank("edge") = 4
<1>1. /\ Ranked[1] = "unknown" /\ Ranked[2] = "inconclusive" /\ Ranked[3] = "no_edge" /\ Ranked[4] = "edge"
  BY DEF Ranked
<1>2. \A i \in 1 .. 4 : i = 1 \/ i = 2 \/ i = 3 \/ i = 4
  OBVIOUS
<1> QED
  BY <1>1, <1>2 DEF Rank

\* Of statuses, the least established is one of them, and below each of them.
LEMMA LeastIsLeast ==
    ASSUME NEW vs \in SUBSET {"unknown", "inconclusive", "no_edge", "edge"}, vs # {}
    PROVE  LeastEstablished(vs) \in vs /\ \A u \in vs : Rank(LeastEstablished(vs)) =< Rank(u)
<1> DEFINE ranks == {Rank(v) : v \in vs}
<1>1. ranks \in SUBSET Nat /\ ranks # {}
  <2>1. \A v \in {"unknown", "inconclusive", "no_edge", "edge"} : Rank(v) \in Nat
    BY Ranks
  <2> QED
    BY <2>1
<1>2. PICK x \in ranks : \A y \in ranks : x <= y
  <2> HIDE DEF ranks
  <2> QED
    BY <1>1, LeastOf
<1>3. PICK v \in vs : x = Rank(v)
  BY <1>2
<1>4. \A u \in vs : Rank(v) =< Rank(u)
  BY <1>2, <1>3
<1> QED
  BY <1>3, <1>4 DEF LeastEstablished

\* A configuration that demotes nothing has earned its edge.
LEMMA NotDemoted ==
    ASSUME NEW row
    PROVE  /\ RowDemotions(row) \subseteq {"unknown", "inconclusive", "no_edge"}
           /\ RowDemotions(row) = {} => Earned(row)
BY DEF RowDemotions, Earned, Tainted

(***************************************************************************)
(* `edge` is earned: an accepted review says it only of a deployment whose *)
(* every configuration was read live, on real data, with an EDGE verdict   *)
(* that is current and has its evidence (experiment_snapshot.go:615-617).  *)
(***************************************************************************)
THEOREM ReviewsEdgeIsEarned == Spec => []EdgeIsEarned
<1>1. ReviewInv => EdgeIsEarned
  <2> SUFFICES ASSUME ReviewInv, phase = "accepted", review[1].candidate.value = "edge", NEW c \in Configs
               PROVE  Earned(world.rows[c])
    BY DEF EdgeIsEarned
  <2>1. CandidateStatus(sources).value = "edge"
    BY DEF ReviewInv, Accepts, StatusHolds
  <2>2. Available(sources, "provenance") /\ "provenance" \in Names
    BY <2>1, NamesAre DEF CandidateStatus
  <2>3. RowsOf(sources) = world.rows
    BY <2>2 DEF RowsOf, ReviewInv, ReadingsOK
  <2> DEFINE vs == {"edge"} \cup UNION {RowDemotions(world.rows[d]) : d \in Configs}
  <2>4. LeastEstablished(vs) = "edge"
    BY <2>1, <2>2, <2>3 DEF CandidateStatus
  <2>5. vs \in SUBSET {"unknown", "inconclusive", "no_edge", "edge"} /\ vs # {}
    BY NotDemoted
  <2>6. \A u \in RowDemotions(world.rows[c]) : u \in vs
    OBVIOUS
  <2> HIDE DEF vs
  <2>7. \A u \in vs : Rank("edge") =< Rank(u)
    BY <2>4, <2>5, LeastIsLeast
  <2>8. RowDemotions(world.rows[c]) = {}
    BY <2>6, <2>7, Ranks, NotDemoted
  <2> QED
    BY <2>8, NotDemoted
<1> QED
  BY <1>1, ReviewAlways, PTL

-----------------------------------------------------------------------------
(* The mandatory blockers *)

\* What a blocker of a snapshot says, and the fields it may cite.
BlockerCodes ==
    {"source-unavailable", "source-stale", "mixed-revision", "clock-not-started",
     "integrity-degraded", "store-desync", "readiness-blocked", "evidence-not-current",
     "no-evaluator-verdict", "strategy-version-mismatch", "synthetic-frame",
     "synthetic-trained-model", "unrecognised-verdict", "verdict-inconclusive",
     "verdict-not-edge", "verdict-suspect"}
FieldNames ==
    {"availability", "trainedOnSynthetic", "currentData", "currentData.synthetic", "evaluation",
     "evaluation.evidenceCurrent", "evaluation.current", "evaluation.strategyVersion",
     "evaluation.verdict", "state", "reason", "reportedAsOf", "officialStartedAt", "clock",
     "integrity", "integrityReasons", "desyncedConfigs", "pendingBookings", "ready", "blockers"}
Fields == {<<"revision">>} \cup {Path(n, f) : n \in Names, f \in FieldNames}
                           \cup {Of(f, c) : f \in FieldNames, c \in Configs}
AnyBlocker == {Blocker(code, paths) : code \in BlockerCodes, paths \in SUBSET Fields}

\* An element alone is a sequence.
LEMMA Single == ASSUME NEW S, NEW b \in S PROVE <<b>> \in Seq(S) /\ Range(<<b>>) = {b}
<1>1. <<b>>[1] = b /\ DOMAIN <<b>> = 1 .. 1
  OBVIOUS
<1>2. Range(<<b>>) = {b}
  BY <1>1 DEF Range
<1> QED
  BY <1>2

\* A blocker alone is a list of blockers.
LEMMA OneBlocker ==
    ASSUME NEW code \in BlockerCodes, NEW paths \in SUBSET Fields, NEW b, b = Blocker(code, paths)
    PROVE  <<b>> \in Seq(AnyBlocker) /\ Range(<<b>>) = {b}
<1>1. b \in AnyBlocker
  BY DEF AnyBlocker
<1> QED
  BY <1>1, Single

\* What is said of a configuration cites the field it is about.
LEMMA RowIsNamed ==
    ASSUME NEW row, NEW c \in Configs
    PROVE  /\ RowBlockers(row, c) \in Seq(AnyBlocker)
           /\ ~row.live =>
                Blocker("no-evaluator-verdict", {Of("availability", c)}) \in Range(RowBlockers(row, c))
           /\ row.live /\ row.trained # "clean" =>
                Blocker("synthetic-trained-model", {Of("trainedOnSynthetic", c)}) \in Range(RowBlockers(row, c))
           /\ row.live /\ row.verdict = "NO EDGE" =>
                Blocker("verdict-not-edge", {Of("evaluation.verdict", c)}) \in Range(RowBlockers(row, c))
           /\ row.live /\ row.verdict = "SUSPECT" =>
                Blocker("verdict-suspect", {Of("evaluation.verdict", c)}) \in Range(RowBlockers(row, c))
<1> DEFINE judged == row.live /\ row.verdict # "none"
<1>0. <<>> \in Seq(AnyBlocker)
  BY EmptySeq
<1>1. PICK b1 : b1 = Blocker("no-evaluator-verdict", {Of(f, c) : f \in {"availability"}})
  OBVIOUS
<1>2. PICK a1 : a1 = IF ~row.live THEN <<b1>> ELSE <<>>
  OBVIOUS
<1>3. PICK b2 : b2 = Blocker("synthetic-trained-model", {Of(f, c) : f \in {"trainedOnSynthetic"}})
  OBVIOUS
<1>4. PICK a2 : a2 = IF row.live /\ row.trained # "clean" THEN <<b2>> ELSE <<>>
  OBVIOUS
<1>5. PICK b3 : b3 = Blocker("synthetic-frame", {Of(f, c) : f \in {"currentData"}})
  OBVIOUS
<1>6. PICK a3 : a3 = IF row.live /\ row.frame = "unstated" THEN <<b3>> ELSE <<>>
  OBVIOUS
<1>7. PICK b4 : b4 = Blocker("synthetic-frame", {Of(f, c) : f \in {"currentData.synthetic"}})
  OBVIOUS
<1>8. PICK a4 : a4 = IF row.live /\ row.frame = "synthetic" THEN <<b4>> ELSE <<>>
  OBVIOUS
<1>9. PICK b5 : b5 = Blocker("no-evaluator-verdict", {Of(f, c) : f \in {"evaluation"}})
  OBVIOUS
<1>10. PICK a5 : a5 = IF row.live /\ row.verdict = "none" THEN <<b5>> ELSE <<>>
  OBVIOUS
<1>11. PICK b6 : b6 = Blocker("evidence-not-current", {Of(f, c) : f \in {"evaluation.evidenceCurrent"}})
  OBVIOUS
<1>12. PICK a6 : a6 = IF judged /\ row.verdict = "EDGE" /\ ~row.evidence THEN <<b6>> ELSE <<>>
  OBVIOUS
<1>13. PICK b7 : b7 = Blocker("strategy-version-mismatch",
                              {Of(f, c) : f \in {"evaluation.current", "evaluation.strategyVersion"}})
  OBVIOUS
<1>14. PICK a7 : a7 = IF judged /\ row.verdict = "EDGE" /\ ~row.current THEN <<b7>> ELSE <<>>
  OBVIOUS
<1>15. PICK b8 : b8 = Blocker("verdict-not-edge", {Of(f, c) : f \in {"evaluation.verdict"}})
  OBVIOUS
<1>16. PICK a8 : a8 = IF judged /\ row.verdict = "NO EDGE" THEN <<b8>> ELSE <<>>
  OBVIOUS
<1>17. PICK b9 : b9 = Blocker("verdict-inconclusive", {Of(f, c) : f \in {"evaluation.verdict"}})
  OBVIOUS
<1>18. PICK a9 : a9 = IF judged /\ row.verdict = "INCONCLUSIVE" THEN <<b9>> ELSE <<>>
  OBVIOUS
<1>19. PICK b10 : b10 = Blocker("verdict-suspect", {Of(f, c) : f \in {"evaluation.verdict"}})
  OBVIOUS
<1>20. PICK a10 : a10 = IF judged /\ row.verdict = "SUSPECT" THEN <<b10>> ELSE <<>>
  OBVIOUS
<1>21. PICK b11 : b11 = Blocker("no-evaluator-verdict", {Of(f, c) : f \in {"evaluation.verdict"}})
  OBVIOUS
<1>22. PICK a11 : a11 = IF judged /\ row.verdict = "" THEN <<b11>> ELSE <<>>
  OBVIOUS
<1>23. PICK b12 : b12 = Blocker("unrecognised-verdict", {Of(f, c) : f \in {"evaluation.verdict"}})
  OBVIOUS
<1>24. PICK a12 : a12 = IF judged /\ row.verdict = "other" THEN <<b12>> ELSE <<>>
  OBVIOUS
<1>25. RowBlockers(row, c) = a1 \o a2 \o a3 \o a4 \o a5 \o a6 \o a7 \o a8 \o a9 \o a10 \o a11 \o a12
  BY <1>1, <1>2, <1>3, <1>4, <1>5, <1>6, <1>7, <1>8, <1>9, <1>10, <1>11, <1>12,
     <1>13, <1>14, <1>15, <1>16, <1>17, <1>18, <1>19, <1>20, <1>21, <1>22, <1>23, <1>24, ZenonT(60) DEF RowBlockers, Given
<1>26. \A f : {Of(g, c) : g \in {f}} = {Of(f, c)}
  OBVIOUS
<1>27. a1 \in Seq(AnyBlocker) /\ (~row.live => b1 \in Range(a1))
  <2>1. {Of(f, c) : f \in {"availability"}} \in SUBSET Fields
    <3>1. {"availability"} \in SUBSET FieldNames
      BY DEF FieldNames
    <3> QED
      BY <3>1 DEF Fields
  <2>2. <<b1>> \in Seq(AnyBlocker) /\ Range(<<b1>>) = {b1}
    <3>1. "no-evaluator-verdict" \in BlockerCodes
      BY DEF BlockerCodes
    <3> QED
      BY <1>1, <2>1, <3>1, OneBlocker
  <2> QED
    BY <1>0, <1>2, <2>2
<1>28. a2 \in Seq(AnyBlocker) /\ (row.live /\ row.trained # "clean" => b2 \in Range(a2))
  <2>1. {Of(f, c) : f \in {"trainedOnSynthetic"}} \in SUBSET Fields
    <3>1. {"trainedOnSynthetic"} \in SUBSET FieldNames
      BY DEF FieldNames
    <3> QED
      BY <3>1 DEF Fields
  <2>2. <<b2>> \in Seq(AnyBlocker) /\ Range(<<b2>>) = {b2}
    <3>1. "synthetic-trained-model" \in BlockerCodes
      BY DEF BlockerCodes
    <3> QED
      BY <1>3, <2>1, <3>1, OneBlocker
  <2> QED
    BY <1>0, <1>4, <2>2
<1>29. a3 \in Seq(AnyBlocker) /\ (row.live /\ row.frame = "unstated" => b3 \in Range(a3))
  <2>1. {Of(f, c) : f \in {"currentData"}} \in SUBSET Fields
    <3>1. {"currentData"} \in SUBSET FieldNames
      BY DEF FieldNames
    <3> QED
      BY <3>1 DEF Fields
  <2>2. <<b3>> \in Seq(AnyBlocker) /\ Range(<<b3>>) = {b3}
    <3>1. "synthetic-frame" \in BlockerCodes
      BY DEF BlockerCodes
    <3> QED
      BY <1>5, <2>1, <3>1, OneBlocker
  <2> QED
    BY <1>0, <1>6, <2>2
<1>30. a4 \in Seq(AnyBlocker) /\ (row.live /\ row.frame = "synthetic" => b4 \in Range(a4))
  <2>1. {Of(f, c) : f \in {"currentData.synthetic"}} \in SUBSET Fields
    <3>1. {"currentData.synthetic"} \in SUBSET FieldNames
      BY DEF FieldNames
    <3> QED
      BY <3>1 DEF Fields
  <2>2. <<b4>> \in Seq(AnyBlocker) /\ Range(<<b4>>) = {b4}
    <3>1. "synthetic-frame" \in BlockerCodes
      BY DEF BlockerCodes
    <3> QED
      BY <1>7, <2>1, <3>1, OneBlocker
  <2> QED
    BY <1>0, <1>8, <2>2
<1>31. a5 \in Seq(AnyBlocker) /\ (row.live /\ row.verdict = "none" => b5 \in Range(a5))
  <2>1. {Of(f, c) : f \in {"evaluation"}} \in SUBSET Fields
    <3>1. {"evaluation"} \in SUBSET FieldNames
      BY DEF FieldNames
    <3> QED
      BY <3>1 DEF Fields
  <2>2. <<b5>> \in Seq(AnyBlocker) /\ Range(<<b5>>) = {b5}
    <3>1. "no-evaluator-verdict" \in BlockerCodes
      BY DEF BlockerCodes
    <3> QED
      BY <1>9, <2>1, <3>1, OneBlocker
  <2> QED
    BY <1>0, <1>10, <2>2
<1>32. a6 \in Seq(AnyBlocker) /\ (judged /\ row.verdict = "EDGE" /\ ~row.evidence => b6 \in Range(a6))
  <2>1. {Of(f, c) : f \in {"evaluation.evidenceCurrent"}} \in SUBSET Fields
    <3>1. {"evaluation.evidenceCurrent"} \in SUBSET FieldNames
      BY DEF FieldNames
    <3> QED
      BY <3>1 DEF Fields
  <2>2. <<b6>> \in Seq(AnyBlocker) /\ Range(<<b6>>) = {b6}
    <3>1. "evidence-not-current" \in BlockerCodes
      BY DEF BlockerCodes
    <3> QED
      BY <1>11, <2>1, <3>1, OneBlocker
  <2> QED
    BY <1>0, <1>12, <2>2
<1>33. a7 \in Seq(AnyBlocker) /\ (judged /\ row.verdict = "EDGE" /\ ~row.current => b7 \in Range(a7))
  <2>1. {Of(f, c) : f \in {"evaluation.current", "evaluation.strategyVersion"}} \in SUBSET Fields
    <3>1. {"evaluation.current", "evaluation.strategyVersion"} \in SUBSET FieldNames
      BY DEF FieldNames
    <3> QED
      BY <3>1 DEF Fields
  <2>2. <<b7>> \in Seq(AnyBlocker) /\ Range(<<b7>>) = {b7}
    <3>1. "strategy-version-mismatch" \in BlockerCodes
      BY DEF BlockerCodes
    <3> QED
      BY <1>13, <2>1, <3>1, OneBlocker
  <2> QED
    BY <1>0, <1>14, <2>2
<1>34. a8 \in Seq(AnyBlocker) /\ (judged /\ row.verdict = "NO EDGE" => b8 \in Range(a8))
  <2>1. {Of(f, c) : f \in {"evaluation.verdict"}} \in SUBSET Fields
    <3>1. {"evaluation.verdict"} \in SUBSET FieldNames
      BY DEF FieldNames
    <3> QED
      BY <3>1 DEF Fields
  <2>2. <<b8>> \in Seq(AnyBlocker) /\ Range(<<b8>>) = {b8}
    <3>1. "verdict-not-edge" \in BlockerCodes
      BY DEF BlockerCodes
    <3> QED
      BY <1>15, <2>1, <3>1, OneBlocker
  <2> QED
    BY <1>0, <1>16, <2>2
<1>35. a9 \in Seq(AnyBlocker) /\ (judged /\ row.verdict = "INCONCLUSIVE" => b9 \in Range(a9))
  <2>1. {Of(f, c) : f \in {"evaluation.verdict"}} \in SUBSET Fields
    <3>1. {"evaluation.verdict"} \in SUBSET FieldNames
      BY DEF FieldNames
    <3> QED
      BY <3>1 DEF Fields
  <2>2. <<b9>> \in Seq(AnyBlocker) /\ Range(<<b9>>) = {b9}
    <3>1. "verdict-inconclusive" \in BlockerCodes
      BY DEF BlockerCodes
    <3> QED
      BY <1>17, <2>1, <3>1, OneBlocker
  <2> QED
    BY <1>0, <1>18, <2>2
<1>36. a10 \in Seq(AnyBlocker) /\ (judged /\ row.verdict = "SUSPECT" => b10 \in Range(a10))
  <2>1. {Of(f, c) : f \in {"evaluation.verdict"}} \in SUBSET Fields
    <3>1. {"evaluation.verdict"} \in SUBSET FieldNames
      BY DEF FieldNames
    <3> QED
      BY <3>1 DEF Fields
  <2>2. <<b10>> \in Seq(AnyBlocker) /\ Range(<<b10>>) = {b10}
    <3>1. "verdict-suspect" \in BlockerCodes
      BY DEF BlockerCodes
    <3> QED
      BY <1>19, <2>1, <3>1, OneBlocker
  <2> QED
    BY <1>0, <1>20, <2>2
<1>37. a11 \in Seq(AnyBlocker) /\ (judged /\ row.verdict = "" => b11 \in Range(a11))
  <2>1. {Of(f, c) : f \in {"evaluation.verdict"}} \in SUBSET Fields
    <3>1. {"evaluation.verdict"} \in SUBSET FieldNames
      BY DEF FieldNames
    <3> QED
      BY <3>1 DEF Fields
  <2>2. <<b11>> \in Seq(AnyBlocker) /\ Range(<<b11>>) = {b11}
    <3>1. "no-evaluator-verdict" \in BlockerCodes
      BY DEF BlockerCodes
    <3> QED
      BY <1>21, <2>1, <3>1, OneBlocker
  <2> QED
    BY <1>0, <1>22, <2>2
<1>38. a12 \in Seq(AnyBlocker) /\ (judged /\ row.verdict = "other" => b12 \in Range(a12))
  <2>1. {Of(f, c) : f \in {"evaluation.verdict"}} \in SUBSET Fields
    <3>1. {"evaluation.verdict"} \in SUBSET FieldNames
      BY DEF FieldNames
    <3> QED
      BY <3>1 DEF Fields
  <2>2. <<b12>> \in Seq(AnyBlocker) /\ Range(<<b12>>) = {b12}
    <3>1. "unrecognised-verdict" \in BlockerCodes
      BY DEF BlockerCodes
    <3> QED
      BY <1>23, <2>1, <3>1, OneBlocker
  <2> QED
    BY <1>0, <1>24, <2>2
<1>39. PICK all : all = a1 \o a2 \o a3 \o a4 \o a5 \o a6 \o a7 \o a8 \o a9 \o a10 \o a11 \o a12
  OBVIOUS
<1>40. all \in Seq(AnyBlocker) /\ \A a \in {a1, a2, a8, a10} : Range(a) \subseteq Range(all)
  <2>1. PICK c2 : c2 = a1 \o a2
    OBVIOUS
  <2>2. PICK c3 : c3 = c2 \o a3
    OBVIOUS
  <2>3. PICK c4 : c4 = c3 \o a4
    OBVIOUS
  <2>4. PICK c5 : c5 = c4 \o a5
    OBVIOUS
  <2>5. PICK c6 : c6 = c5 \o a6
    OBVIOUS
  <2>6. PICK c7 : c7 = c6 \o a7
    OBVIOUS
  <2>7. PICK c8 : c8 = c7 \o a8
    OBVIOUS
  <2>8. PICK c9 : c9 = c8 \o a9
    OBVIOUS
  <2>9. PICK c10 : c10 = c9 \o a10
    OBVIOUS
  <2>10. PICK c11 : c11 = c10 \o a11
    OBVIOUS
  <2>11. PICK c12 : c12 = c11 \o a12
    OBVIOUS
  <2>12. c2 \in Seq(AnyBlocker) /\ Range(a1) \subseteq Range(c2) /\ Range(a2) \subseteq Range(c2)
    BY <1>27, <1>28, <2>1, Joined
  <2>13. c3 \in Seq(AnyBlocker) /\ Range(c2) \subseteq Range(c3) /\ Range(a3) \subseteq Range(c3)
    BY <1>29, <2>12, <2>2, Joined
  <2>14. c4 \in Seq(AnyBlocker) /\ Range(c3) \subseteq Range(c4) /\ Range(a4) \subseteq Range(c4)
    BY <1>30, <2>13, <2>3, Joined
  <2>15. c5 \in Seq(AnyBlocker) /\ Range(c4) \subseteq Range(c5) /\ Range(a5) \subseteq Range(c5)
    BY <1>31, <2>14, <2>4, Joined
  <2>16. c6 \in Seq(AnyBlocker) /\ Range(c5) \subseteq Range(c6) /\ Range(a6) \subseteq Range(c6)
    BY <1>32, <2>15, <2>5, Joined
  <2>17. c7 \in Seq(AnyBlocker) /\ Range(c6) \subseteq Range(c7) /\ Range(a7) \subseteq Range(c7)
    BY <1>33, <2>16, <2>6, Joined
  <2>18. c8 \in Seq(AnyBlocker) /\ Range(c7) \subseteq Range(c8) /\ Range(a8) \subseteq Range(c8)
    BY <1>34, <2>17, <2>7, Joined
  <2>19. c9 \in Seq(AnyBlocker) /\ Range(c8) \subseteq Range(c9) /\ Range(a9) \subseteq Range(c9)
    BY <1>35, <2>18, <2>8, Joined
  <2>20. c10 \in Seq(AnyBlocker) /\ Range(c9) \subseteq Range(c10) /\ Range(a10) \subseteq Range(c10)
    BY <1>36, <2>19, <2>9, Joined
  <2>21. c11 \in Seq(AnyBlocker) /\ Range(c10) \subseteq Range(c11) /\ Range(a11) \subseteq Range(c11)
    BY <1>37, <2>20, <2>10, Joined
  <2>22. c12 \in Seq(AnyBlocker) /\ Range(c11) \subseteq Range(c12) /\ Range(a12) \subseteq Range(c12)
    BY <1>38, <2>21, <2>11, Joined
  <2>23. all = c12
    BY <1>39, <2>1, <2>2, <2>3, <2>4, <2>5, <2>6, <2>7, <2>8, <2>9, <2>10, <2>11
  <2> QED
    BY <2>12, <2>13, <2>14, <2>15, <2>16, <2>17, <2>18, <2>19, <2>20, <2>21, <2>22, <2>23
<1>41. b1 = Blocker("no-evaluator-verdict", {Of("availability", c)})
  BY <1>1, <1>26
<1>42. b2 = Blocker("synthetic-trained-model", {Of("trainedOnSynthetic", c)})
  BY <1>3, <1>26
<1>43. b8 = Blocker("verdict-not-edge", {Of("evaluation.verdict", c)})
  BY <1>15, <1>26
<1>44. b10 = Blocker("verdict-suspect", {Of("evaluation.verdict", c)})
  BY <1>19, <1>26
<1>45. all = RowBlockers(row, c)
  BY <1>25, <1>39
<1> QED
  BY <1>27, <1>28, <1>34, <1>36, <1>40, <1>41, <1>42, <1>43, <1>44, <1>45

\* A source that could not be read, or is old, is named.
LEMMA SourceIsNamed ==
    ASSUME NEW s
    PROVE  /\ SourceBlockers(s) \in Seq(AnyBlocker)
           /\ \A n \in Names :
                /\ s[n].state = "unavailable" =>
                      Blocker("source-unavailable", {Path(n, "state"), Path(n, "reason")})
                          \in Range(SourceBlockers(s))
                /\ s[n].state = "stale" =>
                      Blocker("source-stale", {Path(n, "state"), Path(n, "reportedAsOf")})
                          \in Range(SourceBlockers(s))
<1> DEFINE Down(n) == Blocker("source-unavailable", {Path(n, "state"), Path(n, "reason")})
           Old(n) == Blocker("source-stale", {Path(n, "state"), Path(n, "reportedAsOf")})
           Said(n) == Given(s[n].state = "unavailable", Down(n)) \o Given(s[n].state = "stale", Old(n))
<1>0. <<>> \in Seq(AnyBlocker)
  BY EmptySeq
<1>1. ASSUME NEW n \in Names
      PROVE  /\ Said(n) \in Seq(AnyBlocker)
             /\ s[n].state = "unavailable" => Down(n) \in Range(Said(n))
             /\ s[n].state = "stale" => Old(n) \in Range(Said(n))
  <2>1. PICK d : d = Down(n)
    OBVIOUS
  <2>2. PICK o : o = Old(n)
    OBVIOUS
  <2>3. /\ {Path(n, "state"), Path(n, "reason")} \in SUBSET Fields
        /\ {Path(n, "state"), Path(n, "reportedAsOf")} \in SUBSET Fields
    <3>1. {"state", "reason", "reportedAsOf"} \subseteq FieldNames
      BY DEF FieldNames
    <3> QED
      BY <3>1 DEF Fields
  <2>4. "source-unavailable" \in BlockerCodes /\ "source-stale" \in BlockerCodes
    BY DEF BlockerCodes
  <2>5. <<d>> \in Seq(AnyBlocker) /\ Range(<<d>>) = {d} /\ <<o>> \in Seq(AnyBlocker) /\ Range(<<o>>) = {o}
    BY <2>1, <2>2, <2>3, <2>4, OneBlocker
  <2>6. PICK a : a = IF s[n].state = "unavailable" THEN <<d>> ELSE <<>>
    OBVIOUS
  <2>7. PICK b : b = IF s[n].state = "stale" THEN <<o>> ELSE <<>>
    OBVIOUS
  <2>8. a \in Seq(AnyBlocker) /\ b \in Seq(AnyBlocker)
    BY <1>0, <2>5, <2>6, <2>7
  <2>9. PICK all : all = a \o b
    OBVIOUS
  <2>10. all \in Seq(AnyBlocker) /\ Range(a) \subseteq Range(all) /\ Range(b) \subseteq Range(all)
    BY <2>8, <2>9, Joined
  <2>11. Said(n) = all
    BY <2>1, <2>2, <2>6, <2>7, <2>9 DEF Given
  <2> HIDE DEF Said, Down, Old
  <2> QED
    BY <2>1, <2>2, <2>5, <2>6, <2>7, <2>10, <2>11
<1>2. /\ \A i \in 1 .. 5 : Alphabetical[i] \in Names
      /\ \A n \in Names : \E i \in 1 .. 5 : Alphabetical[i] = n
  <2>1. /\ Alphabetical[1] = "dashboard" /\ Alphabetical[2] = "experiments" /\ Alphabetical[3] = "provenance"
        /\ Alphabetical[4] = "readiness" /\ Alphabetical[5] = "status"
    BY DEF Alphabetical
  <2>2. \A i \in 1 .. 5 : i = 1 \/ i = 2 \/ i = 3 \/ i = 4 \/ i = 5
    OBVIOUS
  <2> QED
    BY <2>1, <2>2, NamesAre
<1>3. PICK seqs : seqs = [i \in 1 .. 5 |-> Said(Alphabetical[i])]
  OBVIOUS
<1>4. SourceBlockers(s) = FlattenSeq(seqs)
                              \o Given(Cardinality(Revisions(s)) > 1, Blocker("mixed-revision", {<<"revision">>}))
  BY <1>3 DEF SourceBlockers
<1> HIDE DEF Said, Down, Old
<1>5. seqs \in Seq(Seq(AnyBlocker)) /\ DOMAIN seqs = 1 .. 5 /\ \A i \in 1 .. 5 : seqs[i] = Said(Alphabetical[i])
  <2>1. \A i \in 1 .. 5 : Said(Alphabetical[i]) \in Seq(AnyBlocker)
    BY <1>1, <1>2
  <2> QED
    BY <1>3, <2>1
<1>6. PICK flat : flat = FlattenSeq(seqs)
  OBVIOUS
<1>7. flat \in Seq(AnyBlocker) /\ \A n \in Names : Range(Said(n)) \subseteq Range(flat)
  BY <1>2, <1>5, <1>6, Flattened
<1>8. PICK more : more = Given(Cardinality(Revisions(s)) > 1, Blocker("mixed-revision", {<<"revision">>}))
  OBVIOUS
<1>9. more \in Seq(AnyBlocker)
  <2>1. {<<"revision">>} \in SUBSET Fields
    BY DEF Fields
  <2>2. "mixed-revision" \in BlockerCodes
    BY DEF BlockerCodes
  <2>3. <<Blocker("mixed-revision", {<<"revision">>})>> \in Seq(AnyBlocker)
    BY <2>1, <2>2, OneBlocker
  <2> QED
    BY <1>0, <1>8, <2>3 DEF Given
<1>10. PICK all : all = flat \o more
  OBVIOUS
<1>11. all \in Seq(AnyBlocker) /\ Range(flat) \subseteq Range(all)
  BY <1>7, <1>9, <1>10, Joined
<1>12. SourceBlockers(s) = all
  BY <1>4, <1>6, <1>8, <1>10
<1>13. \A n \in Names : /\ s[n].state = "unavailable" => Down(n) \in Range(all)
                        /\ s[n].state = "stale" => Old(n) \in Range(all)
  BY <1>1, <1>7, <1>11
<1> QED
  BY <1>11, <1>12, <1>13 DEF Down, Old

\* The blockers of the paper status and of the operational status.
LEMMA StatusBlockers ==
    ASSUME NEW s
    PROVE  PaperStatus(s).blockers \in Seq(AnyBlocker) /\ OperationalStatus(s).blockers \in Seq(AnyBlocker)
<1>0. <<>> \in Seq(AnyBlocker)
  BY EmptySeq
<1>1. {"clock-not-started", "integrity-degraded", "store-desync", "readiness-blocked"} \subseteq BlockerCodes
  BY DEF BlockerCodes
<1>2. /\ {StartedPath, Path("dashboard", "clock")} \in SUBSET Fields
      /\ {Path("dashboard", "integrity"), Path("dashboard", "integrityReasons")} \in SUBSET Fields
      /\ {Path("status", "desyncedConfigs"), Path("status", "pendingBookings")} \in SUBSET Fields
      /\ {Path("readiness", "ready"), Path("readiness", "blockers")} \in SUBSET Fields
  <2>1. {"officialStartedAt", "clock", "integrity", "integrityReasons", "desyncedConfigs", "pendingBookings",
         "ready", "blockers"} \subseteq FieldNames
    BY DEF FieldNames
  <2> QED
    BY <2>1, NamesAre DEF Fields, StartedPath
<1>3. PaperStatus(s).blockers \in Seq(AnyBlocker)
  <2>1. PICK b : b = Blocker("clock-not-started", {StartedPath, Path("dashboard", "clock")})
    OBVIOUS
  <2>2. <<b>> \in Seq(AnyBlocker)
    BY <1>1, <1>2, <2>1, OneBlocker
  <2>3. PaperStatus(s).blockers = <<>> \/ PaperStatus(s).blockers = <<b>>
    BY <2>1 DEF PaperStatus
  <2> QED
    BY <1>0, <2>2, <2>3
<1>4. OperationalStatus(s).blockers \in Seq(AnyBlocker)
  <2> DEFINE broken(n, ok) == Available(s, n) /\ ~ok
  <2>1. PICK b1 : b1 = Blocker("integrity-degraded",
                               {Path("dashboard", "integrity"), Path("dashboard", "integrityReasons")})
    OBVIOUS
  <2>2. PICK b2 : b2 = Blocker("store-desync",
                               {Path("status", "desyncedConfigs"), Path("status", "pendingBookings")})
    OBVIOUS
  <2>3. PICK b3 : b3 = Blocker("readiness-blocked", {Path("readiness", "ready"), Path("readiness", "blockers")})
    OBVIOUS
  <2>4. <<b1>> \in Seq(AnyBlocker) /\ <<b2>> \in Seq(AnyBlocker) /\ <<b3>> \in Seq(AnyBlocker)
    BY <1>1, <1>2, <2>1, <2>2, <2>3, OneBlocker
  <2>5. PICK a1 : a1 = IF broken("dashboard", s["dashboard"].of.healthy) THEN <<b1>> ELSE <<>>
    OBVIOUS
  <2>6. PICK a2 : a2 = IF broken("status", s["status"].of.agrees) THEN <<b2>> ELSE <<>>
    OBVIOUS
  <2>7. PICK a3 : a3 = IF broken("readiness", s["readiness"].of.ready) THEN <<b3>> ELSE <<>>
    OBVIOUS
  <2>8. a1 \in Seq(AnyBlocker) /\ a2 \in Seq(AnyBlocker) /\ a3 \in Seq(AnyBlocker)
    BY <1>0, <2>4, <2>5, <2>6, <2>7
  <2>9. (a1 \o a2) \o a3 \in Seq(AnyBlocker)
    BY <2>8, Joined
  <2>10. OperationalStatus(s).blockers = a1 \o a2 \o a3
    BY <2>1, <2>2, <2>3, <2>5, <2>6, <2>7 DEF OperationalStatus, Given
  <2> QED
    BY <2>9, <2>10
<1> QED
  BY <1>3, <1>4

\* Every blocker of a source, and of a configuration that was read, is mandatory.
LEMMA MandatoryHas ==
    ASSUME NEW s
    PROVE  /\ Range(SourceBlockers(s)) \subseteq Range(MandatoryBlockers(s))
           /\ Available(s, "provenance") =>
                \A c \in Configs : Range(RowBlockers(RowsOf(s)[c], c)) \subseteq Range(MandatoryBlockers(s))
<1>1. CandidateStatus(s).blockers \in Seq(AnyBlocker)
      /\ (Available(s, "provenance") =>
            \A c \in Configs : Range(RowBlockers(RowsOf(s)[c], c)) \subseteq Range(CandidateStatus(s).blockers))
  <2>1. CASE Configs = {} \/ ~Available(s, "provenance")
    <3>1. CandidateStatus(s).blockers = <<>>
      BY <2>1 DEF CandidateStatus
    <3> QED
      BY <2>1, <3>1, EmptySeq
  <2>2. CASE Configs # {} /\ Available(s, "provenance")
    <3>1. PICK seqs : seqs = [c \in Configs |-> RowBlockers(RowsOf(s)[c], c)]
      OBVIOUS
    <3>2. CandidateStatus(s).blockers = FlattenSeq(seqs)
      BY <2>2, <3>1 DEF CandidateStatus
    <3>3. Configs = 1 .. Cardinality(Configs) /\ Cardinality(Configs) \in Nat
      BY ReviewAssumption, FS_CardinalityType
    <3>4. \A c \in Configs : seqs[c] \in Seq(AnyBlocker)
      BY <3>1, RowIsNamed
    <3>5. seqs \in Seq(Seq(AnyBlocker)) /\ DOMAIN seqs = Configs
      <4>1. PICK n \in Nat : Configs = 1 .. n
        BY <3>3
      <4>2. seqs \in [1 .. n -> Seq(AnyBlocker)]
        BY <3>1, <3>4, <4>1
      <4> QED
        BY <4>1, <4>2
    <3>6. /\ FlattenSeq(seqs) \in Seq(AnyBlocker)
          /\ \A c \in Configs : Range(seqs[c]) \subseteq Range(FlattenSeq(seqs))
      BY <3>5, Flattened
    <3>7. \A c \in Configs : seqs[c] = RowBlockers(RowsOf(s)[c], c)
      BY <3>1
    <3> QED
      BY <3>2, <3>6, <3>7
  <2> QED
    BY <2>1, <2>2
<1>2. PICK a : a = SourceBlockers(s)
  OBVIOUS
<1>3. PICK b : b = PaperStatus(s).blockers
  OBVIOUS
<1>4. PICK c : c = CandidateStatus(s).blockers
  OBVIOUS
<1>5. PICK d : d = OperationalStatus(s).blockers
  OBVIOUS
<1>6. a \in Seq(AnyBlocker) /\ b \in Seq(AnyBlocker) /\ c \in Seq(AnyBlocker) /\ d \in Seq(AnyBlocker)
  BY <1>1, <1>2, <1>3, <1>4, <1>5, SourceIsNamed, StatusBlockers
<1>7. PICK ab : ab = a \o b
  OBVIOUS
<1>8. PICK abc : abc = ab \o c
  OBVIOUS
<1>9. ab \in Seq(AnyBlocker) /\ Range(a) \subseteq Range(ab)
  BY <1>6, <1>7, Joined
<1>10. abc \in Seq(AnyBlocker) /\ Range(ab) \subseteq Range(abc) /\ Range(c) \subseteq Range(abc)
  BY <1>6, <1>8, <1>9, Joined
<1>11. Range(abc) \subseteq Range(abc \o d)
  BY <1>6, <1>10, Joined
<1>12. MandatoryBlockers(s) = abc \o d
  BY <1>2, <1>3, <1>4, <1>5, <1>7, <1>8 DEF MandatoryBlockers
<1>13. Range(a) \subseteq Range(MandatoryBlockers(s)) /\ Range(c) \subseteq Range(MandatoryBlockers(s))
  BY <1>9, <1>10, <1>11, <1>12
<1> QED
  BY <1>1, <1>2, <1>4, <1>13

-----------------------------------------------------------------------------
(* What an accepted review says *)

\* A mandatory blocker of an accepted review is answered with every field it cites.
LEMMA AnsweredCites ==
    ASSUME phase = "accepted", ReviewInv, NEW code, NEW paths, NEW field \in paths,
           Blocker(code, paths) \in Range(MandatoryBlockers(sources))
    PROVE  Cites(field)
<1>1. PICK want : want = Blocker(code, paths)
  OBVIOUS
<1>2. want.paths = paths
  BY <1>1 DEF Blocker
<1>3. Answered(want, review[1].blockers)
  BY <1>1 DEF ReviewInv, Accepts
<1>4. PICK i \in DOMAIN review[1].blockers : paths \subseteq review[1].blockers[i].paths
  BY <1>2, <1>3 DEF Answered
<1> QED
  BY <1>4 DEF Cites, Range

\* The rows that were read are those of the configurations.
LEMMA RowsAre ==
    ASSUME ReviewInv
    PROVE  DOMAIN RowsOf(sources) = IF Available(sources, "provenance") THEN Configs ELSE {}
<1>1. CASE Available(sources, "provenance")
  <2>1. RowsOf(sources) = world.rows
    BY <1>1, NamesAre DEF RowsOf, ReviewInv, ReadingsOK
  <2>2. world.rows \in [Configs -> Row]
    BY WorldFields DEF ReviewInv, ReviewTypeOK
  <2> QED
    BY <1>1, <2>1, <2>2
<1>2. CASE ~Available(sources, "provenance")
  <2>1. RowsOf(sources) = <<>>
    BY <1>2 DEF RowsOf
  <2>2. DOMAIN <<>> = {}
    OBVIOUS
  <2> QED
    BY <1>2, <2>1, <2>2
<1> QED
  BY <1>1, <1>2

\* It states every verdict that was read, and calls it valid only when each rests on real data.
LEMMA VerdictsAreStated ==
    ASSUME phase = "accepted", ReviewInv
    PROVE  VerdictIsStated
<1> DEFINE rows == RowsOf(sources)
           judged == {c \in DOMAIN rows : rows[c].live /\ rows[c].verdict \notin {"none", ""}}
<1>1. review[1].result = EvaluatorResult(sources) /\ review[1].validity = EvidenceValidity(sources)
  BY DEF ReviewInv, Accepts
<1>2. \A c \in judged : Verdict(rows[c]) = rows[c].verdict /\ Verdict(rows[c]) # ""
  BY DEF Verdict
<1>3. \A c \in DOMAIN rows : Verdict(rows[c]) # "" => c \in judged
  BY DEF Verdict
<1>4. \A c \in judged : rows[c].verdict \in Verdicts(sources)
  BY <1>2 DEF Verdicts
<1>5. ASSUME NEW c \in judged PROVE review[1].result \in {rows[c].verdict, "MIXED"}
  <2>1. Verdicts(sources) # {}
    BY <1>4, <1>5
  <2>2. CASE Cardinality(Verdicts(sources)) > 1
    BY <1>1, <2>1, <2>2 DEF EvaluatorResult
  <2>3. CASE ~ (Cardinality(Verdicts(sources)) > 1)
    <3>1. EvaluatorResult(sources) = CHOOSE v \in Verdicts(sources) : TRUE
      BY <2>1, <2>3 DEF EvaluatorResult
    <3>2. IsFiniteSet(Verdicts(sources))
      <4>1. IsFiniteSet(DOMAIN rows)
        <5>1. DOMAIN rows = Configs \/ DOMAIN rows = {}
          BY RowsAre
        <5> QED
          BY <5>1, ReviewAssumption, FS_EmptySet
      <4> DEFINE all == {Verdict(rows[d]) : d \in DOMAIN rows}
      <4>2. PICK f : f = [d \in DOMAIN rows |-> Verdict(rows[d])]
        OBVIOUS
      <4>3. f \in [DOMAIN rows -> all] /\ \A v \in all : \E d \in DOMAIN rows : f[d] = v
        BY <4>2
      <4>4. f \in Surjection(DOMAIN rows, all)
        BY <4>3 DEF Surjection
      <4> HIDE DEF rows, all
      <4>5. IsFiniteSet(all)
        BY <4>1, <4>4, FS_Surjection
      <4>6. Verdicts(sources) \subseteq all
        BY DEF Verdicts, all, rows
      <4> QED
        BY <4>5, <4>6, FS_Subset
    <3>3. PICK v : Verdicts(sources) = {v}
      BY <2>1, <2>3, <3>2, OnlyOne
    <3> QED
      BY <1>1, <1>4, <1>5, <3>1, <3>3
  <2> QED
    BY <2>2, <2>3
<1>6. ASSUME review[1].validity = "valid"
      PROVE  judged # {} /\ \A c \in judged : ~Tainted(rows[c])
  <2>1. EvidenceValidity(sources) = "valid"
    BY <1>1, <1>6
  <2>2. Verdicts(sources) # {}
    BY <2>1 DEF EvidenceValidity
  <2>3. ~ \E c \in DOMAIN rows : Validity(rows[c]) = "invalid"
    BY <2>1, <2>2 DEF EvidenceValidity
  <2>4. judged # {}
    BY <1>3, <2>2 DEF Verdicts
  <2>5. ASSUME NEW c \in judged PROVE ~Tainted(rows[c])
    BY <1>2, <2>3, <2>5 DEF Validity
  <2> QED
    BY <2>4, <2>5
<1> QED
  BY <1>5, <1>6 DEF VerdictIsStated

(***************************************************************************)
(* Nothing bad is dropped: an accepted review, whoever assembled it, names *)
(* every source that could not be read or is old, every configuration      *)
(* without a live reading or on synthetic data and every negative verdict, *)
(* each by its field, and states every verdict that was read               *)
(* (experiment_review.go:290-308, experiment_snapshot.go:231-241).         *)
(***************************************************************************)
THEOREM ReviewsNothingBadIsDropped == Spec => []NothingBadIsDropped
<1>1. ReviewInv => NothingBadIsDropped
  <2> SUFFICES ASSUME ReviewInv, phase = "accepted"
               PROVE  /\ Available(sources, "provenance") => VerdictIsStated
                      /\ \A n \in Names : sources[n].state # "live" => Cites(Path(n, "state"))
                      /\ \A c \in DOMAIN RowsOf(sources) :
                          LET row == RowsOf(sources)[c]
                          IN  /\ ~row.live => Cites(Of("availability", c))
                              /\ row.live /\ row.trained # "clean" => Cites(Of("trainedOnSynthetic", c))
                              /\ row.live /\ row.verdict \in {"NO EDGE", "SUSPECT"} =>
                                      Cites(Of("evaluation.verdict", c))
    BY DEF NothingBadIsDropped
  <2>1. ASSUME NEW n \in Names, sources[n].state # "live" PROVE Cites(Path(n, "state"))
    <3>1. sources[n].state \in {"unavailable", "stale"}
      BY <2>1 DEF ReviewInv, ReviewTypeOK, Reading
    <3>2. \/ Blocker("source-unavailable", {Path(n, "state"), Path(n, "reason")})
                \in Range(MandatoryBlockers(sources))
          \/ Blocker("source-stale", {Path(n, "state"), Path(n, "reportedAsOf")})
                \in Range(MandatoryBlockers(sources))
      BY <3>1, SourceIsNamed, MandatoryHas
    <3> QED
      BY <3>2, AnsweredCites
  <2>2. ASSUME NEW c \in DOMAIN RowsOf(sources), NEW row, row = RowsOf(sources)[c]
        PROVE  /\ ~row.live => Cites(Of("availability", c))
               /\ row.live /\ row.trained # "clean" => Cites(Of("trainedOnSynthetic", c))
               /\ row.live /\ row.verdict \in {"NO EDGE", "SUSPECT"} => Cites(Of("evaluation.verdict", c))
    <3>1. Available(sources, "provenance") /\ c \in Configs
      BY <2>2, RowsAre
    <3>2. Range(RowBlockers(row, c)) \subseteq Range(MandatoryBlockers(sources))
      BY <2>2, <3>1, MandatoryHas
    <3>3. ASSUME ~row.live PROVE Cites(Of("availability", c))
      <4>1. Blocker("no-evaluator-verdict", {Of("availability", c)}) \in Range(MandatoryBlockers(sources))
        BY <3>1, <3>2, <3>3, RowIsNamed
      <4> QED
        BY <4>1, AnsweredCites
    <3>4. ASSUME row.live, row.trained # "clean" PROVE Cites(Of("trainedOnSynthetic", c))
      <4>1. Blocker("synthetic-trained-model", {Of("trainedOnSynthetic", c)}) \in Range(MandatoryBlockers(sources))
        BY <3>1, <3>2, <3>4, RowIsNamed
      <4> QED
        BY <4>1, AnsweredCites
    <3>5. ASSUME row.live, row.verdict \in {"NO EDGE", "SUSPECT"} PROVE Cites(Of("evaluation.verdict", c))
      <4>1. \/ Blocker("verdict-not-edge", {Of("evaluation.verdict", c)}) \in Range(MandatoryBlockers(sources))
            \/ Blocker("verdict-suspect", {Of("evaluation.verdict", c)}) \in Range(MandatoryBlockers(sources))
        BY <3>1, <3>2, <3>5, RowIsNamed
      <4> QED
        BY <4>1, AnsweredCites
    <3> QED
      BY <3>3, <3>4, <3>5
  <2> QED
    BY <2>1, <2>2, VerdictsAreStated
<1> QED
  BY <1>1, ReviewAlways, PTL


-----------------------------------------------------------------------------
(***************************************************************************)
(* The shadow ledger.                                                      *)
(***************************************************************************)
\* Bars that are kept: finitely many, one of each number.
BarsOK(bars) ==
    /\ IsFiniteSet(bars)
    /\ \A b \in bars : b.n \in Nat \ {0} /\ b.real \in BOOLEAN
    /\ \A b, c \in bars : b.n = c.n => b = c

\* Among numbers up to a bound there is a greatest.
LEMMA GreatestUpTo ==
    ASSUME NEW top \in Nat, NEW S \in SUBSET (0..top), S # {}
    PROVE  \E x \in S : \A y \in S : y <= x
<1> DEFINE T == {top - x : x \in S}
<1>1. T \in SUBSET Nat /\ T # {}
  <2>1. \A x \in S : top - x \in Nat
    OBVIOUS
  <2> QED
    BY <2>1
<1>2. PICK d \in T : \A e \in T : d <= e
  BY <1>1, LeastOf
<1>3. PICK x \in S : d = top - x
  BY <1>2
<1>4. ASSUME NEW y \in S PROVE y <= x
  <2>1. top - y \in T
    OBVIOUS
  <2>2. d <= top - y
    BY <1>2, <2>1
  <2> QED
    BY <1>3, <2>2
<1> QED
  BY <1>4

\* As many bars as numbers.
LEMMA BarsByNumber ==
    ASSUME NEW bars, BarsOK(bars), NEW some \in SUBSET bars
    PROVE  /\ IsFiniteSet(some) /\ IsFiniteSet(Numbers(some))
           /\ Cardinality(some) = Cardinality(Numbers(some)) /\ Cardinality(some) \in Nat
<1> DEFINE f == [b \in some |-> b.n]
<1>1. IsFiniteSet(some)
  BY FS_Subset DEF BarsOK
<1>2. f \in Bijection(some, Numbers(some))
  <2>1. f \in [some -> Numbers(some)]
    BY DEF Numbers
  <2>2. \A b, c \in some : f[b] = f[c] => b = c
    BY DEF BarsOK
  <2>3. \A n \in Numbers(some) : \E b \in some : f[b] = n
    BY DEF Numbers
  <2> QED
    BY <2>1, <2>2, <2>3 DEF Bijection, Injection, Surjection, IsInjective
<1>3. ExistsBijection(some, Numbers(some))
  BY <1>2 DEF ExistsBijection
<1> QED
  BY <1>1, <1>3, FS_Bijection, FS_CardinalityType

\* The bars of a window that are before the one numbered n.
Before(data, bar, n) == {c \in Later(data, bar) : c.n < n}

\* What is in a window of the first h bars after `bar`, and where it ends.
LEMMA WindowEnds ==
    ASSUME NEW data, BarsOK(data.bars), NEW bar \in Nat, NEW h \in Nat \ {0},
           NEW top \in Nat, \A b \in data.bars : b.n <= top,
           Cardinality(Later(data, bar)) >= h,
           NEW exit, exit = CHOOSE n \in Numbers(Window(data, bar, h)) :
                              \A m \in Numbers(Window(data, bar, h)) : m <= n
    PROVE  /\ exit \in Numbers(data.bars) /\ exit > bar
           /\ \A b \in data.bars : bar < b.n /\ b.n <= exit => b \in Window(data, bar, h)
           /\ (\A n \in bar + 1..exit - 1 : n \in Numbers(data.bars)) => exit = bar + h
<1> DEFINE later == Later(data, bar)
           window == Window(data, bar, h)
<1>1. /\ later \subseteq data.bars /\ \A b \in later : b.n \in Nat \ {0} /\ b.n > bar
      /\ \A b \in data.bars : b.n > bar => b \in later
  BY DEF Later, BarsOK
<1>2. \A b : b \in window <=> b \in later /\ Cardinality(Before(data, bar, b.n)) < h
  BY DEF Window, Before
<1>3. ASSUME NEW n
      PROVE  /\ Before(data, bar, n) \subseteq later
             /\ \A c \in later : c \in Before(data, bar, n) <=> c.n < n
             /\ Cardinality(Before(data, bar, n)) \in Nat /\ IsFiniteSet(Before(data, bar, n))
             /\ Cardinality(Before(data, bar, n)) = Cardinality(Numbers(Before(data, bar, n)))
  <2>1. /\ Before(data, bar, n) \subseteq later
        /\ \A c \in later : c \in Before(data, bar, n) <=> c.n < n
    BY DEF Before
  <2>2. Before(data, bar, n) \in SUBSET data.bars
    BY <1>1, <2>1
  <2> QED
    BY <2>1, <2>2, BarsByNumber
<1>4. IsFiniteSet(later) /\ Cardinality(later) \in Nat /\ Cardinality(later) >= h
  BY <1>1, BarsByNumber
<1> HIDE DEF later, window
<1>5. ASSUME NEW S \in SUBSET later, S # {}
      PROVE  \E b \in S : \A c \in S : b.n <= c.n
  <2>1. Numbers(S) \in SUBSET Nat /\ Numbers(S) # {}
    BY <1>1, <1>5 DEF Numbers
  <2>2. PICK n \in Numbers(S) : \A m \in Numbers(S) : n <= m
    BY <2>1, LeastOf
  <2> QED
    BY <2>2 DEF Numbers
<1>6. window # {} /\ window \subseteq later
  <2>1. later # {}
    BY <1>4, FS_EmptySet
  <2>2. PICK b \in later : \A c \in later : b.n <= c.n
    BY <1>5, <2>1
  <2>3. Before(data, bar, b.n) = {}
    BY <1>1, <1>3, <2>2
  <2>4. Cardinality(Before(data, bar, b.n)) = 0
    BY <2>3, FS_EmptySet
  <2> QED
    BY <1>2, <2>2, <2>4
<1>7. exit \in Numbers(window) /\ \A m \in Numbers(window) : m <= exit
  <2>1. Numbers(window) # {} /\ Numbers(window) \in SUBSET (0..top)
    BY <1>1, <1>6 DEF Numbers
  <2>2. \E n \in Numbers(window) : \A m \in Numbers(window) : m <= n
    BY <2>1, GreatestUpTo
  <2> QED
    BY <2>2 DEF window
<1>8. PICK last \in window : last.n = exit
  BY <1>7 DEF Numbers
<1>9. last \in later /\ exit \in Nat /\ exit > bar /\ Cardinality(Before(data, bar, exit)) < h
  BY <1>1, <1>2, <1>6, <1>8
<1>10. ASSUME NEW b \in data.bars, bar < b.n, b.n <= exit PROVE b \in window
  <2>1. b \in later /\ b.n \in Nat
    BY <1>1, <1>10
  <2>2. \A c \in later : c.n \in Nat /\ (c.n < b.n => c.n < exit)
    BY <1>1, <1>9, <1>10, <2>1
  <2>4. Before(data, bar, b.n) \in SUBSET Before(data, bar, exit)
    BY <1>3, <2>2
  <2>3. Cardinality(Before(data, bar, b.n)) =< Cardinality(Before(data, bar, exit))
    BY <1>3, <2>4, FS_Subset
  <2> QED
    BY <1>2, <1>3, <1>9, <2>1, <2>3
<1>11. ASSUME \A n \in bar + 1..exit - 1 : n \in Numbers(data.bars) PROVE exit = bar + h
  <2> DEFINE upTo == {c \in later : c.n <= exit}
  <2>1. Numbers(Before(data, bar, exit)) = bar + 1..exit - 1
    <3>1. ASSUME NEW n \in Numbers(Before(data, bar, exit)) PROVE n \in bar + 1..exit - 1
      <4>1. PICK c \in Before(data, bar, exit) : n = c.n
        BY DEF Numbers
      <4>2. c \in later /\ c.n < exit
        BY <1>3, <4>1
      <4> QED
        BY <1>1, <1>9, <4>1, <4>2
    <3>2. ASSUME NEW n \in bar + 1..exit - 1 PROVE n \in Numbers(Before(data, bar, exit))
      <4>1. PICK c \in data.bars : n = c.n
        BY <1>11 DEF Numbers
      <4>2. c \in later /\ c.n < exit
        BY <1>1, <1>9, <4>1
      <4> QED
        BY <1>3, <4>1, <4>2 DEF Numbers
    <3> QED
      BY <3>1, <3>2
  <2>2. Cardinality(bar + 1..exit - 1) = exit - 1 - bar
    <3>1. /\ bar + 1 \in Int /\ exit - 1 \in Int
          /\ (IF bar + 1 > exit - 1 THEN 0 ELSE (exit - 1) - (bar + 1) + 1) = exit - 1 - bar
      BY <1>9
    <3> QED
      BY <3>1, FS_Interval
  <2>3. Cardinality(Before(data, bar, exit)) = exit - 1 - bar
    BY <1>3, <2>1, <2>2
  <2>4. exit =< bar + h
    BY <1>9, <2>3
  <2>5. SUFFICES ASSUME exit < bar + h PROVE FALSE
    BY <1>9, <2>4
  <2>6. upTo \subseteq later /\ upTo \in SUBSET data.bars /\ \A c \in later : c \in upTo <=> c.n <= exit
    BY <1>1
  <2> HIDE DEF upTo
  <2>7. Numbers(upTo) = bar + 1..exit
    <3>1. ASSUME NEW n \in Numbers(upTo) PROVE n \in bar + 1..exit
      <4>1. PICK c \in upTo : n = c.n
        BY DEF Numbers
      <4> QED
        BY <1>1, <1>9, <2>6, <4>1
    <3>2. ASSUME NEW n \in bar + 1..exit PROVE n \in Numbers(upTo)
      <4>1. n = exit \/ n \in bar + 1..exit - 1
        BY <1>9
      <4>2. PICK c \in data.bars : n = c.n
        BY <1>8, <1>9, <1>1, <1>11, <4>1 DEF Numbers
      <4>3. c \in later /\ c.n <= exit
        BY <1>1, <1>9, <4>2
      <4> QED
        BY <2>6, <4>2, <4>3 DEF Numbers
    <3> QED
      BY <3>1, <3>2
  <2>8. Cardinality(upTo) = exit - bar
    <3>1. Cardinality(bar + 1..exit) = exit - bar
      BY <1>9, FS_Interval
    <3> QED
      BY <2>6, <2>7, <3>1, BarsByNumber
  <2>9. later \ upTo # {}
    <3>1. Cardinality(later) # Cardinality(upTo)
      BY <1>4, <1>9, <2>5, <2>8
    <3> QED
      BY <2>6, <3>1
  <2>10. PICK b \in later : b \notin upTo /\ \A c \in later \ upTo : b.n <= c.n
    <3>1. PICK b \in later \ upTo : \A c \in later \ upTo : b.n <= c.n
      BY <1>5, <2>9
    <3> QED
      BY <3>1
  <2>11. Before(data, bar, b.n) = upTo
    <3>1. \A c \in later : c.n < b.n <=> c.n <= exit
      BY <1>1, <1>9, <2>6, <2>10
    <3> QED
      BY <1>3, <2>6, <3>1
  <2>12. b \in window
    <3>1. Cardinality(Before(data, bar, b.n)) < h
      BY <1>9, <2>5, <2>8, <2>11
    <3> QED
      BY <1>2, <2>10, <3>1
  <2>13. b.n \in Numbers(window)
    BY <2>12 DEF Numbers
  <2>14. b.n \in Nat /\ b.n > exit
    <3>1. b.n \in Nat /\ exit \in Nat
      BY <1>1, <1>9, <2>10
    <3>2. ~(b.n <= exit)
      BY <2>6, <2>10
    <3> QED
      BY <3>1, <3>2
  <2>15. b.n <= exit
    BY <1>7, <2>13, Zenon
  <2> QED
    BY <1>9, <2>14, <2>15
<1>12. exit \in Numbers(data.bars)
  BY <1>1, <1>8, <1>9 DEF Numbers
<1> QED
  BY <1>9, <1>10, <1>11, <1>12 DEF window

\* What is kept, with what had left the served history before it could be.
ObsOK(obs) ==
    /\ \A o \in obs : /\ o.bar \in Nat /\ o.eligible \in BOOLEAN
                      /\ o = [config |-> o.config, bar |-> o.bar, eligible |-> o.eligible]
    /\ \A o, p \in obs : o.config = p.config /\ o.bar = p.bar => o = p

OutcomeOK(data, gone, o) ==
    /\ o.bar \in Nat /\ o.exit \in Numbers(data.bars) /\ o.exit > o.bar
    /\ o.exit = o.bar + o.h \/ \E n \in gone : o.bar < n /\ n < o.exit
    /\ o.eligible =>
          /\ [config |-> o.config, bar |-> o.bar, eligible |-> TRUE] \in data.obs
          /\ \A b \in data.bars : o.bar < b.n /\ b.n <= o.exit => b.real

OutcomesOK(data, gone) ==
    /\ \A o \in data.outcomes : OutcomeOK(data, gone, o)
    /\ \A o, p \in data.outcomes : p.config = o.config /\ p.bar = o.bar /\ p.h = o.h => p = o

\* Before a bar that is kept there is none missing that may still come.
NoneMissing(bars, gone) ==
    \A b \in bars : \A n \in 1..b.n : n \in Numbers(bars) \/ n \in gone

DataOK(data, gone) ==
    /\ {"obs", "bars", "outcomes"} \subseteq DOMAIN data
    /\ BarsOK(data.bars) /\ ObsOK(data.obs)
    /\ NoneMissing(data.bars, gone)
    /\ OutcomesOK(data, gone)

\* Bars of at most that number.
UpTo(bars, top) == \A b \in bars : b.n <= top

\* What is due is settled as the horizon it names.
LEMMA SettledIsOK ==
    ASSUME NEW data, NEW gone, NEW top \in Nat, DataOK(data, gone), UpTo(data.bars, top),
           NEW new, new = Settled(data)
    PROVE  /\ DataOK(new, gone) /\ new.bars = data.bars /\ new.obs = data.obs
           /\ Due(new) = {}
<1> DEFINE added == {Outcome(data, due[1], due[2]) : due \in Due(data)}
<1>1. /\ new.bars = data.bars /\ new.obs = data.obs /\ new.outcomes = data.outcomes \cup added
      /\ DOMAIN new = DOMAIN data
  BY DEF Settled, DataOK
<1> HIDE DEF added
<1>2. \A o : o \in added <=> \E due \in Due(data) : o = Outcome(data, due[1], due[2])
  BY DEF added
<1>3. ASSUME NEW due \in Due(data)
      PROVE  /\ due[1] \in data.obs /\ due[2] \in ShadowHorizons /\ due = <<due[1], due[2]>>
             /\ Cardinality(Later(data, due[1].bar)) >= due[2]
             /\ ~\E o \in data.outcomes : o.config = due[1].config /\ o.bar = due[1].bar /\ o.h = due[2]
  BY DEF Due
<1>4. ASSUME NEW obs \in data.obs, NEW h \in ShadowHorizons, Cardinality(Later(data, obs.bar)) >= h,
             NEW o, o = Outcome(data, obs, h)
      PROVE  /\ o.config = obs.config /\ o.bar = obs.bar /\ o.h = h
             /\ OutcomeOK(data, gone, o)
  <2>1. PICK exit, good :
          /\ exit = CHOOSE n \in Numbers(Window(data, obs.bar, h)) :
                      \A m \in Numbers(Window(data, obs.bar, h)) : m <= n
          /\ good = (obs.eligible /\ \A b \in Window(data, obs.bar, h) : b.real)
          /\ o = [config |-> obs.config, bar |-> obs.bar, h |-> h, exit |-> exit, eligible |-> good]
    BY <1>4 DEF Outcome
  <2>2. /\ o.config = obs.config /\ o.bar = obs.bar /\ o.h = h /\ o.exit = exit
        /\ o.eligible = good
    BY <2>1
  <2>3. obs.bar \in Nat /\ h \in Nat \ {0} /\ BarsOK(data.bars) /\ NoneMissing(data.bars, gone)
    BY ShadowAssumption DEF DataOK, ObsOK
  <2>4. /\ exit \in Numbers(data.bars) /\ exit > obs.bar
        /\ \A b \in data.bars : obs.bar < b.n /\ b.n <= exit => b \in Window(data, obs.bar, h)
        /\ (\A n \in obs.bar + 1..exit - 1 : n \in Numbers(data.bars)) => exit = obs.bar + h
    BY <1>4, <2>1, <2>3, WindowEnds DEF UpTo
  <2>5. exit = obs.bar + h \/ \E n \in gone : obs.bar < n /\ n < exit
    <3>1. PICK b \in data.bars : exit = b.n
      BY <2>4 DEF Numbers
    <3>2. exit \in Nat /\ \A n \in 1..exit : n \in Numbers(data.bars) \/ n \in gone
      BY <2>3, <3>1 DEF BarsOK, NoneMissing
    <3>3. ASSUME exit # obs.bar + h PROVE \E n \in gone : obs.bar < n /\ n < exit
      <4>1. PICK n \in obs.bar + 1..exit - 1 : n \notin Numbers(data.bars)
        BY <2>4, <3>3
      <4>2. n \in 1..exit /\ obs.bar < n /\ n < exit
        BY <2>3, <3>2, <4>1
      <4> QED
        BY <3>2, <4>1, <4>2
    <3> QED
      BY <3>3
  <2>6. good => /\ [config |-> obs.config, bar |-> obs.bar, eligible |-> TRUE] \in data.obs
                /\ \A b \in data.bars : obs.bar < b.n /\ b.n <= exit => b.real
    <3>1. ASSUME good PROVE [config |-> obs.config, bar |-> obs.bar, eligible |-> TRUE] \in data.obs
      <4>1. obs.eligible = TRUE
        BY <2>1, <3>1 DEF DataOK, ObsOK
      <4>2. obs = [config |-> obs.config, bar |-> obs.bar, eligible |-> obs.eligible]
        BY DEF DataOK, ObsOK
      <4> QED
        BY <4>1, <4>2
    <3>2. good => \A b \in Window(data, obs.bar, h) : b.real
      BY <2>1
    <3> QED
      BY <2>4, <3>1, <3>2
  <2> QED
    BY <2>2, <2>3, <2>4, <2>5, <2>6 DEF OutcomeOK
<1>5. ASSUME NEW o \in added
      PROVE  /\ OutcomeOK(data, gone, o)
             /\ \E due \in Due(data) : /\ o = Outcome(data, due[1], due[2])
                                       /\ o.config = due[1].config /\ o.bar = due[1].bar /\ o.h = due[2]
  <2>1. PICK due \in Due(data) : o = Outcome(data, due[1], due[2])
    BY <1>2
  <2> QED
    BY <1>3, <1>4, <2>1
<1>6. ASSUME NEW o \in new.outcomes PROVE OutcomeOK(new, gone, o)
  <2>1. OutcomeOK(data, gone, o)
    BY <1>1, <1>5 DEF DataOK, OutcomesOK
  <2> QED
    BY <1>1, <2>1 DEF OutcomeOK
<1>7. ASSUME NEW o \in new.outcomes, NEW p \in new.outcomes,
             p.config = o.config, p.bar = o.bar, p.h = o.h
      PROVE  p = o
  <2>1. CASE o \in data.outcomes /\ p \in data.outcomes
    BY <1>7, <2>1 DEF DataOK, OutcomesOK
  <2>2. CASE o \in added /\ p \in data.outcomes
    BY <1>3, <1>5, <1>7, <2>2
  <2>3. CASE o \in data.outcomes /\ p \in added
    BY <1>3, <1>5, <1>7, <2>3
  <2>4. CASE o \in added /\ p \in added
    <3>1. PICK d \in Due(data) : /\ o = Outcome(data, d[1], d[2])
                                 /\ o.config = d[1].config /\ o.bar = d[1].bar /\ o.h = d[2]
      BY <1>5, <2>4
    <3>2. PICK e \in Due(data) : /\ p = Outcome(data, e[1], e[2])
                                 /\ p.config = e[1].config /\ p.bar = e[1].bar /\ p.h = e[2]
      BY <1>5, <2>4
    <3>3. d[1] = e[1] /\ d[2] = e[2]
      BY <1>3, <1>7, <3>1, <3>2 DEF DataOK, ObsOK
    <3> QED
      BY <3>1, <3>2, <3>3
  <2> QED
    BY <1>1, <2>1, <2>2, <2>3, <2>4
<1>8. DataOK(new, gone)
  BY <1>1, <1>6, <1>7 DEF DataOK, OutcomesOK
<1>9. Due(new) = {}
  <2>1. SUFFICES ASSUME NEW due \in Due(new) PROVE FALSE
    OBVIOUS
  <2>2. /\ due \in new.obs \X ShadowHorizons
        /\ Cardinality(Later(new, due[1].bar)) >= due[2]
        /\ ~\E o \in new.outcomes : o.config = due[1].config /\ o.bar = due[1].bar /\ o.h = due[2]
    BY DEF Due
  <2>3. Later(new, due[1].bar) = Later(data, due[1].bar)
    BY <1>1 DEF Later
  <2>4. due \in Due(data)
    BY <1>1, <2>2, <2>3 DEF Due
  <2>5. PICK o : o = Outcome(data, due[1], due[2])
    OBVIOUS
  <2>6. o \in new.outcomes
    BY <1>1, <1>2, <2>4, <2>5
  <2>7. o.config = due[1].config /\ o.bar = due[1].bar /\ o.h = due[2]
    BY <1>3, <1>4, <2>4, <2>5
  <2> QED
    BY <2>2, <2>6, <2>7
<1> QED
  BY <1>1, <1>8, <1>9

\* The number that the next bar, or the one that forms, has after it.
Reach == newest + (IF forming THEN 1 ELSE 0)

ShadowTypeOK ==
    /\ shadowRows \in BOOLEAN /\ forming \in BOOLEAN /\ whole \in BOOLEAN
    /\ newest \in Nat \ {0} /\ shadowTroubles \in Nat
    /\ {"at", "now", "todo", "decide", "bar"} \subseteq DOMAIN tick
    /\ tick.now \in Nat /\ tick.now <= newest
    /\ \A d \in tick.decide : d.bar = tick.now
    /\ skipped \subseteq Nat /\ \A n \in skipped : n + History <= Reach

\* The store and the file, with what the file has before a start takes it.
ShelvesOK ==
    /\ DataOK(shelf, skipped) /\ DataOK(filed, skipped)
    /\ ~shadowRows => shelf.bars \subseteq filed.bars /\ shelf.obs \subseteq filed.obs
    /\ UpTo(shelf.bars, newest) /\ UpTo(filed.bars, newest)
    /\ tick.at # "idle" => UpTo(shelf.bars, tick.now) /\ UpTo(filed.bars, tick.now)
    /\ \A n \in 1..newest : n + History <= Reach => n \in Numbers(shelf.bars) \/ n \in skipped

ShadowInv ==
    /\ ShadowTypeOK /\ ShelvesOK
    /\ answered \subseteq shelf.obs
    /\ whole /\ tick.at # "settle" => Due(shelf) = {}

\* More bars that were skipped excuse no less.
LEMMA DataStaysOK ==
    ASSUME NEW data, NEW gone, NEW more, gone \subseteq more, DataOK(data, gone)
    PROVE  DataOK(data, more)
<1>1. NoneMissing(data.bars, more)
  BY DEF DataOK, NoneMissing
<1>2. OutcomesOK(data, more)
  BY DEF DataOK, OutcomesOK, OutcomeOK
<1> QED
  BY <1>1, <1>2 DEF DataOK

\* What is served is kept as it was first seen, and misses nothing that may still come.
LEMMA WithBarsIsOK ==
    ASSUME ShadowInv, tick.at # "idle", NEW real \in BOOLEAN, NEW new, new = WithBars(shelf, real)
    PROVE  /\ DataOK(new, skipped) /\ UpTo(new.bars, tick.now)
           /\ shelf.bars \subseteq new.bars /\ new.obs = shelf.obs /\ new.outcomes = shelf.outcomes
<1>1. /\ ShadowTypeOK /\ DataOK(shelf, skipped) /\ UpTo(shelf.bars, tick.now)
      /\ \A n \in 1..newest : n + History <= Reach => n \in Numbers(shelf.bars) \/ n \in skipped
      /\ History \in Nat \ {0}
  BY ShadowAssumption DEF ShadowInv, ShelvesOK
<1> DEFINE fresh == Served \ Numbers(shelf.bars)
           added == {[n |-> n, real |-> real] : n \in fresh}
<1>2. /\ new.bars = shelf.bars \cup added /\ new.obs = shelf.obs /\ new.outcomes = shelf.outcomes
      /\ DOMAIN new = DOMAIN shelf
  BY <1>1 DEF WithBars, DataOK
<1>3. \A n : n \in Served <=> n \in 1..tick.now /\ n + History > Reach
  BY DEF Served, Reach
<1>4. \A b \in added : b.n \in fresh /\ b.real = real /\ b = [n |-> b.n, real |-> real]
  OBVIOUS
<1>5. ASSUME NEW n \in fresh PROVE \E b \in added : b.n = n
  <2>1. [n |-> n, real |-> real] \in added
    OBVIOUS
  <2>2. [n |-> n, real |-> real].n = n
    OBVIOUS
  <2> QED
    BY <2>1, <2>2
<1>6. IsFiniteSet(added)
  <2>1. fresh \in SUBSET (1..tick.now)
    BY <1>3
  <2>2. IsFiniteSet(fresh)
    <3>1. IsFiniteSet(1..tick.now)
      BY <1>1, FS_Interval DEF ShadowTypeOK
    <3> QED
      BY <2>1, <3>1, FS_Subset
  <2> DEFINE f == [n \in fresh |-> [n |-> n, real |-> real]]
  <2>3. f \in Surjection(fresh, added)
    BY DEF Surjection
  <2> HIDE DEF f, fresh, added
  <2> QED
    BY <2>2, <2>3, FS_Surjection
<1> HIDE DEF added
<1>7. BarsOK(new.bars)
  <2>1. IsFiniteSet(new.bars)
    <3>1. IsFiniteSet(shelf.bars)
      BY <1>1 DEF DataOK, BarsOK
    <3>2. IsFiniteSet(shelf.bars \cup added)
      BY <1>6, <3>1, FS_Union
    <3> QED
      BY <1>2, <3>2
  <2>2. \A b \in added : b.n \in Nat \ {0} /\ b.n \notin Numbers(shelf.bars)
    BY <1>1, <1>3, <1>4 DEF ShadowTypeOK
  <2>3. \A b, c \in new.bars : b.n = c.n => b = c
    BY <1>1, <1>2, <1>4, <2>2 DEF DataOK, BarsOK, Numbers
  <2>4. \A b \in new.bars : b.n \in Nat \ {0} /\ b.real \in BOOLEAN
    BY <1>1, <1>2, <1>4, <2>2 DEF DataOK, BarsOK
  <2> QED
    BY <2>1, <2>3, <2>4 DEF BarsOK
<1>8. UpTo(new.bars, tick.now)
  BY <1>1, <1>2, <1>3, <1>4 DEF UpTo, ShadowTypeOK
<1>9. NoneMissing(new.bars, skipped)
  <2>1. ASSUME NEW b \in new.bars, NEW n \in 1..b.n PROVE n \in Numbers(new.bars) \/ n \in skipped
    <3>1. n \in 1..tick.now /\ n \in 1..newest
      BY <1>1, <1>7, <1>8 DEF UpTo, BarsOK, ShadowTypeOK
    <3>2. n + History > Reach \/ n + History <= Reach
      BY <1>1, <3>1 DEF Reach, ShadowTypeOK
    <3>3. CASE n + History <= Reach
      BY <1>1, <1>2, <3>1, <3>3 DEF Numbers
    <3>4. CASE n + History > Reach
      BY <1>2, <1>3, <1>5, <3>1, <3>4 DEF Numbers
    <3> QED
      BY <3>2, <3>3, <3>4
  <2> QED
    BY <2>1 DEF NoneMissing
<1>10. ASSUME NEW o \in new.outcomes PROVE OutcomeOK(new, skipped, o)
  <2>1. OutcomeOK(shelf, skipped, o)
    BY <1>1, <1>2 DEF DataOK, OutcomesOK
  <2>2. o.exit \in Numbers(new.bars)
    BY <1>2, <2>1 DEF OutcomeOK, Numbers
  <2>3. ASSUME NEW b \in new.bars, o.bar < b.n, b.n <= o.exit PROVE b \in shelf.bars
    <3>1. SUFFICES ASSUME b \in added PROVE FALSE
      BY <1>2
    <3>2. b.n \in Served /\ b.n \notin Numbers(shelf.bars)
      BY <1>4, <3>1
    <3>3. PICK e \in shelf.bars : o.exit = e.n
      BY <2>1 DEF OutcomeOK, Numbers
    <3>4. b.n \in 1..e.n
      BY <1>1, <1>3, <2>3, <3>2, <3>3 DEF ShadowTypeOK, DataOK, BarsOK
    <3>5. b.n \in skipped
      BY <1>1, <3>2, <3>3, <3>4 DEF DataOK, NoneMissing
    <3>6. b.n + History <= Reach /\ b.n + History > Reach
      BY <1>1, <1>3, <3>2, <3>5 DEF ShadowTypeOK
    <3>7. b.n + History \in Nat /\ Reach \in Nat
      <4>1. b.n \in Nat /\ newest \in Nat /\ forming \in BOOLEAN /\ History \in Nat
        BY <1>1, <3>5 DEF ShadowTypeOK
      <4> QED
        BY <4>1 DEF Reach
    <3> QED
      BY <3>6, <3>7
  <2> QED
    BY <1>2, <2>1, <2>2, <2>3 DEF OutcomeOK
<1>11. OutcomesOK(new, skipped) /\ ObsOK(new.obs)
  BY <1>1, <1>2, <1>10 DEF DataOK, OutcomesOK
<1> QED
  BY <1>1, <1>2, <1>7, <1>8, <1>9, <1>11 DEF DataOK

\* The store and the file after a write, whichever of them it reached.
LEMMA ShelvesMove ==
    ASSUME ShadowInv, tick.at # "idle", NEW new, DataOK(new, skipped), UpTo(new.bars, tick.now),
           shelf.bars \subseteq new.bars, shelf.obs \subseteq new.obs,
           UNCHANGED <<shadowRows, newest, forming, skipped>>, tick'.now = tick.now,
           \/ shadowRows /\ shelf' \in {shelf, new} /\ filed' = filed
           \/ ~shadowRows /\ shelf' \in {shelf, new} /\ filed' = new
           \/ ~shadowRows /\ shelf' = shelf /\ filed' = filed
    PROVE  ShelvesOK'
<1>1. /\ ShelvesOK /\ tick.now \in Nat /\ newest \in Nat /\ tick.now <= newest /\ Reach' = Reach
  BY DEF ShadowInv, ShadowTypeOK, Reach
<1>2. /\ UpTo(shelf.bars, tick.now) /\ UpTo(filed.bars, tick.now)
      /\ DataOK(shelf, skipped) /\ DataOK(filed, skipped)
  BY <1>1 DEF ShelvesOK
<1>3. ASSUME NEW data \in {shelf, filed, new}
      PROVE  DataOK(data, skipped) /\ UpTo(data.bars, newest) /\ UpTo(data.bars, tick.now)
  <2>1. DataOK(data, skipped) /\ UpTo(data.bars, tick.now)
    BY <1>2
  <2>2. \A b \in data.bars : b.n \in Nat /\ b.n <= tick.now
    BY <2>1 DEF DataOK, BarsOK, UpTo
  <2> QED
    BY <1>1, <2>1, <2>2 DEF UpTo
<1>4. shelf' \in {shelf, new} /\ filed' \in {filed, new}
  OBVIOUS
<1>5. shelf.bars \subseteq shelf'.bars
  BY <1>4
<1>6. \A n \in 1..newest : n + History <= Reach => n \in Numbers(shelf'.bars) \/ n \in skipped
  BY <1>1, <1>5 DEF ShelvesOK, Numbers
<1>7. ~shadowRows => shelf'.bars \subseteq filed'.bars /\ shelf'.obs \subseteq filed'.obs
  BY <1>1 DEF ShelvesOK
<1>8. /\ DataOK(shelf', skipped) /\ DataOK(filed', skipped)
      /\ UpTo(shelf'.bars, newest) /\ UpTo(filed'.bars, newest)
      /\ UpTo(shelf'.bars, tick.now) /\ UpTo(filed'.bars, tick.now)
  BY <1>3, <1>4
<1> QED
  BY <1>1, <1>6, <1>7, <1>8 DEF ShelvesOK

\* One write.
LEMMA WriteMoves ==
    ASSUME ShadowInv, NEW new, Write(new)
    PROVE  /\ shadowTroubles' \in Nat
           /\ \/ shadowRows /\ shelf' \in {shelf, new} /\ filed' = filed
              \/ ~shadowRows /\ shelf' \in {shelf, new} /\ filed' = new
              \/ ~shadowRows /\ shelf' = shelf /\ filed' = filed
           /\ Succeeded \in BOOLEAN /\ (Succeeded => shelf' = new)
<1>1. shadowRows \in BOOLEAN /\ shadowTroubles \in Nat
  BY DEF ShadowInv, ShadowTypeOK
<1>2. Trouble => shadowTroubles' = shadowTroubles + 1 /\ shadowTroubles' # shadowTroubles
  BY <1>1 DEF Trouble
<1> QED
  BY <1>1, <1>2 DEF Write, Succeeded

\* The tick after the bars of a config are marked.
LEMMA MarkedTick ==
    ASSUME ShadowInv, NEW k \in ShadowConfigs, NEW next,
           next = BarsMarked(k) \/ next = [BarsMarked(k) EXCEPT !.at = "settle"]
    PROVE  /\ DOMAIN next = DOMAIN tick /\ next.now = tick.now
           /\ next.at = IF next = BarsMarked(k) THEN "mark" ELSE "settle"
           /\ \A d \in next.decide : d.bar = tick.now
<1>1. /\ {"at", "now", "todo", "decide", "bar"} \subseteq DOMAIN tick
      /\ \A d \in tick.decide : d.bar = tick.now
  BY DEF ShadowInv, ShadowTypeOK
<1>2. PICK marked : marked = BarsMarked(k)
  OBVIOUS
<1>3. PICK todo, decide :
        /\ todo = tick.todo \ {k}
        /\ decide = IF ~forming /\ newest = tick.now /\ newest > cursor[k]
                    THEN tick.decide \cup {[config |-> k, bar |-> newest]} ELSE tick.decide
  OBVIOUS
<1>4. marked = [tick EXCEPT !.at = "mark", !.todo = todo, !.decide = decide]
  BY <1>2, <1>3 DEF BarsMarked
<1>5. DOMAIN marked = DOMAIN tick /\ marked.now = tick.now /\ marked.at = "mark" /\ marked.decide = decide
  BY <1>1, <1>4
<1>6. \A d \in decide : d.bar = tick.now
  BY <1>1, <1>3
<1>7. CASE next = marked
  BY <1>2, <1>5, <1>6, <1>7
<1>8. CASE next = [marked EXCEPT !.at = "settle"] /\ next # marked
  <2>1. DOMAIN next = DOMAIN marked /\ next.now = marked.now /\ next.at = "settle"
        /\ next.decide = marked.decide
    BY <1>1, <1>5, <1>8
  <2> QED
    BY <1>2, <1>5, <1>6, <1>8, <2>1
<1> QED
  BY <1>2, <1>7, <1>8

\* The bar that drops out of the served history is kept, or counted as skipped.
LEMMA FormBarKeepsShadow ==
    ASSUME ShadowInv, FormBar PROVE ShadowInv'
<1>1. /\ ShadowTypeOK /\ ShelvesOK /\ ~forming /\ forming' = TRUE /\ History \in Nat \ {0}
      /\ skipped' = skipped \cup
                    {n \in 1 .. newest : n + History <= newest + 1 /\ n \notin Numbers(shelf.bars)}
      /\ UNCHANGED <<shadowRows, newest, shelf, filed, cursor, tick, answered, whole, shadowTroubles>>
  BY ShadowAssumption DEF ShadowInv, FormBar
<1>2. newest \in Nat \ {0} /\ Reach = newest /\ Reach' = newest + 1
  BY <1>1 DEF ShadowTypeOK, Reach
<1>3. skipped \subseteq skipped' /\ skipped' \subseteq Nat
  <2>1. \A n \in skipped' : n \in skipped \/ n \in 1..newest
    BY <1>1
  <2>2. \A n \in 1..newest : n \in Nat
    BY <1>2
  <2>3. skipped \subseteq Nat
    BY <1>1 DEF ShadowTypeOK
  <2> QED
    BY <1>1, <2>1, <2>2, <2>3
<1>4. ASSUME NEW n \in skipped' PROVE n + History <= newest + 1
  <2>1. CASE n \in skipped
    <3>1. n \in Nat /\ n + History <= newest
      BY <1>1, <1>2, <2>1 DEF ShadowTypeOK
    <3> QED
      BY <1>1, <1>2, <3>1
  <2> QED
    BY <1>1, <2>1
<1>5. ShadowTypeOK'
  BY <1>1, <1>2, <1>3, <1>4 DEF ShadowTypeOK
<1>6. DataOK(shelf, skipped') /\ DataOK(filed, skipped')
  BY <1>1, <1>3, DataStaysOK DEF ShelvesOK
<1>7. \A n \in 1..newest : n + History <= newest + 1 => n \in Numbers(shelf.bars) \/ n \in skipped'
  BY <1>1
<1>8. ShelvesOK'
  BY <1>1, <1>2, <1>6, <1>7 DEF ShelvesOK
<1> QED
  BY <1>1, <1>5, <1>8 DEF ShadowInv, Due, Later

\* The bar that forms completes; the served history ends where it did.
LEMMA EndBarKeepsShadow ==
    ASSUME ShadowInv, EndBar PROVE ShadowInv'
<1>1. /\ ShadowTypeOK /\ ShelvesOK /\ forming /\ forming' = FALSE /\ newest' = newest + 1
      /\ UNCHANGED <<shadowRows, shelf, filed, cursor, tick, skipped, answered, whole, shadowTroubles>>
      /\ History \in Nat \ {0}
  BY ShadowAssumption DEF ShadowInv, EndBar
<1>2. newest \in Nat \ {0} /\ Reach = newest + 1 /\ Reach' = newest + 1
  BY <1>1 DEF ShadowTypeOK, Reach
<1>3. ShadowTypeOK'
  <2>1. newest' \in Nat \ {0} /\ tick.now \in Nat /\ tick.now <= newest + 1
    BY <1>1, <1>2 DEF ShadowTypeOK
  <2>2. \A n \in skipped : n + History <= Reach'
    BY <1>1, <1>2 DEF ShadowTypeOK
  <2> QED
    BY <1>1, <2>1, <2>2 DEF ShadowTypeOK
<1>4. ASSUME NEW data \in {shelf, filed} PROVE UpTo(data.bars, newest + 1)
  <2>1. \A b \in data.bars : b.n \in Nat /\ b.n <= newest
    BY <1>1 DEF ShelvesOK, UpTo, DataOK, BarsOK
  <2> QED
    BY <1>2, <2>1 DEF UpTo
<1>5. ASSUME NEW n \in 1..newest + 1, n + History <= newest + 1
      PROVE  n \in Numbers(shelf.bars) \/ n \in skipped
  <2>1. n \in 1..newest
    BY <1>1, <1>2, <1>5
  <2> QED
    BY <1>1, <1>2, <1>5, <2>1 DEF ShelvesOK
<1>6. ShelvesOK'
  BY <1>1, <1>2, <1>4, <1>5 DEF ShelvesOK
<1> QED
  BY <1>1, <1>3, <1>6 DEF ShadowInv, Due, Later

\* What moves the tick, and the file to what is in memory.
LEMMA TickMovesOn ==
    ASSUME ShadowInv, UNCHANGED <<shadowRows, newest, forming, shelf, skipped, answered, whole,
                                  shadowTroubles>>,
           filed' \in {filed, shelf},
           {"at", "now", "todo", "decide", "bar"} \subseteq DOMAIN tick',
           tick'.now \in Nat, tick'.now <= newest, \A d \in tick'.decide : d.bar = tick'.now,
           tick.at = "settle" => tick'.at = "settle",
           tick'.at = "idle" \/ tick'.now = newest \/ (tick.at # "idle" /\ tick'.now = tick.now)
    PROVE  ShadowInv'
<1>1. ShadowTypeOK /\ ShelvesOK /\ newest \in Nat /\ Reach' = Reach
  BY DEF ShadowInv, ShadowTypeOK, Reach
<1>2. ShadowTypeOK'
  BY <1>1 DEF ShadowTypeOK
<1>3. ASSUME NEW data \in {shelf, filed}
      PROVE  /\ DataOK(data, skipped) /\ UpTo(data.bars, newest)
             /\ tick'.at # "idle" => UpTo(data.bars, tick'.now)
  BY <1>1 DEF ShelvesOK
<1>4. shelf' = shelf /\ filed' \in {filed, shelf}
  OBVIOUS
<1>5. ~shadowRows => shelf'.bars \subseteq filed'.bars /\ shelf'.obs \subseteq filed'.obs
  BY <1>1, <1>4 DEF ShelvesOK
<1>6. \A n \in 1..newest : n + History <= Reach => n \in Numbers(shelf'.bars) \/ n \in skipped
  BY <1>1, <1>4 DEF ShelvesOK
<1>7. ShelvesOK'
  BY <1>1, <1>3, <1>4, <1>5, <1>6 DEF ShelvesOK
<1> QED
  BY <1>2, <1>4, <1>7 DEF ShadowInv, Due, Later

\* The steps of a tick that write no bar, no observation and no outcome.
LEMMA QuietStepsKeepShadow ==
    ASSUME ShadowInv,
           \/ StartTick \/ FinishTick
           \/ \E k \in ShadowConfigs : MarkNothing(k)
           \/ \E d \in tick.decide, yes \in BOOLEAN : DecideNothing(d, yes)
           \/ \E consumed \in BOOLEAN : RecordDecision(consumed)
    PROVE  ShadowInv'
<1>1. /\ ShadowTypeOK /\ newest \in Nat \ {0}
      /\ {"at", "now", "todo", "decide", "bar"} \subseteq DOMAIN tick
      /\ tick.now \in Nat /\ tick.now <= newest /\ \A d \in tick.decide : d.bar = tick.now
  BY DEF ShadowInv, ShadowTypeOK
<1>2. CASE StartTick
  <2>1. /\ UNCHANGED <<shadowRows, newest, forming, shelf, filed, skipped, answered, whole, shadowTroubles>>
        /\ tick.at = "idle"
        /\ tick' = [at |-> "mark", now |-> newest, todo |-> ShadowConfigs, decide |-> {}, bar |-> 0]
    BY <1>2 DEF StartTick, NoTick
  <2>2. /\ {"at", "now", "todo", "decide", "bar"} \subseteq DOMAIN tick'
        /\ tick'.now = newest /\ tick'.decide = {} /\ tick'.at = "mark"
    BY <2>1
  <2> QED
    BY <1>1, <2>1, <2>2, TickMovesOn
<1>3. CASE FinishTick
  <2>1. /\ UNCHANGED <<shadowRows, newest, forming, shelf, filed, skipped, answered, whole, shadowTroubles>>
        /\ tick.at = "mark"
        /\ tick' = [at |-> "idle", now |-> 0, todo |-> {}, decide |-> {}, bar |-> 0]
    BY <1>3 DEF FinishTick, NoTick
  <2>2. /\ {"at", "now", "todo", "decide", "bar"} \subseteq DOMAIN tick'
        /\ tick'.now = 0 /\ tick'.decide = {} /\ tick'.at = "idle" /\ 0 <= newest
    BY <1>1, <2>1
  <2> QED
    BY <1>1, <2>1, <2>2, TickMovesOn
<1>4. ASSUME NEW k \in ShadowConfigs, MarkNothing(k) PROVE ShadowInv'
  <2>1. /\ UNCHANGED <<shadowRows, newest, forming, shelf, filed, skipped, answered, whole, shadowTroubles>>
        /\ tick.at = "mark" /\ tick' = [tick EXCEPT !.todo = @ \ {k}]
    BY <1>4 DEF MarkNothing
  <2>2. /\ {"at", "now", "todo", "decide", "bar"} \subseteq DOMAIN tick'
        /\ tick'.now = tick.now /\ tick'.decide = tick.decide /\ tick'.at = "mark"
    BY <1>1, <2>1
  <2> QED
    BY <1>1, <2>1, <2>2, TickMovesOn
<1>5. ASSUME NEW d \in tick.decide, NEW yes \in BOOLEAN, DecideNothing(d, yes) PROVE ShadowInv'
  <2>1. /\ UNCHANGED <<shadowRows, newest, forming, shelf, skipped, answered, whole, shadowTroubles>>
        /\ filed' \in {filed, shelf}
        /\ tick.at = "mark" /\ tick' = [tick EXCEPT !.decide = @ \ {d}]
    BY <1>5 DEF DecideNothing
  <2>2. /\ {"at", "now", "todo", "decide", "bar"} \subseteq DOMAIN tick'
        /\ tick'.now = tick.now /\ tick'.decide = tick.decide \ {d} /\ tick'.at = "mark"
    BY <1>1, <2>1
  <2>3. \A e \in tick'.decide : e.bar = tick'.now
    BY <1>1, <2>2
  <2> QED
    BY <1>1, <2>1, <2>2, <2>3, TickMovesOn
<1>6. ASSUME NEW consumed \in BOOLEAN, RecordDecision(consumed) PROVE ShadowInv'
  <2>1. /\ UNCHANGED <<shadowRows, newest, forming, shelf, skipped, answered, whole, shadowTroubles>>
        /\ filed' \in {filed, shelf}
        /\ tick.at = "record" /\ tick' = [tick EXCEPT !.at = "mark", !.todo = {}, !.bar = 0]
    BY <1>6 DEF RecordDecision
  <2>2. /\ {"at", "now", "todo", "decide", "bar"} \subseteq DOMAIN tick'
        /\ tick'.now = tick.now /\ tick'.decide = tick.decide
    BY <1>1, <2>1
  <2> QED
    BY <1>1, <2>1, <2>2, TickMovesOn
<1> QED
  BY <1>2, <1>3, <1>4, <1>5, <1>6

\* A write in a tick: what is written holds of itself, and nothing due is missing if it should not be.
LEMMA WriteKeepsShadow ==
    ASSUME ShadowInv, tick.at # "idle", NEW new, DataOK(new, skipped), UpTo(new.bars, tick.now),
           shelf.bars \subseteq new.bars, shelf.obs \subseteq new.obs,
           UNCHANGED <<shadowRows, newest, forming, skipped>>, shadowTroubles' \in Nat,
           whole' \in BOOLEAN,
           \/ shadowRows /\ shelf' \in {shelf, new} /\ filed' = filed
           \/ ~shadowRows /\ shelf' \in {shelf, new} /\ filed' = new
           \/ ~shadowRows /\ shelf' = shelf /\ filed' = filed,
           {"at", "now", "todo", "decide", "bar"} \subseteq DOMAIN tick', tick'.now = tick.now,
           \A d \in tick'.decide : d.bar = tick.now,
           answered' \subseteq shelf'.obs,
           whole' /\ tick'.at # "settle" => Due(shelf') = {}
    PROVE  ShadowInv'
<1>1. ShelvesOK'
  BY ShelvesMove
<1>2. ShadowTypeOK /\ Reach' = Reach
  BY DEF ShadowInv, Reach
<1>3. ShadowTypeOK'
  BY <1>2 DEF ShadowTypeOK
<1>4. whole' /\ tick'.at # "settle" => Due(shelf)' = {}
  BY DEF Due, Later
<1> QED
  BY <1>1, <1>3, <1>4 DEF ShadowInv

\* On files the bars and what they settle are one write.
LEMMA MarkFileKeepsShadow ==
    ASSUME ShadowInv, NEW k \in ShadowConfigs, MarkFile(k) PROVE ShadowInv'
<1>1. PICK kept : kept = WithBars(shelf, TRUE)
  OBVIOUS
<1>2. PICK new : new = Settled(kept)
  OBVIOUS
<1>3. /\ tick.at = "mark" /\ Write(new) /\ whole' = Succeeded /\ tick' = BarsMarked(k)
      /\ UNCHANGED <<shadowRows, newest, forming, skipped, answered>>
  BY <1>1, <1>2 DEF MarkFile
<1>4. /\ DataOK(kept, skipped) /\ UpTo(kept.bars, tick.now) /\ tick.now \in Nat
      /\ shelf.bars \subseteq kept.bars /\ kept.obs = shelf.obs
  BY <1>1, <1>3, WithBarsIsOK DEF ShadowInv, ShadowTypeOK
<1>5. DataOK(new, skipped) /\ new.bars = kept.bars /\ new.obs = kept.obs /\ Due(new) = {}
  BY <1>2, <1>4, SettledIsOK
<1>6. /\ shadowTroubles' \in Nat /\ whole' \in BOOLEAN /\ (whole' => shelf' = new)
      /\ \/ shadowRows /\ shelf' \in {shelf, new} /\ filed' = filed
         \/ ~shadowRows /\ shelf' \in {shelf, new} /\ filed' = new
         \/ ~shadowRows /\ shelf' = shelf /\ filed' = filed
  BY <1>3, WriteMoves
<1>7. /\ {"at", "now", "todo", "decide", "bar"} \subseteq DOMAIN tick' /\ tick'.now = tick.now
      /\ \A d \in tick'.decide : d.bar = tick.now
  BY <1>3, MarkedTick DEF ShadowInv, ShadowTypeOK
<1>8. answered' \subseteq shelf'.obs
  BY <1>3, <1>4, <1>5, <1>6 DEF ShadowInv
<1> QED
  BY <1>3, <1>4, <1>5, <1>6, <1>7, <1>8, WriteKeepsShadow

\* Synthetic bars are kept as such, and what they settle is not eligible.
LEMMA MarkSyntheticKeepsShadow ==
    ASSUME ShadowInv, NEW k \in ShadowConfigs, MarkSynthetic(k) PROVE ShadowInv'
<1>1. PICK kept : kept = WithBars(shelf, FALSE)
  OBVIOUS
<1>2. PICK new : new = Settled(kept)
  OBVIOUS
<1>3. /\ tick.at = "mark" /\ Trouble /\ shelf' = new /\ filed' = (IF shadowRows THEN filed ELSE new)
      /\ whole' = TRUE /\ tick' = BarsMarked(k)
      /\ UNCHANGED <<shadowRows, newest, forming, skipped, answered>>
  BY <1>1, <1>2 DEF MarkSynthetic
<1>4. /\ DataOK(kept, skipped) /\ UpTo(kept.bars, tick.now) /\ tick.now \in Nat
      /\ shelf.bars \subseteq kept.bars /\ kept.obs = shelf.obs
  BY <1>1, <1>3, WithBarsIsOK DEF ShadowInv, ShadowTypeOK
<1>5. DataOK(new, skipped) /\ new.bars = kept.bars /\ new.obs = kept.obs /\ Due(new) = {}
  BY <1>2, <1>4, SettledIsOK
<1>6. shadowTroubles' \in Nat /\ shadowRows \in BOOLEAN
  BY <1>3 DEF ShadowInv, ShadowTypeOK, Trouble
<1>7. /\ {"at", "now", "todo", "decide", "bar"} \subseteq DOMAIN tick' /\ tick'.now = tick.now
      /\ \A d \in tick'.decide : d.bar = tick.now
  BY <1>3, MarkedTick DEF ShadowInv, ShadowTypeOK
<1>8. answered' \subseteq shelf'.obs
  BY <1>3, <1>4, <1>5 DEF ShadowInv
<1>9. \/ shadowRows /\ shelf' \in {shelf, new} /\ filed' = filed
      \/ ~shadowRows /\ shelf' \in {shelf, new} /\ filed' = new
      \/ ~shadowRows /\ shelf' = shelf /\ filed' = filed
  BY <1>3, <1>6
<1> QED
  BY <1>3, <1>4, <1>5, <1>6, <1>7, <1>8, <1>9, WriteKeepsShadow

\* On PostgreSQL the bars are written first: what they make due is owed by the next step.
LEMMA InsertBarsKeepsShadow ==
    ASSUME ShadowInv, NEW k \in ShadowConfigs, InsertBars(k) PROVE ShadowInv'
<1>1. PICK new : new = WithBars(shelf, TRUE)
  OBVIOUS
<1>2. PICK marked : marked = BarsMarked(k)
  OBVIOUS
<1>3. /\ tick.at = "mark" /\ Write(new) /\ whole' = Succeeded /\ tick' = [marked EXCEPT !.at = "settle"]
      /\ UNCHANGED <<shadowRows, newest, forming, skipped, answered>>
  BY <1>1, <1>2 DEF InsertBars
<1>4. /\ DataOK(new, skipped) /\ UpTo(new.bars, tick.now)
      /\ shelf.bars \subseteq new.bars /\ new.obs = shelf.obs
  BY <1>1, <1>3, WithBarsIsOK
<1>5. /\ shadowTroubles' \in Nat /\ whole' \in BOOLEAN
      /\ \/ shadowRows /\ shelf' \in {shelf, new} /\ filed' = filed
         \/ ~shadowRows /\ shelf' \in {shelf, new} /\ filed' = new
         \/ ~shadowRows /\ shelf' = shelf /\ filed' = filed
  BY <1>3, WriteMoves
<1>6. /\ {"at", "now", "todo", "decide", "bar"} \subseteq DOMAIN marked
      /\ marked.now = tick.now /\ \A d \in marked.decide : d.bar = tick.now
  BY <1>2, MarkedTick DEF ShadowInv, ShadowTypeOK
<1>7. /\ {"at", "now", "todo", "decide", "bar"} \subseteq DOMAIN tick' /\ tick'.now = tick.now
      /\ \A d \in tick'.decide : d.bar = tick.now
      /\ tick'.at = "settle"
  BY <1>3, <1>6
<1>8. answered' \subseteq shelf'.obs
  BY <1>3, <1>4, <1>5 DEF ShadowInv
<1> QED
  BY <1>3, <1>4, <1>5, <1>7, <1>8, WriteKeepsShadow

\* And then what is due by what the tables hold.
LEMMA InsertOutcomesKeepsShadow ==
    ASSUME ShadowInv, InsertOutcomes PROVE ShadowInv'
<1>1. PICK new : new = Settled(shelf)
  OBVIOUS
<1>2. /\ tick.at = "settle" /\ Write(new) /\ whole' = (whole /\ Succeeded)
      /\ tick' = [tick EXCEPT !.at = "mark"]
      /\ UNCHANGED <<shadowRows, newest, forming, skipped, answered>>
  BY <1>1 DEF InsertOutcomes
<1>3. DataOK(shelf, skipped) /\ UpTo(shelf.bars, tick.now) /\ tick.now \in Nat /\ whole \in BOOLEAN
  BY <1>2 DEF ShadowInv, ShadowTypeOK, ShelvesOK
<1>4. DataOK(new, skipped) /\ new.bars = shelf.bars /\ new.obs = shelf.obs /\ Due(new) = {}
  BY <1>1, <1>3, SettledIsOK
<1>5. /\ shadowTroubles' \in Nat /\ whole' \in BOOLEAN /\ (whole' => shelf' = new)
      /\ \/ shadowRows /\ shelf' \in {shelf, new} /\ filed' = filed
         \/ ~shadowRows /\ shelf' \in {shelf, new} /\ filed' = new
         \/ ~shadowRows /\ shelf' = shelf /\ filed' = filed
  BY <1>2, <1>3, WriteMoves
<1>6. /\ {"at", "now", "todo", "decide", "bar"} \subseteq DOMAIN tick' /\ tick'.now = tick.now
      /\ \A d \in tick'.decide : d.bar = tick.now
  BY <1>2 DEF ShadowInv, ShadowTypeOK
<1>7. answered' \subseteq shelf'.obs
  BY <1>2, <1>4, <1>5 DEF ShadowInv
<1> QED
  BY <1>2, <1>3, <1>4, <1>5, <1>6, <1>7, WriteKeepsShadow

\* The first quote of a bar: nothing is due of it yet.
LEMMA ObservedIsOK ==
    ASSUME ShadowInv, tick.at # "idle", NEW d \in tick.decide, IsFirst(d), NEW eligible \in BOOLEAN,
           NEW obs, obs = [config |-> d.config, bar |-> d.bar, eligible |-> eligible],
           NEW new, new = [shelf EXCEPT !.obs = @ \cup {obs}]
    PROVE  /\ DataOK(new, skipped) /\ UpTo(new.bars, tick.now)
           /\ new.bars = shelf.bars /\ new.obs = shelf.obs \cup {obs}
           /\ Due(shelf) = {} => Due(new) = {}
<1>1. /\ DataOK(shelf, skipped) /\ UpTo(shelf.bars, tick.now) /\ tick.now \in Nat /\ d.bar = tick.now
  BY DEF ShadowInv, ShadowTypeOK, ShelvesOK
<1>2. /\ new.bars = shelf.bars /\ new.obs = shelf.obs \cup {obs} /\ new.outcomes = shelf.outcomes
      /\ DOMAIN new = DOMAIN shelf
  BY <1>1 DEF DataOK
<1>3. /\ obs.config = d.config /\ obs.bar = tick.now /\ obs.eligible = eligible
      /\ obs = [config |-> obs.config, bar |-> obs.bar, eligible |-> obs.eligible]
  BY <1>1
<1>4. ObsOK(new.obs)
  <2>1. \A o \in shelf.obs : ~(o.config = obs.config /\ o.bar = obs.bar)
    BY <1>1, <1>3 DEF IsFirst
  <2>2. ObsOK(shelf.obs)
    BY <1>1 DEF DataOK
  <2>3. \A o, p \in new.obs : o.config = p.config /\ o.bar = p.bar => o = p
    BY <1>2, <2>1, <2>2 DEF ObsOK
  <2>4. ASSUME NEW o \in new.obs
        PROVE  /\ o.bar \in Nat /\ o.eligible \in BOOLEAN
               /\ o = [config |-> o.config, bar |-> o.bar, eligible |-> o.eligible]
    <3>1. CASE o = obs
      BY <1>1, <1>3, <3>1
    <3>2. CASE o \in shelf.obs
      BY <2>2, <3>2 DEF ObsOK
    <3> QED
      BY <1>2, <3>1, <3>2
  <2> QED
    BY <2>3, <2>4 DEF ObsOK
<1>5. OutcomesOK(new, skipped)
  BY <1>1, <1>2 DEF DataOK, OutcomesOK, OutcomeOK
<1>6. DataOK(new, skipped)
  BY <1>1, <1>2, <1>4, <1>5 DEF DataOK
<1>7. ASSUME Due(shelf) = {}, NEW due \in Due(new) PROVE FALSE
  <2>1. /\ due \in new.obs \X ShadowHorizons
        /\ Cardinality(Later(new, due[1].bar)) >= due[2]
        /\ ~\E o \in new.outcomes : o.config = due[1].config /\ o.bar = due[1].bar /\ o.h = due[2]
    BY <1>7 DEF Due
  <2>2. Later(new, due[1].bar) = Later(shelf, due[1].bar)
    BY <1>2 DEF Later
  <2>3. due[1] = obs
    <3>1. SUFFICES ASSUME due[1] \in shelf.obs PROVE FALSE
      BY <1>2, <2>1
    <3>2. due \in shelf.obs \X ShadowHorizons
      BY <2>1, <3>1
    <3>3. due \in Due(shelf)
      BY <1>2, <2>1, <2>2, <3>2 DEF Due
    <3> QED
      BY <1>7, <3>3
  <2>4. Later(shelf, tick.now) = {}
    <3>1. \A b \in shelf.bars : b.n \in Nat /\ b.n <= tick.now
      BY <1>1 DEF DataOK, BarsOK, UpTo
    <3> QED
      BY <1>1, <3>1 DEF Later
  <2>5. Cardinality(Later(new, due[1].bar)) = 0
    BY <1>3, <2>2, <2>3, <2>4, FS_EmptySet
  <2>6. due[2] \in Nat \ {0}
    BY <2>1, ShadowAssumption
  <2> QED
    BY <2>1, <2>5, <2>6
<1> QED
  BY <1>1, <1>2, <1>6, <1>7

\* A first quote is kept whether its answer comes or not, and a second one changes nothing.
LEMMA ObserveKeepsShadow ==
    ASSUME ShadowInv, NEW d \in tick.decide, NEW eligible \in BOOLEAN, Observe(d, eligible)
    PROVE  ShadowInv'
<1>1. PICK obs : obs = [config |-> d.config, bar |-> d.bar, eligible |-> eligible]
  OBVIOUS
<1>2. /\ tick.at = "mark"
      /\ IF IsFirst(d) THEN Write([shelf EXCEPT !.obs = @ \cup {obs}])
                       ELSE UNCHANGED <<shelf, filed, shadowTroubles>>
      /\ answered' = IF IsFirst(d) /\ Succeeded THEN answered \cup {obs} ELSE answered
      /\ tick' = [tick EXCEPT !.at = "record", !.todo = {d.config}, !.decide = @ \ {d}, !.bar = d.bar]
      /\ UNCHANGED <<shadowRows, newest, forming, cursor, skipped, whole>>
  BY <1>1 DEF Observe
<1>3. /\ {"at", "now", "todo", "decide", "bar"} \subseteq DOMAIN tick /\ tick.now <= newest
      /\ \A e \in tick.decide : e.bar = tick.now
      /\ newest \in Nat /\ tick.now \in Nat /\ whole \in BOOLEAN
      /\ (whole => Due(shelf) = {}) /\ answered \subseteq shelf.obs
  BY <1>2 DEF ShadowInv, ShadowTypeOK
<1>4. /\ {"at", "now", "todo", "decide", "bar"} \subseteq DOMAIN tick' /\ tick'.now = tick.now
      /\ tick'.at = "record" /\ tick'.decide = tick.decide \ {d}
  <2>1. PICK todo, rest : todo = {d.config} /\ rest = tick.decide \ {d}
    OBVIOUS
  <2>2. tick' = [tick EXCEPT !.at = "record", !.todo = todo, !.decide = rest, !.bar = d.bar]
    BY <1>2, <2>1
  <2>3. DOMAIN tick' = DOMAIN tick /\ tick'.now = tick.now /\ tick'.at = "record" /\ tick'.decide = rest
    BY <1>3, <2>2
  <2> QED
    BY <1>3, <2>1, <2>3
<1>5. \A e \in tick'.decide : e.bar = tick.now
  BY <1>3, <1>4
<1>6. CASE IsFirst(d)
  <2>1. PICK new : new = [shelf EXCEPT !.obs = @ \cup {obs}]
    OBVIOUS
  <2>2. /\ DataOK(new, skipped) /\ UpTo(new.bars, tick.now)
        /\ new.bars = shelf.bars /\ new.obs = shelf.obs \cup {obs}
        /\ Due(shelf) = {} => Due(new) = {}
    BY <1>1, <1>2, <1>6, <2>1, ObservedIsOK
  <2>3. Write(new) /\ answered' = IF Succeeded THEN answered \cup {obs} ELSE answered
    BY <1>2, <1>6, <2>1
  <2>4. /\ shadowTroubles' \in Nat /\ (Succeeded => shelf' = new)
        /\ \/ shadowRows /\ shelf' \in {shelf, new} /\ filed' = filed
           \/ ~shadowRows /\ shelf' \in {shelf, new} /\ filed' = new
           \/ ~shadowRows /\ shelf' = shelf /\ filed' = filed
    BY <2>3, WriteMoves
  <2>5. answered' \subseteq shelf'.obs
    <3>1. CASE Succeeded
      BY <1>3, <2>2, <2>3, <2>4, <3>1
    <3>2. CASE ~Succeeded
      BY <1>3, <2>2, <2>3, <2>4, <3>2
    <3> QED
      BY <3>1, <3>2
  <2>6. whole' => Due(shelf') = {}
    BY <1>2, <1>3, <2>2, <2>4
  <2> QED
    BY <1>2, <1>3, <1>4, <1>5, <2>2, <2>4, <2>5, <2>6, WriteKeepsShadow
<1>7. CASE ~IsFirst(d)
  <2>1. UNCHANGED <<shadowRows, newest, forming, shelf, filed, skipped, answered, whole, shadowTroubles>>
    BY <1>2, <1>7
  <2> QED
    BY <1>2, <1>3, <1>4, <1>5, <2>1, TickMovesOn
<1> QED
  BY <1>6, <1>7

\* A start takes the file, which has all that the memory had, or the tables.
LEMMA RestartKeepsShadow ==
    ASSUME ShadowInv, RestartShadow PROVE ShadowInv'
<1>1. /\ shadowTroubles' = shadowTroubles + 1
      /\ shelf' = (IF shadowRows THEN shelf ELSE filed)
      /\ tick' = [at |-> "idle", now |-> 0, todo |-> {}, decide |-> {}, bar |-> 0] /\ whole' = FALSE
      /\ UNCHANGED <<shadowRows, newest, forming, filed, skipped, answered>>
  BY DEF RestartShadow, Trouble, NoTick
<1>2. ShadowTypeOK /\ ShelvesOK /\ answered \subseteq shelf.obs /\ Reach' = Reach /\ newest \in Nat
  BY <1>1 DEF ShadowInv, ShadowTypeOK, Reach
<1>3. /\ {"at", "now", "todo", "decide", "bar"} \subseteq DOMAIN tick'
      /\ tick'.now = 0 /\ tick'.decide = {} /\ tick'.at = "idle" /\ shadowTroubles' \in Nat
  BY <1>1, <1>2 DEF ShadowTypeOK
<1>4. ShadowTypeOK'
  <2>1. tick'.now \in Nat /\ tick'.now <= newest' /\ \A d \in tick'.decide : d.bar = tick'.now
    BY <1>1, <1>2, <1>3
  <2>2. \A n \in skipped' : n + History <= Reach'
    BY <1>1, <1>2 DEF ShadowTypeOK
  <2> QED
    BY <1>1, <1>2, <1>3, <2>1, <2>2 DEF ShadowTypeOK
<1>5. shelf' \in {shelf, filed} /\ shelf.bars \subseteq shelf'.bars /\ shelf.obs \subseteq shelf'.obs
  BY <1>1, <1>2 DEF ShelvesOK
<1>6. \A n \in 1..newest : n + History <= Reach => n \in Numbers(shelf'.bars) \/ n \in skipped
  BY <1>2, <1>5 DEF ShelvesOK, Numbers
<1>7. DataOK(shelf', skipped) /\ UpTo(shelf'.bars, newest)
  BY <1>2, <1>5 DEF ShelvesOK
<1>8. ~shadowRows => shelf'.bars \subseteq filed'.bars /\ shelf'.obs \subseteq filed'.obs
  BY <1>1
<1>9. ShelvesOK'
  BY <1>1, <1>2, <1>3, <1>6, <1>7, <1>8 DEF ShelvesOK
<1> QED
  BY <1>1, <1>2, <1>4, <1>5, <1>9 DEF ShadowInv

\* The invariant of the store, of the file, and of the tick in progress.
LEMMA ShadowInvHolds == ShadowSpec => []ShadowInv
<1>1. ShadowInit => ShadowInv
  <2> SUFFICES ASSUME ShadowInit PROVE ShadowInv
    OBVIOUS
  <2>1. /\ shadowRows \in BOOLEAN /\ newest = 1 /\ forming = FALSE
        /\ shelf = [obs |-> {}, bars |-> {}, outcomes |-> {}] /\ filed = shelf
        /\ tick = [at |-> "idle", now |-> 0, todo |-> {}, decide |-> {}, bar |-> 0]
        /\ skipped = {} /\ answered = {} /\ whole = FALSE /\ shadowTroubles = 0
    BY DEF ShadowInit, NoData, NoTick
  <2>2. /\ shelf.obs = {} /\ shelf.bars = {} /\ shelf.outcomes = {}
        /\ {"obs", "bars", "outcomes"} \subseteq DOMAIN shelf
    BY <2>1
  <2>3. DataOK(shelf, skipped) /\ UpTo(shelf.bars, newest)
    BY <2>2, FS_EmptySet DEF DataOK, BarsOK, ObsOK, NoneMissing, OutcomesOK, UpTo
  <2>4. /\ {"at", "now", "todo", "decide", "bar"} \subseteq DOMAIN tick
        /\ tick.now = 0 /\ tick.decide = {} /\ tick.at = "idle"
    BY <2>1
  <2>5. ShadowTypeOK
    <3>1. tick.now \in Nat /\ tick.now <= newest /\ newest \in Nat \ {0}
      BY <2>1, <2>4
    <3> QED
      BY <2>1, <2>4, <3>1 DEF ShadowTypeOK
  <2>6. \A n \in 1..newest : ~(n + History <= Reach)
    BY <2>1, ShadowAssumption DEF Reach
  <2> QED
    BY <2>1, <2>2, <2>3, <2>4, <2>5, <2>6 DEF ShadowInv, ShelvesOK
<1>2. ShadowInv /\ [ShadowNext]_shadowVars => ShadowInv'
  <2> SUFFICES ASSUME ShadowInv, [ShadowNext]_shadowVars PROVE ShadowInv'
    OBVIOUS
  <2>1. CASE FormBar
    BY <2>1, FormBarKeepsShadow
  <2>2. CASE EndBar
    BY <2>2, EndBarKeepsShadow
  <2>3. CASE StartTick \/ FinishTick
    BY <2>3, QuietStepsKeepShadow
  <2>4. CASE InsertOutcomes
    BY <2>4, InsertOutcomesKeepsShadow
  <2>5. CASE RestartShadow
    BY <2>5, RestartKeepsShadow
  <2>6. ASSUME NEW k \in ShadowConfigs, MarkFile(k) \/ MarkSynthetic(k) \/ MarkNothing(k) \/ InsertBars(k)
        PROVE  ShadowInv'
    BY <2>6, MarkFileKeepsShadow, MarkSyntheticKeepsShadow, QuietStepsKeepShadow, InsertBarsKeepsShadow
  <2>7. ASSUME NEW d \in tick.decide, NEW yes \in BOOLEAN, DecideNothing(d, yes) \/ Observe(d, yes)
        PROVE  ShadowInv'
    BY <2>7, QuietStepsKeepShadow, ObserveKeepsShadow
  <2>8. ASSUME NEW consumed \in BOOLEAN, RecordDecision(consumed) PROVE ShadowInv'
    BY <2>8, QuietStepsKeepShadow
  <2>9. CASE UNCHANGED shadowVars
    BY <2>9 DEF ShadowInv, ShadowTypeOK, ShelvesOK, Reach, DataOK, ObsOK, OutcomesOK, OutcomeOK,
                NoneMissing, UpTo, Due, Later, shadowVars
  <2> QED
    BY <2>1, <2>2, <2>3, <2>4, <2>5, <2>6, <2>7, <2>8, <2>9 DEF ShadowNext
<1> QED
  BY <1>1, <1>2, PTL DEF ShadowSpec

\* An outcome is of the horizon it names, unless a bar in between had left the served history before
\* any tick kept it; it is settled once, from the quote that was kept first; an answered observation
\* is never lost nor replaced; and after a good save nothing that is due is missing
\* (SaveShadowBars, SaveShadowObservation and settleShadowOutcomes of src/paper/store.go).
THEOREM OutcomesAreTheirHorizon == ShadowSpec => []OutcomeIsItsHorizon
<1>1. ShadowInv => OutcomeIsItsHorizon
  <2> SUFFICES ASSUME ShadowInv PROVE OutcomeIsItsHorizon
    OBVIOUS
  <2>1. DataOK(shelf, skipped) /\ ObsOK(shelf.obs) /\ OutcomesOK(shelf, skipped)
    BY DEF ShadowInv, ShelvesOK, DataOK
  <2>2. \A o \in shelf.outcomes : OutcomeOK(shelf, skipped, o)
    BY <2>1 DEF OutcomesOK
  <2>3. answered \subseteq shelf.obs /\ (whole /\ tick.at # "settle" => Due(shelf) = {})
    BY DEF ShadowInv
  <2> QED
    BY <2>1, <2>2, <2>3 DEF OutcomeIsItsHorizon, OutcomeOK, OutcomesOK, ObsOK
<1> QED
  BY <1>1, ShadowInvHolds, PTL
=============================================================================
