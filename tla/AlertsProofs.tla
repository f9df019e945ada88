----------------------------- MODULE AlertsProofs -----------------------------
(***************************************************************************)
(* Theorems about the alerts service.                                      *)
(***************************************************************************)
EXTENDS AlertRules, ThesisMonitor, SequenceTheorems, FiniteSetTheorems, WellFoundedInduction, TLAPS

-----------------------------------------------------------------------------
(***************************************************************************)
(* Alert rules (AlertRules).                                               *)
(***************************************************************************)
RuleRecord == [kind : Kinds, target : Values, active : BOOLEAN,
               state : Values \cup {NoState}, last : Nat, born : Nat]
EventRecord == [rule : RuleIds, ts : Nat \ {0}, target : Values, rearmed : BOOLEAN]

\* The phases of a pass, as records of their fields.
SavingPass == [phase |-> "save", at |-> pass.at, firing |-> pass.firing, targets |-> pass.targets,
               updates |-> pass.updates]
AppendingPass == [phase |-> "append", at |-> pass.at, firing |-> pass.firing, targets |-> pass.targets,
                  armed |-> pass.armed]

RulesTypeOK ==
    /\ clock \in Nat \ {0}
    /\ rules \in [DOMAIN rules -> RuleRecord] /\ saved \in [DOMAIN saved -> RuleRecord]
    /\ events \in Seq(EventRecord)
    /\ DOMAIN rules \subseteq issued /\ DOMAIN saved \subseteq issued /\ issued \subseteq RuleIds
    /\ \A i \in DOMAIN events : events[i].rule \in issued
    /\ rearmed \in [RuleIds -> SUBSET Values]
    /\ pass # NoPass =>
          /\ pass.phase \in {"save", "append"}
          /\ pass.phase = "save" => pass = SavingPass
          /\ pass.phase = "append" => pass = AppendingPass
          /\ pass.at \in Nat \ {0}
          /\ pass.firing \subseteq issued
          /\ \A id \in pass.firing : pass.targets[id] \in Values
    /\ \A c \in Editors : edit[c] # NoCopy =>
          edit[c].rule \in RuleRecord /\ edit[c].id \in issued

\* A deleted rule is in neither copy, and an acknowledged mark is in both.
Acknowledgements ==
    /\ deleted \subseteq issued /\ deleted \cap (DOMAIN rules \cup DOMAIN saved) = {}
    /\ marks = [upTo |-> marks.upTo, ids |-> marks.ids]
    /\ savedMarks = [upTo |-> savedMarks.upTo, ids |-> savedMarks.ids]
    /\ {marks.upTo, savedMarks.upTo} \subseteq Nat
    /\ marks.upTo <= savedMarks.upTo /\ savedMarks.upTo <= clock
    /\ marks.ids \subseteq savedMarks.ids

\* An edit's copy, memory and what is written agree on what kind of rule it is.
KindsAgree ==
    /\ \A id \in DOMAIN rules \cap DOMAIN saved : rules[id].kind = saved[id].kind
    /\ \A c \in Editors : \A id \in DOMAIN rules \cup DOMAIN saved :
          edit[c] # NoCopy /\ edit[c].id = id =>
              /\ id \in DOMAIN rules => edit[c].rule.kind = rules[id].kind
              /\ id \in DOMAIN saved => edit[c].rule.kind = saved[id].kind

\* What is written has the cooldowns of memory.
CooldownsAgree ==
    \A id \in DOMAIN saved : saved[id].last = IF id \in DOMAIN rules THEN rules[id].last ELSE 0

Pending(id) == pass.phase = "append" /\ id \in pass.firing

\* No alert of a rule is later than its cooldown's start.
Timely(m) == \A id \in DOMAIN m : \A j \in DOMAIN events : events[j].rule = id => events[j].ts <= m[id].last

Apart == \A i, j \in DOMAIN events :
            i < j /\ events[i].rule = events[j].rule => events[j].ts - events[i].ts >= Cooldown

Recorded(id, last) ==
    \/ \E i \in DOMAIN events : events[i].rule = id /\ events[i].ts = last
    \/ Pending(id) /\ pass.at = last
    \/ <<id, last>> \in lost
Started == \A id \in DOMAIN rules : rules[id].last > 0 => Recorded(id, rules[id].last)

\* There was an alert about the condition, or it is about to be.
Told(id, t) ==
    \/ \E j \in DOMAIN events : events[j].rule = id /\ events[j].target = t
    \/ Pending(id) /\ pass.targets[id] = t

\* A condition that was told and not armed again is the one that the edge memory holds.
Remembered(m) ==
    \A id \in DOMAIN m : m[id].kind \notin {"change", "cadence"} =>
        \A t \in Values : Told(id, t) => t \in rearmed[id] \/ m[id].state = t

Once(m) ==
    \A id \in DOMAIN m : m[id].kind # "cadence" =>
        \A j \in DOMAIN events : events[j].rule = id =>
            events[j].rearmed \/ \A i \in 1 .. j - 1 : ~SameCondition(events[i], events[j])

\* What is true of a rule that is about to be told of.
Fired(m) ==
    \A id \in DOMAIN m \cap pass.firing : m[id].kind # "cadence" =>
        \/ pass.phase = "save" /\ pass.targets[id] \in rearmed[id]
        \/ pass.phase = "append" /\ id \in pass.armed
        \/ \A j \in DOMAIN events : ~(events[j].rule = id /\ events[j].target = pass.targets[id])

Rests(id) == \A j \in DOMAIN events : events[j].rule = id => pass.at - events[j].ts >= Cooldown

\* What a pass has found still holds of the rules when it is saved.
Saving ==
    /\ pass.firing \subseteq DOMAIN pass.updates /\ DOMAIN pass.updates \subseteq issued
    /\ \A id \in DOMAIN pass.updates :
          /\ pass.updates[id].last \in Nat
          /\ pass.updates[id].state \in Values \cup {NoState}
          /\ id \in pass.firing => pass.updates[id].last = pass.at
          /\ id \in DOMAIN rules =>
                /\ id \notin pass.firing => pass.updates[id].last = rules[id].last
                /\ id \in pass.firing => rules[id].last # pass.at
                /\ rules[id].kind \notin {"change", "cadence"} =>
                      /\ id \in pass.firing => pass.targets[id] = pass.updates[id].state
                      /\ \A t \in Values : t \in rearmed[id] \/ pass.updates[id].state = t
    /\ (\E id \in pass.firing : id \notin DOMAIN rules) => CooldownsAgree

Appending ==
    /\ CooldownsAgree
    /\ \A id \in pass.firing \cap DOMAIN rules : rules[id].last = pass.at

PassInv ==
    /\ pass # NoPass =>
          /\ pass.firing \cap DOMAIN saved \subseteq DOMAIN rules
          /\ \A id \in pass.firing : Rests(id)
          /\ Fired(rules) /\ Fired(saved)
    /\ pass.phase = "save" => Saving
    /\ pass.phase = "append" => Appending

RulesInv ==
    /\ RulesTypeOK /\ Acknowledgements /\ KindsAgree
    /\ Timely(rules) /\ Timely(saved) /\ Apart /\ Started
    /\ Remembered(rules) /\ Remembered(saved) /\ Once(rules) /\ Once(saved)
    /\ PassInv
-----------------------------------------------------------------------------
\* A rule's fields, for the proofs that leave the record set folded.
LEMMA RuleFields ==
    ASSUME NEW r \in RuleRecord
    PROVE  /\ r.last \in Nat /\ r.state \in Values \cup {NoState} /\ r.target \in Values
           /\ r.kind \in Kinds /\ r.born \in Nat /\ r.active \in BOOLEAN
BY DEF RuleRecord

\* What an edit leaves of a rule: its own kind, and the rule's cooldown.
LEMMA ReplacedRule ==
    ASSUME NEW r \in RuleRecord, NEW copy \in RuleRecord, NEW next \in Merged(copy)
    PROVE  LET u == Replacement(r, next) IN
           u \in RuleRecord /\ u.kind = copy.kind /\ u.last = r.last
<1>1. next \in RuleRecord /\ next.kind = copy.kind
  BY DEF Merged, RuleRecord
<1> QED
  BY <1>1 DEF Replacement, RuleRecord

\* A rule as it is created.
LEMMA CreatedRule ==
    ASSUME NEW kind \in Kinds, NEW target \in Values, clock \in Nat
    PROVE  NewRule(kind, target) \in RuleRecord /\ NewRule(kind, target).last = 0
BY DEF NewRule, RuleRecord

-----------------------------------------------------------------------------
\* What a request that writes the rules does, whatever becomes of the write.
EditStep(new) ==
    /\ Persist(new) \/ UNCHANGED <<rules, saved>>
    /\ new \in [DOMAIN new -> RuleRecord] /\ DOMAIN new \subseteq issued'
    /\ \A id \in DOMAIN new :
          \/ /\ id \in DOMAIN rules
             /\ new[id].kind = rules[id].kind /\ new[id].last = rules[id].last
             /\ new[id].state = rules[id].state \/ (saved' = new => rearmed'[id] = Values)
          \/ id \notin issued /\ new[id].last = 0
    /\ issued \subseteq issued' /\ issued' \subseteq RuleIds
    /\ rearmed' \in [RuleIds -> SUBSET Values]
    /\ \A id \in RuleIds : rearmed[id] \subseteq rearmed'[id]
    /\ deleted' \subseteq issued' /\ deleted' \cap (DOMAIN rules' \cup DOMAIN saved') = {}
    /\ \A c \in Editors : edit'[c] # NoCopy => edit'[c] = edit[c]
    /\ UNCHANGED <<clock, events, pass, lost, marks, savedMarks>>

\* Such a request keeps the invariant.
LEMMA EditKeeps ==
    ASSUME RulesInv, NEW new, EditStep(new)
    PROVE  RulesInv'
<1> USE DEF RulesInv
<1>1. \/ rules' = new /\ saved' = new
      \/ rules' = rules /\ saved' = saved
      \/ rules' = rules /\ saved' = new
  BY DEF EditStep, Persist
<1>2. UNCHANGED <<clock, events, pass, lost, marks, savedMarks>>
  BY DEF EditStep
<1>3. /\ new \in [DOMAIN new -> RuleRecord] /\ DOMAIN new \subseteq issued' /\ issued \subseteq issued'
      /\ rearmed' \in [RuleIds -> SUBSET Values] /\ issued' \subseteq RuleIds
      /\ \A id \in RuleIds : rearmed[id] \subseteq rearmed'[id]
      /\ \A c \in Editors : edit'[c] # NoCopy => edit'[c] = edit[c]
  BY DEF EditStep
<1>4. ASSUME NEW id \in DOMAIN new
      PROVE  \/ /\ id \in DOMAIN rules
                /\ new[id].kind = rules[id].kind /\ new[id].last = rules[id].last
                /\ new[id].state = rules[id].state \/ (saved' = new => rearmed'[id] = Values)
             \/ id \notin issued /\ new[id].last = 0
  BY DEF EditStep
<1>5. RulesTypeOK'
  BY <1>1, <1>2, <1>3 DEF RulesTypeOK, SavingPass, AppendingPass
<1>6. Acknowledgements'
  BY <1>2 DEF Acknowledgements, EditStep
<1>7. KindsAgree'
  <2>1. \A id \in DOMAIN new \cap DOMAIN saved : id \in issued => new[id].kind = saved[id].kind
    BY <1>4 DEF KindsAgree
  <2>2. \A id \in DOMAIN new \cap DOMAIN rules : id \in issued => new[id].kind = rules[id].kind
    BY <1>4
  <2>3. DOMAIN rules \subseteq issued /\ DOMAIN saved \subseteq issued
        /\ \A c \in Editors : edit[c] # NoCopy => edit[c].id \in issued
    BY DEF RulesTypeOK
  <2>4. \A id \in DOMAIN new : id \in issued => id \in DOMAIN rules
    BY <1>4
  <2>5. \A id \in DOMAIN rules' \cap DOMAIN saved' : rules'[id].kind = saved'[id].kind
    BY <1>1, <2>1, <2>2, <2>3 DEF KindsAgree
  <2>6. ASSUME NEW c \in Editors, NEW id \in DOMAIN rules' \cup DOMAIN saved',
               edit'[c] # NoCopy, edit'[c].id = id
        PROVE  /\ id \in DOMAIN rules' => edit'[c].rule.kind = rules'[id].kind
               /\ id \in DOMAIN saved' => edit'[c].rule.kind = saved'[id].kind
    <3>1. edit[c] # NoCopy /\ edit'[c] = edit[c] /\ edit[c].id = id /\ id \in issued
      BY <1>3, <2>3, <2>6
    <3>2. id \in DOMAIN rules => edit[c].rule.kind = rules[id].kind
      BY <3>1 DEF KindsAgree
    <3>3. id \in DOMAIN saved => edit[c].rule.kind = saved[id].kind
      BY <3>1 DEF KindsAgree
    <3> QED
      BY <1>1, <3>1, <3>2, <3>3, <2>2, <2>4
  <2> QED
    BY <2>5, <2>6 DEF KindsAgree
<1>8. Timely(rules)' /\ Timely(saved)'
  <2>1. Timely(new)
    BY <1>4 DEF Timely, RulesTypeOK
  <2> QED
    BY <1>1, <1>2, <2>1 DEF Timely
<1>9. Apart'
  BY <1>2 DEF Apart
<1>10. Started'
  <2>1. ASSUME NEW id \in DOMAIN new, new[id].last > 0
        PROVE  Recorded(id, new[id].last)
    <3>1. id \in DOMAIN rules /\ new[id].last = rules[id].last
      BY <1>4, <2>1
    <3> QED
      BY <2>1, <3>1 DEF Started
  <2> QED
    BY <1>1, <1>2, <2>1 DEF Started, Recorded, Pending
<1>11. Remembered(rules)' /\ Remembered(saved)'
  <2>1. \A id, t : Told(id, t)' <=> Told(id, t)
    BY <1>2 DEF Told, Pending
  <2>2. \A id, t : Told(id, t) => id \in issued
    BY DEF Told, Pending, NoPass, RulesTypeOK
  <2>3. saved' = new => \A id \in DOMAIN new : new[id].kind \notin {"change", "cadence"} =>
            \A t \in Values : Told(id, t) => t \in rearmed'[id] \/ new[id].state = t
    <3> SUFFICES ASSUME saved' = new, NEW id \in DOMAIN new, new[id].kind \notin {"change", "cadence"},
                        NEW t \in Values, Told(id, t)
                 PROVE  t \in rearmed'[id] \/ new[id].state = t
      OBVIOUS
    <3>1. /\ id \in DOMAIN rules /\ id \in RuleIds
          /\ new[id].kind = rules[id].kind
          /\ new[id].state = rules[id].state \/ rearmed'[id] = Values
      BY <1>4, <2>2 DEF RulesTypeOK
    <3>2. t \in rearmed[id] \/ rules[id].state = t
      BY <3>1 DEF Remembered
    <3> QED
      BY <1>3, <3>1, <3>2
  <2>4. ASSUME NEW m, Remembered(m), DOMAIN m \subseteq RuleIds
        PROVE  \A id \in DOMAIN m : m[id].kind \notin {"change", "cadence"} =>
                 \A t \in Values : Told(id, t) => t \in rearmed'[id] \/ m[id].state = t
    BY <1>3, <2>4 DEF Remembered
  <2>5. DOMAIN rules \subseteq RuleIds /\ DOMAIN saved \subseteq RuleIds
    BY DEF RulesTypeOK
  <2>6. Remembered(rules)'
    BY <1>1, <2>1, <2>3, <2>4, <2>5 DEF Remembered
  <2>7. Remembered(saved)'
    BY <1>1, <2>1, <2>3, <2>4, <2>5 DEF Remembered
  <2> QED
    BY <2>6, <2>7
<1>12. Once(rules)' /\ Once(saved)'
  <2>1. Once(new)
    BY <1>4 DEF Once, RulesTypeOK
  <2> QED
    BY <1>1, <1>2, <2>1 DEF Once, SameCondition
<1>13. PassInv'
  <2>1. ASSUME pass # NoPass PROVE pass.firing \cap DOMAIN saved' \subseteq DOMAIN rules'
    BY <1>1, <1>4, <2>1 DEF PassInv, RulesTypeOK
  <2>2. ASSUME pass # NoPass PROVE \A id \in pass.firing : Rests(id)'
    BY <1>2, <2>2 DEF PassInv, Rests
  <2>3. ASSUME pass # NoPass PROVE Fired(rules)' /\ Fired(saved)'
    <3>1. Fired(rules) /\ Fired(saved) /\ pass.firing \subseteq issued /\ issued \subseteq RuleIds
      BY <2>3 DEF PassInv, RulesTypeOK
    <3>2. Fired(new)
      BY <1>4, <3>1 DEF Fired
    <3> QED
      BY <1>1, <1>2, <1>3, <3>1, <3>2 DEF Fired
  <2>4. CooldownsAgree => CooldownsAgree'
    BY <1>1, <1>4 DEF CooldownsAgree, RulesTypeOK
  <2>5. saved' = new => \A id \in DOMAIN saved' : saved'[id].last = IF id \in DOMAIN rules' THEN rules'[id].last ELSE 0
    BY <1>1, <1>4 DEF RulesTypeOK
  <2>6. ASSUME pass.phase = "save" PROVE Saving'
    <3>1. Saving /\ pass # NoPass /\ pass.firing \subseteq issued
      BY <2>6 DEF PassInv, NoPass, RulesTypeOK
    <3>2. (\E id \in pass.firing : id \notin DOMAIN rules') => CooldownsAgree'
      BY <1>1, <3>1, <2>4, <2>5 DEF Saving, CooldownsAgree
    <3>3. ASSUME NEW id \in DOMAIN pass.updates, id \in DOMAIN rules'
          PROVE  /\ id \notin pass.firing => pass.updates[id].last = rules'[id].last
                 /\ id \in pass.firing => rules'[id].last # pass.at
                 /\ rules'[id].kind \notin {"change", "cadence"} =>
                      /\ id \in pass.firing => pass.targets[id] = pass.updates[id].state
                      /\ \A t \in Values : t \in rearmed'[id] \/ pass.updates[id].state = t
      <4>1. id \in issued /\ id \in RuleIds /\ rearmed[id] \subseteq rearmed'[id]
        BY <1>3, <3>1 DEF Saving, RulesTypeOK
      <4>2. /\ id \in DOMAIN rules
            /\ rules'[id].kind = rules[id].kind /\ rules'[id].last = rules[id].last
        BY <1>1, <1>4, <3>3, <4>1
      <4> QED
        BY <3>1, <4>1, <4>2 DEF Saving
    <3>4. DOMAIN pass.updates \subseteq issued'
      BY <1>3, <3>1 DEF Saving
    <3> QED
      BY <1>2, <3>1, <3>2, <3>3, <3>4 DEF Saving
  <2>7. ASSUME pass.phase = "append" PROVE Appending'
    <3>1. Appending /\ pass # NoPass /\ pass.firing \subseteq issued
      BY <2>7 DEF PassInv, NoPass, RulesTypeOK
    <3> QED
      BY <1>1, <1>2, <1>4, <2>4, <3>1 DEF Appending
  <2> QED
    BY <1>2, <2>1, <2>2, <2>3, <2>6, <2>7 DEF PassInv
<1> QED
  BY <1>5, <1>6, <1>7, <1>8, <1>9, <1>10, <1>11, <1>12, <1>13

\* The lemma's hypotheses of each of the three requests.
LEMMA CreateKeeps ==
    ASSUME RulesInv, CreateRule
    PROVE  RulesInv'
<1>1. PICK id \in RuleIds \ issued, kind \in Kinds, target \in Values :
        LET new == [i \in DOMAIN rules \cup {id} |-> IF i = id THEN NewRule(kind, target) ELSE rules[i]]
        IN  Persist(new) /\ issued' = issued \cup {id}
  BY DEF CreateRule
<1>2. UNCHANGED <<clock, events, pass, edit, rearmed, lost, deleted, marks, savedMarks>>
  BY DEF CreateRule, markVars
<1>3. PICK new : new = [i \in DOMAIN rules \cup {id} |-> IF i = id THEN NewRule(kind, target) ELSE rules[i]]
  OBVIOUS
<1>4. NewRule(kind, target) \in RuleRecord /\ NewRule(kind, target).last = 0
  BY CreatedRule DEF RulesInv, RulesTypeOK
<1>5. /\ DOMAIN new = DOMAIN rules \cup {id} /\ new \in [DOMAIN new -> RuleRecord]
      /\ new[id].last = 0 /\ \A i \in DOMAIN rules : new[i] = rules[i]
  BY <1>1, <1>3, <1>4 DEF RulesInv, RulesTypeOK
<1>6. Persist(new) /\ issued' = issued \cup {id}
  BY <1>1, <1>3
<1>7. deleted' \subseteq issued' /\ deleted' \cap (DOMAIN rules' \cup DOMAIN saved') = {}
  BY <1>1, <1>2, <1>5, <1>6 DEF RulesInv, Acknowledgements, Persist
<1>8. EditStep(new)
  BY <1>1, <1>2, <1>5, <1>6, <1>7 DEF EditStep, RulesInv, RulesTypeOK
<1> QED
  BY <1>8, EditKeeps

\* Replacing a rule keeps the invariant.
LEMMA ReplaceKeeps ==
    ASSUME RulesInv, NEW c \in Editors, ReplaceRule(c)
    PROVE  RulesInv'
<1>1. UNCHANGED <<clock, events, pass, lost, issued, deleted, marks, savedMarks>>
  BY DEF ReplaceRule, markVars
<1>2. edit[c] # NoCopy /\ \A d \in Editors : edit'[d] # NoCopy => edit'[d] = edit[d]
  BY DEF ReplaceRule
<1>3. edit[c].rule \in RuleRecord /\ edit[c].id \in issued /\ issued \subseteq RuleIds
  BY <1>2 DEF RulesInv, RulesTypeOK
<1>4. CASE edit[c].id \notin DOMAIN rules
  <2>1. UNCHANGED <<rules, saved, rearmed>>
    BY <1>4 DEF ReplaceRule
  <2>2. EditStep(rules)
    <3>2. /\ rules \in [DOMAIN rules -> RuleRecord] /\ DOMAIN rules \subseteq issued
          /\ rearmed \in [RuleIds -> SUBSET Values]
          /\ deleted \subseteq issued /\ deleted \cap (DOMAIN rules \cup DOMAIN saved) = {}
      BY DEF RulesInv, RulesTypeOK, Acknowledgements
    <3> QED
      BY <1>1, <1>2, <1>3, <2>1, <3>2 DEF EditStep
  <2> QED
    BY <2>2, EditKeeps
<1>5. CASE edit[c].id \in DOMAIN rules
  <2>1. PICK id \in DOMAIN rules : id = edit[c].id
    BY <1>5
  <2>2. PICK next \in Merged(edit[c].rule) :
          LET new == [rules EXCEPT ![id] = Replacement(rules[id], next)]
          IN  /\ Persist(new)
              /\ rearmed' = IF new[id].state # rules[id].state /\ saved' = new
                            THEN [rearmed EXCEPT ![id] = Values] ELSE rearmed
    BY <1>5, <2>1 DEF ReplaceRule
  <2>3. PICK new : new = [rules EXCEPT ![id] = Replacement(rules[id], next)]
    OBVIOUS
  <2>4. rules \in [DOMAIN rules -> RuleRecord] /\ rules[id] \in RuleRecord /\ id \in RuleIds
        /\ rearmed \in [RuleIds -> SUBSET Values]
    BY DEF RulesInv, RulesTypeOK
  <2>5. /\ Replacement(rules[id], next) \in RuleRecord
        /\ Replacement(rules[id], next).kind = edit[c].rule.kind
        /\ Replacement(rules[id], next).last = rules[id].last
    BY <1>3, <2>4, ReplacedRule
  <2>6. edit[c].rule.kind = rules[id].kind
    BY <1>2, <2>1 DEF RulesInv, KindsAgree
  <2>7. /\ DOMAIN new = DOMAIN rules /\ new \in [DOMAIN new -> RuleRecord]
        /\ new[id].kind = rules[id].kind /\ new[id].last = rules[id].last
        /\ \A i \in DOMAIN rules : i # id => new[i] = rules[i]
    BY <2>3, <2>4, <2>5, <2>6
  <2>8. /\ Persist(new)
        /\ rearmed' = IF new[id].state # rules[id].state /\ saved' = new
                      THEN [rearmed EXCEPT ![id] = Values] ELSE rearmed
    BY <2>2, <2>3
  <2>9. rearmed' \in [RuleIds -> SUBSET Values] /\ \A i \in RuleIds : rearmed[i] \subseteq rearmed'[i]
    BY <2>4, <2>8
  <2>10. new[id].state = rules[id].state \/ (saved' = new => rearmed'[id] = Values)
    BY <2>4, <2>8
  <2>11. deleted' \subseteq issued' /\ deleted' \cap (DOMAIN rules' \cup DOMAIN saved') = {}
    BY <1>1, <2>7, <2>8 DEF RulesInv, Acknowledgements, Persist
  <2>12. EditStep(new)
    BY <1>1, <1>2, <1>3, <2>7, <2>8, <2>9, <2>10, <2>11 DEF EditStep, RulesInv, RulesTypeOK
  <2> QED
    BY <2>12, EditKeeps
<1> QED
  BY <1>4, <1>5

\* Deleting a rule keeps the invariant.
LEMMA DeleteKeeps ==
    ASSUME RulesInv, DeleteRule
    PROVE  RulesInv'
<1>1. PICK id \in DOMAIN rules :
        LET new == Restrict(rules, DOMAIN rules \ {id})
        IN  /\ Persist(new)
            /\ deleted' = IF Acknowledged(new) THEN deleted \cup {id} ELSE deleted
  BY DEF DeleteRule
<1>2. UNCHANGED <<clock, events, pass, edit, rearmed, lost, issued, marks, savedMarks>>
  BY DEF DeleteRule, markVars
<1>3. PICK new : new = Restrict(rules, DOMAIN rules \ {id})
  OBVIOUS
<1>4. DOMAIN new = DOMAIN rules \ {id} /\ \A i \in DOMAIN new : new[i] = rules[i]
  BY <1>3 DEF Restrict
<1>5. new \in [DOMAIN new -> RuleRecord] /\ id \in issued
  BY <1>3, <1>4 DEF Restrict, RulesInv, RulesTypeOK
<1>6. Persist(new) /\ deleted' = IF rules' = new THEN deleted \cup {id} ELSE deleted
  BY <1>1, <1>3 DEF Acknowledged
<1>7. deleted' \subseteq issued' /\ deleted' \cap (DOMAIN rules' \cup DOMAIN saved') = {}
  BY <1>2, <1>4, <1>5, <1>6 DEF RulesInv, Acknowledgements, Persist
<1>8. EditStep(new)
  BY <1>2, <1>4, <1>5, <1>6, <1>7 DEF EditStep, RulesInv, RulesTypeOK
<1> QED
  BY <1>8, EditKeeps

-----------------------------------------------------------------------------
\* What it takes for a rule that is no cadence to fire.
LEMMA FiringRule ==
    ASSUME NEW r \in RuleRecord, NEW seen, NEW at, Fires(r, seen, at), r.kind # "cadence"
    PROVE  /\ r.kind = "change" => r.state # seen
           /\ r.kind # "change" => seen = r.target /\ r.state # seen
<1>1. r.kind \in {"enter", "turn", "change", "cadence"}
  BY RuleFields, RulesAssumption
<1> QED
  BY <1>1 DEF Fires, Enters, Turns, Changes

\* A pass starts with what is true of the rules it copied.
LEMMA StartKeeps ==
    ASSUME RulesInv, StartPass
    PROVE  RulesInv'
<1> USE DEF RulesInv
<1>1. PICK seen \in [DOMAIN rules -> Signals] :
        LET judged == {id \in DOMAIN rules :
                          rules[id].active /\ (rules[id].kind = "cadence" \/ seen[id] # "unknown")}
            update == [id \in judged |-> Update(rules[id], seen[id], clock)]
            firing == {id \in judged : Fires(rules[id], seen[id], clock) /\ Cooled(rules[id], clock)}
        IN  /\ pass' = [phase |-> "save", at |-> clock, firing |-> firing,
                        targets |-> [id \in firing |-> rules[id].target],
                        updates |-> Restrict(update, {id \in judged : Changed(rules[id], update[id])
                                                                      \/ id \in firing})]
            /\ rearmed' = [id \in RuleIds |->
                             rearmed[id] \cup IF id \in judged THEN SeenOff(rules[id], seen[id]) ELSE {}]
  BY DEF StartPass
<1>2. /\ pass = NoPass
      /\ UNCHANGED <<clock, rules, saved, events, edit, lost, issued, deleted, marks, savedMarks>>
  BY DEF StartPass, userVars, markVars
<1>3. PICK judged : judged = {id \in DOMAIN rules :
                          rules[id].active /\ (rules[id].kind = "cadence" \/ seen[id] # "unknown")}
  OBVIOUS
<1>4. PICK update : update = [id \in judged |-> Update(rules[id], seen[id], clock)]
  OBVIOUS
<1>5. PICK firing : firing = {id \in judged : Fires(rules[id], seen[id], clock) /\ Cooled(rules[id], clock)}
  OBVIOUS
<1>6. PICK targets : targets = [id \in firing |-> rules[id].target]
  OBVIOUS
<1>7. PICK due : due = {id \in judged : Changed(rules[id], update[id]) \/ id \in firing}
  OBVIOUS
<1>8. PICK updates : updates = Restrict(update, due)
  OBVIOUS
<1>9. /\ pass' = [phase |-> "save", at |-> clock, firing |-> firing, targets |-> targets, updates |-> updates]
      /\ rearmed' = [id \in RuleIds |->
                       rearmed[id] \cup IF id \in judged THEN SeenOff(rules[id], seen[id]) ELSE {}]
  BY <1>1, <1>3, <1>4, <1>5, <1>6, <1>7, <1>8
<1>10. /\ pass'.phase = "save" /\ pass'.at = clock /\ pass'.firing = firing /\ pass'.targets = targets
       /\ pass'.updates = updates /\ pass' # NoPass /\ pass' = SavingPass'
  BY <1>9 DEF NoPass, SavingPass
<1>11. /\ judged \subseteq DOMAIN rules /\ firing \subseteq judged /\ DOMAIN updates \subseteq judged
       /\ firing \subseteq DOMAIN updates
       /\ \A id \in DOMAIN updates : updates[id] = Update(rules[id], seen[id], clock)
  BY <1>3, <1>4, <1>5, <1>7, <1>8 DEF Restrict
<1>12. /\ clock \in Nat \ {0} /\ DOMAIN rules \subseteq issued /\ issued \subseteq RuleIds
       /\ \A id \in DOMAIN rules : rules[id] \in RuleRecord
       /\ rearmed \in [RuleIds -> SUBSET Values]
  BY DEF RulesTypeOK
<1>13. \A id \in DOMAIN rules : /\ rules[id].last \in Nat /\ rules[id].state \in Values \cup {NoState}
                                /\ rules[id].target \in Values
  BY <1>12, RuleFields
<1>14. \A id \in judged : rules[id].kind # "cadence" => seen[id] \in Values
  BY <1>3, <1>11 DEF Signals
<1>15. \A id \in RuleIds : rearmed[id] \subseteq rearmed'[id]
  BY <1>9, <1>12
<1>16. rearmed' \in [RuleIds -> SUBSET Values]
  BY <1>9, <1>12 DEF SeenOff
<1>17. \A id \in firing : targets[id] = rules[id].target
  BY <1>6
<1>18. \A id, t : Told(id, t)' => \E j \in DOMAIN events : events[j].rule = id /\ events[j].target = t
  BY <1>2, <1>10 DEF Told, Pending
<1>19. RulesTypeOK'
  BY <1>2, <1>10, <1>11, <1>12, <1>13, <1>16, <1>17 DEF RulesTypeOK
<1>20. Acknowledgements' /\ KindsAgree' /\ Timely(rules)' /\ Timely(saved)' /\ Apart'
       /\ Once(rules)' /\ Once(saved)'
  BY <1>2 DEF Acknowledgements, KindsAgree, Timely, Apart, Once, SameCondition
<1>21. Started'
  BY <1>2, <1>10 DEF Started, Recorded, Pending, NoPass
<1>22. Remembered(rules)' /\ Remembered(saved)'
  <2>1. ASSUME NEW m, DOMAIN m \subseteq RuleIds, Remembered(m), NEW id \in DOMAIN m,
               m[id].kind \notin {"change", "cadence"}, NEW t \in Values, Told(id, t)'
        PROVE  t \in rearmed'[id] \/ m[id].state = t
    <3>1. Told(id, t)
      BY <1>18, <2>1 DEF Told
    <3> QED
      BY <1>15, <2>1, <3>1 DEF Remembered
  <2>2. DOMAIN rules \subseteq RuleIds /\ DOMAIN saved \subseteq RuleIds
    BY DEF RulesTypeOK
  <2> QED
    BY <1>2, <2>1, <2>2 DEF Remembered
<1>23. ASSUME NEW id \in firing, rules[id].kind # "cadence"
       PROVE  \/ targets[id] \in rearmed'[id]
              \/ \A j \in DOMAIN events : ~(events[j].rule = id /\ events[j].target = targets[id])
  <2>1. /\ id \in judged /\ id \in DOMAIN rules /\ id \in RuleIds /\ rules[id] \in RuleRecord
        /\ Fires(rules[id], seen[id], clock) /\ targets[id] = rules[id].target /\ rules[id].target \in Values
    BY <1>5, <1>11, <1>12, <1>13, <1>17
  <2>2. CASE rules[id].kind = "change"
    <3>1. rules[id].state # seen[id]
      BY <1>23, <2>1, <2>2, FiringRule
    <3>2. SeenOff(rules[id], seen[id]) = Values
      BY <2>2, <3>1 DEF SeenOff
    <3> QED
      BY <1>9, <2>1, <3>2
  <2>3. CASE rules[id].kind # "change"
    <3>1. rules[id].state # rules[id].target
      BY <1>23, <2>1, <2>3, FiringRule
    <3>2. Told(id, rules[id].target) => rules[id].target \in rearmed[id]
      BY <1>23, <2>1, <2>3, <3>1 DEF Remembered
    <3> QED
      BY <1>15, <2>1, <3>2 DEF Told
  <2> QED
    BY <2>2, <2>3
<1>24. Fired(rules)' /\ Fired(saved)'
  <2>1. \A id \in DOMAIN saved \cap DOMAIN rules : saved[id].kind = rules[id].kind
    BY DEF KindsAgree
  <2> QED
    BY <1>2, <1>10, <1>11, <1>23, <2>1 DEF Fired
<1>25. \A id \in firing : Rests(id)'
  <2>1. ASSUME NEW id \in firing, NEW j \in DOMAIN events, events[j].rule = id
        PROVE  clock - events[j].ts >= Cooldown
    <3>1. Cooled(rules[id], clock) /\ id \in DOMAIN rules
      BY <1>5, <1>11
    <3>2. events[j].ts <= rules[id].last
      BY <2>1, <3>1 DEF Timely
    <3>3. events[j] \in EventRecord
      BY ElementOfSeq, <2>1 DEF RulesTypeOK
    <3>4. events[j].ts \in Nat \ {0} /\ rules[id].last \in Nat /\ Cooldown \in Nat
      BY <1>13, <3>1, <3>3, RulesAssumption DEF EventRecord
    <3> QED
      BY <1>12, <3>1, <3>2, <3>4 DEF Cooled
  <2> QED
    BY <1>2, <1>10, <2>1 DEF Rests
<1>26. Saving'
  <2>1. ASSUME NEW id \in DOMAIN updates
        PROVE  /\ updates[id].last \in Nat
               /\ updates[id].state \in Values \cup {NoState}
               /\ id \in firing => updates[id].last = clock /\ rules[id].last # clock
               /\ id \notin firing => updates[id].last = rules[id].last
               /\ rules[id].kind \notin {"change", "cadence"} =>
                      /\ id \in firing => targets[id] = updates[id].state
                      /\ \A t \in Values : t \in rearmed'[id] \/ updates[id].state = t
    <3>1. id \in judged /\ id \in DOMAIN rules /\ id \in RuleIds /\ updates[id] = Update(rules[id], seen[id], clock)
      BY <1>11, <1>12
    <3>2. /\ updates[id].state = StateAfter(rules[id], seen[id], clock)
          /\ updates[id].last = IF id \in firing THEN clock ELSE rules[id].last
      BY <1>5, <3>1 DEF Update
    <3>3. updates[id].last \in Nat
      BY <1>12, <1>13, <3>1, <3>2
    <3>4. updates[id].state \in Values \cup {NoState}
      BY <1>14, <3>1, <3>2 DEF StateAfter, Values
    <3>5. id \in firing => rules[id].last # clock
      <4>1. id \in firing => Cooled(rules[id], clock)
        BY <1>5
      <4> QED
        BY <1>12, <1>13, <3>1, <4>1, RulesAssumption DEF Cooled
    <3>6. ASSUME rules[id].kind \notin {"change", "cadence"}
          PROVE  /\ id \in firing => targets[id] = updates[id].state
                 /\ \A t \in Values : t \in rearmed'[id] \/ updates[id].state = t
      <4>1. updates[id].state = seen[id] /\ seen[id] \in Values
        BY <1>14, <3>1, <3>2, <3>6 DEF StateAfter
      <4>2. id \in firing => seen[id] = rules[id].target
        BY <1>5, <1>12, <3>1, <3>6, FiringRule
      <4>3. SeenOff(rules[id], seen[id]) = Values \ {seen[id]}
        BY <3>6 DEF SeenOff
      <4> QED
        BY <1>9, <1>17, <3>1, <4>1, <4>2, <4>3
    <3> QED
      BY <3>2, <3>3, <3>4, <3>5, <3>6
  <2>2. firing \subseteq DOMAIN updates /\ firing \subseteq DOMAIN rules /\ DOMAIN updates \subseteq issued
    BY <1>11, <1>12
  <2> QED
    BY <1>2, <1>10, <2>1, <2>2 DEF Saving
<1>27. PassInv'
  <2>1. firing \cap DOMAIN saved \subseteq DOMAIN rules
    BY <1>11
  <2> QED
    BY <1>2, <1>10, <1>24, <1>25, <1>26, <2>1 DEF PassInv
<1> QED
  BY <1>19, <1>20, <1>21, <1>22, <1>27

\* A pass that is saved leaves the rules as it found them to be, and arms what it will tell of.
LEMMA SaveKeeps ==
    ASSUME RulesInv, SavePass
    PROVE  RulesInv'
<1> USE DEF RulesInv
<1>1. PICK new : new = Updated(pass.updates)
  OBVIOUS
<1>2. PICK onward : onward = IF pass.firing = {} THEN NoPass
                     ELSE [phase |-> "append", at |-> pass.at, firing |-> pass.firing, targets |-> pass.targets,
                           armed |-> {id \in pass.firing : pass.targets[id] \in rearmed[id]}]
  OBVIOUS
<1>3. \/ new = rules /\ pass' = onward /\ UNCHANGED <<rules, saved, rearmed>>
      \/ /\ new # rules /\ Persist(new)
         /\ pass' = IF rules' = new THEN onward ELSE NoPass
         /\ rearmed' = IF rules' = new
                       THEN [id \in RuleIds |-> rearmed[id] \ IF id \in pass.firing THEN {pass.targets[id]} ELSE {}]
                       ELSE rearmed
  BY <1>1, <1>2 DEF SavePass, Acknowledged
<1>4. /\ pass.phase = "save"
      /\ UNCHANGED <<clock, events, lost, edit, issued, deleted, marks, savedMarks>>
  BY DEF SavePass, markVars
<1>5. \/ /\ new = rules /\ pass' = onward /\ UNCHANGED <<rules, saved, rearmed>>
      \/ /\ rules' = new /\ saved' = new /\ pass' = onward
         /\ rearmed' = [id \in RuleIds |-> rearmed[id] \ IF id \in pass.firing THEN {pass.targets[id]} ELSE {}]
      \/ /\ rules' = rules /\ saved' \in {saved, new} /\ pass' = NoPass /\ rearmed' = rearmed
  BY <1>3 DEF Persist
<1>6. pass # NoPass /\ Saving
  BY <1>4 DEF PassInv, NoPass
<1>7. /\ rules \in [DOMAIN rules -> RuleRecord] /\ saved \in [DOMAIN saved -> RuleRecord]
      /\ DOMAIN rules \subseteq issued /\ DOMAIN saved \subseteq issued /\ issued \subseteq RuleIds
      /\ rearmed \in [RuleIds -> SUBSET Values]
      /\ pass.at \in Nat \ {0} /\ pass.firing \subseteq issued
      /\ \A id \in pass.firing : pass.targets[id] \in Values
  BY <1>6 DEF RulesTypeOK
<1>8. ASSUME NEW id \in DOMAIN rules, id \in DOMAIN pass.updates
      PROVE  /\ new[id] \in RuleRecord /\ new[id].kind = rules[id].kind
             /\ new[id].state = pass.updates[id].state /\ new[id].last = pass.updates[id].last
  <2>1. new[id] = [rules[id] EXCEPT !.state = pass.updates[id].state, !.last = pass.updates[id].last]
    BY <1>1, <1>8 DEF Updated
  <2>2. rules[id] \in RuleRecord /\ pass.updates[id].state \in Values \cup {NoState} /\ pass.updates[id].last \in Nat
    BY <1>6, <1>7, <1>8 DEF Saving
  <2> QED
    BY <2>1, <2>2 DEF RuleRecord
<1>9. ASSUME NEW id \in DOMAIN rules, id \notin DOMAIN pass.updates PROVE new[id] = rules[id]
  BY <1>1, <1>9 DEF Updated
<1>10. DOMAIN new = DOMAIN rules /\ new \in [DOMAIN new -> RuleRecord]
  <2>1. DOMAIN new = DOMAIN rules /\ new = [id \in DOMAIN rules |-> new[id]]
    BY <1>1 DEF Updated
  <2>2. \A id \in DOMAIN rules : new[id] \in RuleRecord
    BY <1>7, <1>8, <1>9
  <2> QED
    BY <2>1, <2>2
<1>11. ASSUME NEW id \in DOMAIN rules
       PROVE  /\ new[id].kind = rules[id].kind
              /\ id \in pass.firing => new[id].last = pass.at /\ rules[id].last # pass.at
              /\ id \notin pass.firing => new[id].last = rules[id].last
              /\ new[id].state = rules[id].state
                 \/ (rules[id].kind \notin {"change", "cadence"} =>
                        \A t \in Values : t \in rearmed[id] \/ new[id].state = t)
              /\ id \in pass.firing /\ rules[id].kind \notin {"change", "cadence"} =>
                        pass.targets[id] = new[id].state
  BY <1>6, <1>8, <1>9 DEF Saving
<1>12. new = rules /\ pass.firing # {} => CooldownsAgree /\ pass.firing \cap DOMAIN rules = {}
  BY <1>6, <1>11 DEF Saving
<1>13. /\ pass.firing = {} => onward = NoPass
       /\ pass.firing # {} =>
            /\ onward = [phase |-> "append", at |-> pass.at, firing |-> pass.firing, targets |-> pass.targets,
                         armed |-> {id \in pass.firing : pass.targets[id] \in rearmed[id]}]
            /\ onward.phase = "append" /\ onward.at = pass.at /\ onward.firing = pass.firing
            /\ onward.targets = pass.targets /\ onward # NoPass
            /\ onward.armed = {id \in pass.firing : pass.targets[id] \in rearmed[id]}
  BY <1>2 DEF NoPass
<1>14. \/ pass' = NoPass
       \/ /\ pass' = onward /\ pass.firing # {} /\ pass' # NoPass /\ pass'.phase = "append"
          /\ pass'.at = pass.at /\ pass'.firing = pass.firing /\ pass'.targets = pass.targets
          /\ pass'.armed = {id \in pass.firing : pass.targets[id] \in rearmed[id]}
          /\ pass' = AppendingPass'
  BY <1>5, <1>13 DEF AppendingPass
<1>15. /\ rearmed' \in [RuleIds -> SUBSET Values]
       /\ \A id \in RuleIds : id \notin pass.firing => rearmed'[id] = rearmed[id]
       /\ \A id \in RuleIds : \A t \in rearmed[id] : t # pass.targets[id] => t \in rearmed'[id]
  <2>1. CASE rearmed' = rearmed
    BY <1>7, <2>1
  <2>2. CASE rearmed' = [id \in RuleIds |-> rearmed[id] \ IF id \in pass.firing THEN {pass.targets[id]} ELSE {}]
    <3>1. \A id \in RuleIds : rearmed'[id] = rearmed[id] \ IF id \in pass.firing THEN {pass.targets[id]} ELSE {}
      BY <2>2
    <3>2. rearmed' \in [RuleIds -> SUBSET Values]
      BY <1>7, <2>2
    <3>3. ASSUME NEW id \in RuleIds, id \notin pass.firing PROVE rearmed'[id] = rearmed[id]
      BY <3>1, <3>3
    <3>4. ASSUME NEW id \in RuleIds, NEW t \in rearmed[id], t # pass.targets[id] PROVE t \in rearmed'[id]
      BY <3>1, <3>4
    <3> QED
      BY <3>2, <3>3, <3>4
  <2> QED
    BY <1>5, <2>1, <2>2
<1>16. RulesTypeOK'
  <2>1. pass' # NoPass => /\ pass'.phase \in {"save", "append"}
                          /\ pass'.phase = "save" => pass' = SavingPass'
                          /\ pass'.phase = "append" => pass' = AppendingPass'
                          /\ pass'.at \in Nat \ {0} /\ pass'.firing \subseteq issued
                          /\ \A id \in pass'.firing : pass'.targets[id] \in Values
    BY <1>7, <1>14
  <2>2. rules' \in [DOMAIN rules' -> RuleRecord] /\ saved' \in [DOMAIN saved' -> RuleRecord]
        /\ DOMAIN rules' \subseteq issued /\ DOMAIN saved' \subseteq issued
    BY <1>5, <1>7, <1>10
  <2> QED
    BY <1>4, <1>15, <2>1, <2>2 DEF RulesTypeOK
<1>17. Acknowledgements'
  BY <1>4, <1>5, <1>10 DEF Acknowledgements
<1>18. KindsAgree'
  <2>1. \A id \in DOMAIN rules' \cap DOMAIN saved' : rules'[id].kind = saved'[id].kind
    BY <1>5, <1>10, <1>11 DEF KindsAgree
  <2>2. ASSUME NEW c \in Editors, NEW id \in DOMAIN rules' \cup DOMAIN saved', edit[c] # NoCopy, edit[c].id = id
        PROVE  /\ id \in DOMAIN rules' => edit[c].rule.kind = rules'[id].kind
               /\ id \in DOMAIN saved' => edit[c].rule.kind = saved'[id].kind
    <3>1. /\ id \in DOMAIN rules => edit[c].rule.kind = rules[id].kind
          /\ id \in DOMAIN saved => edit[c].rule.kind = saved[id].kind
      BY <2>2 DEF KindsAgree
    <3> QED
      BY <1>5, <1>10, <1>11, <3>1
  <2> QED
    BY <1>4, <2>1, <2>2 DEF KindsAgree
<1>19. Timely(rules)' /\ Timely(saved)'
  <2>1. ASSUME NEW id \in DOMAIN new, NEW j \in DOMAIN events, events[j].rule = id
        PROVE  events[j].ts <= new[id].last
    <3>1. events[j].ts <= rules[id].last
      BY <1>10, <2>1 DEF Timely
    <3>2. events[j].ts \in Nat
      <4>1. events[j] \in EventRecord
        BY <2>1, ElementOfSeq DEF RulesTypeOK
      <4> QED
        BY <4>1 DEF EventRecord
    <3>3. CASE id \in pass.firing
      <4>1. pass.at - events[j].ts >= Cooldown /\ Cooldown \in Nat
        BY <1>6, <2>1, <3>3, RulesAssumption DEF PassInv, Rests
      <4>2. new[id].last = pass.at
        BY <1>10, <1>11, <3>3
      <4> QED
        BY <1>7, <3>2, <4>1, <4>2
    <3> QED
      BY <1>10, <1>11, <3>1, <3>3
  <2>2. Timely(new)
    BY <2>1 DEF Timely
  <2> QED
    BY <1>4, <1>5, <2>2 DEF Timely
<1>20. Apart'
  BY <1>4 DEF Apart
<1>21. Started'
  <2>1. ASSUME NEW id \in DOMAIN rules, rules' = rules, rules[id].last > 0 PROVE Recorded(id, rules[id].last)'
    <3>1. Recorded(id, rules[id].last) /\ ~Pending(id)
      BY <1>4, <2>1 DEF Started, Pending
    <3> QED
      BY <1>4, <2>1, <3>1 DEF Recorded
  <2>2. ASSUME NEW id \in DOMAIN rules, rules' = new, pass' = onward, new[id].last > 0
        PROVE  Recorded(id, rules[id].last)'
    <3>1. CASE id \in pass.firing
      BY <1>11, <1>13, <2>2, <3>1 DEF Recorded, Pending
    <3>2. CASE id \notin pass.firing
      <4>1. new[id].last = rules[id].last
        BY <1>11, <3>2
      <4>2. Recorded(id, rules[id].last) /\ ~Pending(id)
        BY <1>4, <2>2, <4>1 DEF Started, Pending
      <4> QED
        BY <1>4, <2>2, <4>1, <4>2 DEF Recorded
    <3> QED
      BY <3>1, <3>2
  <2>3. \A id \in DOMAIN rules' : rules'[id].last > 0 => Recorded(id, rules[id].last)'
    BY <1>5, <1>10, <2>1, <2>2
  <2> QED
    BY <2>3 DEF Started
<1>22. ASSUME NEW id, NEW t, Told(id, t)'
       PROVE  Told(id, t) \/ (id \in pass.firing /\ t = pass.targets[id] /\ pass' = onward)
  BY <1>4, <1>14, <1>22 DEF Told, Pending, NoPass
<1>23. ASSUME NEW m, DOMAIN m \subseteq RuleIds, NEW id \in DOMAIN m, m[id].kind \notin {"change", "cadence"},
              id \in pass.firing => m[id].state = pass.targets[id] \/ (pass' = NoPass /\ rearmed' = rearmed),
              \A t \in Values : Told(id, t) => t \in rearmed[id] \/ m[id].state = t,
              NEW t \in Values, Told(id, t)'
       PROVE  t \in rearmed'[id] \/ m[id].state = t
  BY <1>13, <1>15, <1>22, <1>23
<1>24. Remembered(rules)' /\ Remembered(saved)'
  <2>1. ASSUME NEW id \in DOMAIN new, new[id].kind \notin {"change", "cadence"}
        PROVE  \A t \in Values : Told(id, t) => t \in rearmed[id] \/ new[id].state = t
    <3>1. id \in DOMAIN rules /\ rules[id].kind \notin {"change", "cadence"}
      BY <1>10, <1>11, <2>1
    <3>2. \A t \in Values : Told(id, t) => t \in rearmed[id] \/ rules[id].state = t
      BY <3>1 DEF Remembered
    <3> QED
      BY <1>11, <3>1, <3>2
  <2>2. ASSUME NEW id \in DOMAIN new, new[id].kind \notin {"change", "cadence"}, id \in pass.firing
        PROVE  new[id].state = pass.targets[id]
    BY <1>10, <1>11, <2>2
  <2>3. Remembered(new)'
    <3>1. ASSUME NEW id \in DOMAIN new, new[id].kind \notin {"change", "cadence"}, NEW t \in Values, Told(id, t)'
          PROVE  t \in rearmed'[id] \/ new[id].state = t
      <4>1. DOMAIN new \subseteq RuleIds
        BY <1>7, <1>10
      <4>2. id \in pass.firing => new[id].state = pass.targets[id]
        BY <2>2, <3>1
      <4> QED
        BY <1>23, <2>1, <3>1, <4>1, <4>2
    <3> QED
      BY <3>1 DEF Remembered
  <2>4. ASSUME NEW m, Remembered(m), DOMAIN m \subseteq RuleIds,
               \/ pass' = NoPass /\ rearmed' = rearmed
               \/ pass.firing \cap DOMAIN m = {}
        PROVE  \A id \in DOMAIN m : m[id].kind \notin {"change", "cadence"} =>
                 \A t \in Values : Told(id, t)' => t \in rearmed'[id] \/ m[id].state = t
    BY <1>23, <2>4 DEF Remembered
  <2>5. DOMAIN rules \subseteq RuleIds /\ DOMAIN saved \subseteq RuleIds
    BY <1>7
  <2>6. pass.firing \cap DOMAIN saved \subseteq DOMAIN rules
    BY <1>6 DEF PassInv
  <2>7. CASE rules' = new /\ saved' = new
    BY <2>3, <2>7 DEF Remembered
  <2>8. CASE new = rules /\ pass' = onward /\ UNCHANGED <<rules, saved, rearmed>>
    <3>1. pass.firing \cap DOMAIN rules = {} /\ pass.firing \cap DOMAIN saved = {}
      BY <1>12, <2>6, <2>8
    <3> QED
      BY <2>4, <2>5, <2>8, <3>1 DEF Remembered
  <2>9. CASE rules' = rules /\ saved' \in {saved, new} /\ pass' = NoPass /\ rearmed' = rearmed
    <3>1. Remembered(rules)'
      BY <2>4, <2>5, <2>9 DEF Remembered
    <3>2. Remembered(saved)'
      BY <2>3, <2>4, <2>5, <2>9 DEF Remembered
    <3> QED
      BY <3>1, <3>2
  <2> QED
    BY <1>5, <2>7, <2>8, <2>9
<1>25. Once(rules)' /\ Once(saved)'
  <2>1. Once(new)
    BY <1>10, <1>11 DEF Once
  <2> QED
    BY <1>4, <1>5, <2>1 DEF Once, SameCondition
<1>26. ASSUME pass' # NoPass
       PROVE  /\ Fired(rules)' /\ Fired(saved)' /\ Appending'
              /\ pass'.firing \cap DOMAIN saved' \subseteq DOMAIN rules'
  <2>1. /\ pass' = onward /\ pass.firing # {} /\ pass'.phase = "append" /\ pass'.at = pass.at
        /\ pass'.firing = pass.firing /\ pass'.targets = pass.targets
        /\ pass'.armed = {id \in pass.firing : pass.targets[id] \in rearmed[id]}
    BY <1>14, <1>26
  <2>2. Fired(rules) /\ Fired(saved) /\ pass.firing \cap DOMAIN saved \subseteq DOMAIN rules
    BY <1>6 DEF PassInv
  <2>3. \/ new = rules /\ UNCHANGED <<rules, saved, rearmed>>
        \/ rules' = new /\ saved' = new
    BY <1>5, <1>26
  <2>4. Fired(new)
    BY <1>10, <1>11, <2>2 DEF Fired
  <2>5. \A id \in DOMAIN rules' \cap pass.firing : rules'[id].kind # "cadence" =>
            id \in pass'.armed \/ \A j \in DOMAIN events : ~(events[j].rule = id /\ events[j].target = pass.targets[id])
    BY <1>4, <2>1, <2>2, <2>3, <2>4 DEF Fired
  <2>6. \A id \in DOMAIN saved' \cap pass.firing : saved'[id].kind # "cadence" =>
            id \in pass'.armed \/ \A j \in DOMAIN events : ~(events[j].rule = id /\ events[j].target = pass.targets[id])
    BY <1>4, <2>1, <2>2, <2>3, <2>4 DEF Fired
  <2>7. CooldownsAgree'
    BY <1>12, <2>1, <2>3 DEF CooldownsAgree
  <2>8. \A id \in pass.firing \cap DOMAIN rules' : rules'[id].last = pass.at
    BY <1>10, <1>11, <1>12, <2>1, <2>3
  <2> QED
    BY <1>4, <2>1, <2>2, <2>3, <2>5, <2>6, <2>7, <2>8 DEF Fired, Appending
<1>27. PassInv'
  <2>1. pass' # NoPass => \A id \in pass'.firing : Rests(id)'
    BY <1>4, <1>6, <1>14 DEF PassInv, Rests
  <2>2. pass'.phase # "save"
    BY <1>14 DEF NoPass
  <2>3. pass'.phase = "append" => pass' # NoPass
    BY DEF NoPass
  <2> QED
    BY <1>26, <2>1, <2>2, <2>3 DEF PassInv
<1> QED
  BY <1>16, <1>17, <1>18, <1>19, <1>20, <1>21, <1>24, <1>25, <1>27

\* An alert is appended, or given up.
LEMMA AppendKeeps ==
    ASSUME RulesInv, AppendFired
    PROVE  RulesInv'
<1> USE DEF RulesInv
<1>1. PICK id \in pass.firing :
        /\ \/ events' = Append(events, EventOf(id)) /\ UNCHANGED lost
           \/ lost' = lost \cup {<<id, pass.at>>} /\ UNCHANGED events
        /\ pass' = IF pass.firing = {id} THEN NoPass ELSE [pass EXCEPT !.firing = @ \ {id}]
  BY DEF AppendFired
<1>2. /\ pass.phase = "append"
      /\ UNCHANGED <<clock, rules, saved, rearmed, edit, issued, deleted, marks, savedMarks>>
  BY DEF AppendFired, userVars, markVars
<1>3. /\ pass # NoPass /\ Appending /\ pass = AppendingPass
      /\ pass.firing \cap DOMAIN saved \subseteq DOMAIN rules
      /\ \A i \in pass.firing : Rests(i)
      /\ Fired(rules) /\ Fired(saved)
  BY <1>2 DEF PassInv, NoPass, RulesTypeOK
<1>4. /\ clock \in Nat \ {0} /\ pass.at \in Nat \ {0} /\ id \in issued /\ id \in RuleIds /\ pass.targets[id] \in Values
      /\ DOMAIN rules \subseteq RuleIds /\ DOMAIN saved \subseteq RuleIds
  BY <1>3 DEF RulesTypeOK
<1>5. PICK e : e = EventOf(id)
  OBVIOUS
<1>6. /\ e \in EventRecord /\ e.rule = id /\ e.ts = pass.at /\ e.target = pass.targets[id]
      /\ id \in pass.armed => e.rearmed
  <2>1. CASE id \in pass.armed
    <3>1. (id \in pass.armed) = TRUE
      BY <2>1
    <3>2. e = [rule |-> id, ts |-> pass.at, target |-> pass.targets[id], rearmed |-> TRUE]
      BY <1>5, <3>1 DEF EventOf
    <3> QED
      BY <1>4, <3>2 DEF EventRecord
  <2>2. CASE id \notin pass.armed
    <3>1. (id \in pass.armed) = FALSE
      BY <2>2
    <3>2. e = [rule |-> id, ts |-> pass.at, target |-> pass.targets[id], rearmed |-> FALSE]
      BY <1>5, <3>1 DEF EventOf
    <3> QED
      BY <1>4, <2>2, <3>2 DEF EventRecord
  <2> QED
    BY <2>1, <2>2
<1>7. PICK n \in Nat : n = Len(events) /\ DOMAIN events = 1 .. n
  BY LenProperties DEF RulesTypeOK
<1>8. \/ /\ events' \in Seq(EventRecord) /\ DOMAIN events' = 1 .. (n + 1) /\ events'[n + 1] = e
         /\ \A j \in 1 .. n : events'[j] = events[j]
         /\ lost' = lost
      \/ events' = events /\ lost' = lost \cup {<<id, pass.at>>}
  <2>1. events \in Seq(EventRecord)
    BY DEF RulesTypeOK
  <2>2. ASSUME events' = Append(events, e)
        PROVE  /\ events' \in Seq(EventRecord) /\ DOMAIN events' = 1 .. (n + 1) /\ events'[n + 1] = e
               /\ \A j \in 1 .. n : events'[j] = events[j]
    BY <1>6, <1>7, <2>1, <2>2, AppendProperties, LenProperties
  <2> QED
    BY <1>1, <1>5, <2>2
<1>9. \/ pass' = NoPass
      \/ /\ pass' # NoPass /\ pass'.phase = "append" /\ pass'.at = pass.at
         /\ pass'.firing = pass.firing \ {id} /\ pass'.targets = pass.targets /\ pass'.armed = pass.armed
         /\ pass' = AppendingPass'
  <2>1. CASE pass.firing = {id}
    BY <1>1, <2>1
  <2>2. CASE pass.firing # {id}
    <3>1. pass' = [phase |-> "append", at |-> pass.at, firing |-> pass.firing \ {id}, targets |-> pass.targets,
                   armed |-> pass.armed]
      <4>1. PICK at, firing, targets, armed :
               at = pass.at /\ firing = pass.firing /\ targets = pass.targets /\ armed = pass.armed
        OBVIOUS
      <4>2. pass = [phase |-> "append", at |-> at, firing |-> firing, targets |-> targets, armed |-> armed]
        BY <1>3, <4>1 DEF AppendingPass
      <4>3. pass' = [pass EXCEPT !.firing = firing \ {id}]
        BY <1>1, <2>2, <4>1
      <4> QED
        BY <4>1, <4>2, <4>3
    <3> QED
      BY <3>1 DEF AppendingPass, NoPass
  <2> QED
    BY <2>1, <2>2
<1>10. \A j \in DOMAIN events : j \in DOMAIN events' /\ events'[j] = events[j]
  BY <1>7, <1>8
<1>11. \A j \in DOMAIN events' : \/ j \in DOMAIN events /\ events'[j] = events[j]
                                 \/ j = n + 1 /\ events'[j] = e
  BY <1>7, <1>8
<1>12. RulesTypeOK'
  <2>1. events' \in Seq(EventRecord) /\ \A j \in DOMAIN events' : events'[j].rule \in issued
    BY <1>4, <1>6, <1>8, <1>11 DEF RulesTypeOK
  <2>2. pass' # NoPass => /\ pass'.phase \in {"save", "append"}
                          /\ pass'.phase = "save" => pass' = SavingPass'
                          /\ pass'.phase = "append" => pass' = AppendingPass'
                          /\ pass'.at \in Nat \ {0} /\ pass'.firing \subseteq issued
                          /\ \A i \in pass'.firing : pass'.targets[i] \in Values
    BY <1>3, <1>9 DEF RulesTypeOK
  <2> QED
    BY <1>2, <2>1, <2>2 DEF RulesTypeOK
<1>13. Acknowledgements' /\ KindsAgree'
  BY <1>2 DEF Acknowledgements, KindsAgree
<1>14. Timely(rules)' /\ Timely(saved)'
  <2>1. id \in DOMAIN rules => rules[id].last = pass.at
    BY <1>3 DEF Appending
  <2>2. id \in DOMAIN saved => saved[id].last = pass.at
    BY <1>3, <2>1 DEF Appending, CooldownsAgree
  <2>3. e.ts <= pass.at
    BY <1>4, <1>6
  <2> QED
    BY <1>2, <1>6, <1>11, <2>1, <2>2, <2>3 DEF Timely
<1>15. Apart'
  <2> SUFFICES ASSUME NEW i \in DOMAIN events', NEW j \in DOMAIN events', i < j,
                      events'[i].rule = events'[j].rule
               PROVE  events'[j].ts - events'[i].ts >= Cooldown
    BY DEF Apart
  <2>1. i \in 1 .. n /\ i \in DOMAIN events /\ events'[i] = events[i]
    BY <1>7, <1>8
  <2>2. CASE j \in DOMAIN events
    BY <1>10, <2>1, <2>2 DEF Apart
  <2>3. CASE j \notin DOMAIN events
    <3>1. events'[j] = e /\ events[i].rule = id
      BY <1>6, <1>11, <2>1, <2>3
    <3> QED
      BY <1>3, <1>6, <2>1, <3>1 DEF Rests
  <2> QED
    BY <2>2, <2>3
<1>16. Started'
  <2> SUFFICES ASSUME NEW i \in DOMAIN rules, rules[i].last > 0
               PROVE  Recorded(i, rules[i].last)'
    BY <1>2 DEF Started
  <2>1. Recorded(i, rules[i].last)
    BY DEF Started
  <2>2. CASE i # id
    <3>1. Pending(i) => Pending(i)' /\ pass'.at = pass.at
      BY <1>9, <2>2, <1>1 DEF Pending
    <3>2. lost \subseteq lost'
      BY <1>8
    <3> QED
      BY <1>2, <1>10, <2>1, <3>1, <3>2 DEF Recorded
  <2>3. CASE i = id
    <3>1. rules[i].last = pass.at
      BY <1>3, <2>3 DEF Appending
    <3>2. CASE events' = events
      BY <1>2, <1>7, <1>8, <2>3, <3>1, <3>2 DEF Recorded
    <3>3. CASE events' # events
      <4>1. n + 1 \in DOMAIN events' /\ events'[n + 1] = e
        BY <1>8, <3>3
      <4> QED
        BY <1>2, <1>6, <2>3, <3>1, <4>1 DEF Recorded
    <3> QED
      BY <3>2, <3>3
  <2> QED
    BY <2>2, <2>3
<1>17. ASSUME NEW i, NEW t, Told(i, t)' PROVE Told(i, t)
  <2>1. Pending(i)' => Pending(i) /\ pass'.targets = pass.targets
    BY <1>2, <1>9 DEF Pending, NoPass
  <2>2. Pending(id)
    BY <1>2 DEF Pending
  <2> QED
    BY <1>6, <1>11, <1>17, <2>1, <2>2 DEF Told
<1>18. Remembered(rules)' /\ Remembered(saved)'
  BY <1>2, <1>17 DEF Remembered
<1>19. ASSUME NEW m, Once(m), Fired(m)
       PROVE  \A i \in DOMAIN m : m[i].kind # "cadence" =>
                \A j \in DOMAIN events' : events'[j].rule = i =>
                   events'[j].rearmed \/ \A h \in 1 .. j - 1 : ~SameCondition(events'[h], events'[j])
  <2> SUFFICES ASSUME NEW i \in DOMAIN m, m[i].kind # "cadence", NEW j \in DOMAIN events', events'[j].rule = i,
                      ~events'[j].rearmed, NEW h \in 1 .. j - 1
               PROVE  ~SameCondition(events'[h], events'[j])
    OBVIOUS
  <2>1. h \in 1 .. n /\ events'[h] = events[h] /\ h \in DOMAIN events
    BY <1>7, <1>8
  <2>2. CASE j \in DOMAIN events
    BY <1>10, <1>19, <2>1, <2>2 DEF Once
  <2>3. CASE j \notin DOMAIN events
    <3>1. events'[j] = e /\ i = id
      BY <1>6, <1>11, <2>3
    <3>2. id \notin pass.armed
      BY <1>6, <3>1
    <3>3. ~(events[h].rule = id /\ events[h].target = pass.targets[id])
      BY <1>2, <1>19, <2>1, <3>1, <3>2 DEF Fired
    <3> QED
      BY <1>6, <2>1, <3>1, <3>3 DEF SameCondition
  <2> QED
    BY <2>2, <2>3
<1>20. Once(rules)' /\ Once(saved)'
  BY <1>2, <1>3, <1>19 DEF Once, SameCondition
<1>21. ASSUME pass' # NoPass
       PROVE  /\ \A i \in pass'.firing : Rests(i)'
              /\ Fired(rules)' /\ Fired(saved)' /\ Appending'
              /\ pass'.firing \cap DOMAIN saved' \subseteq DOMAIN rules'
  <2>1. /\ pass'.phase = "append" /\ pass'.at = pass.at
        /\ pass'.firing = pass.firing \ {id} /\ pass'.targets = pass.targets /\ pass'.armed = pass.armed
    BY <1>9, <1>21
  <2>2. \A i \in pass'.firing : \A j \in DOMAIN events' :
           events'[j].rule = i => j \in DOMAIN events /\ events'[j] = events[j]
    BY <1>6, <1>11, <2>1
  <2>3. \A i \in pass'.firing : Rests(i)'
    BY <1>3, <2>1, <2>2 DEF Rests
  <2>4. ASSUME NEW m, Fired(m)
        PROVE  \A i \in DOMAIN m \cap pass'.firing : m[i].kind # "cadence" =>
                 \/ i \in pass'.armed
                 \/ \A j \in DOMAIN events' : ~(events'[j].rule = i /\ events'[j].target = pass'.targets[i])
    BY <1>2, <2>1, <2>2, <2>4 DEF Fired
  <2>5. Fired(rules)' /\ Fired(saved)'
    BY <1>2, <1>3, <2>1, <2>4 DEF Fired
  <2>6. Appending'
    BY <1>2, <1>3, <2>1 DEF Appending, CooldownsAgree
  <2> QED
    BY <1>2, <1>3, <2>1, <2>3, <2>5, <2>6
<1>22. PassInv'
  <2>1. pass'.phase # "save"
    BY <1>9 DEF NoPass
  <2>2. pass'.phase = "append" => pass' # NoPass
    BY DEF NoPass
  <2> QED
    BY <1>21, <2>1, <2>2 DEF PassInv
<1> QED
  BY <1>12, <1>13, <1>14, <1>15, <1>16, <1>18, <1>20, <1>22

\* A request reads a rule.
LEMMA ReadKeeps ==
    ASSUME RulesInv, NEW c \in Editors, ReadRule(c)
    PROVE  RulesInv'
<1> USE DEF RulesInv
<1>1. PICK id \in DOMAIN rules : edit' = [edit EXCEPT ![c] = [id |-> id, rule |-> rules[id]]]
  BY DEF ReadRule
<1>2. UNCHANGED <<clock, rules, saved, events, pass, rearmed, lost, deleted, issued, marks, savedMarks>>
  BY DEF ReadRule, markVars
<1>3. ASSUME NEW d \in Editors, edit'[d] # NoCopy
      PROVE  \/ edit[d] # NoCopy /\ edit'[d] = edit[d]
             \/ edit'[d].id = id /\ edit'[d].rule = rules[id]
  BY <1>1, <1>3
<1>4. RulesTypeOK'
  BY <1>2, <1>3 DEF RulesTypeOK, SavingPass, AppendingPass
<1>5. KindsAgree'
  BY <1>2, <1>3 DEF KindsAgree
<1>6. Acknowledgements' /\ Timely(rules)' /\ Timely(saved)' /\ Apart' /\ Once(rules)' /\ Once(saved)'
  BY <1>2 DEF Acknowledgements, Timely, Apart, Once, SameCondition
<1>7. Started' /\ Remembered(rules)' /\ Remembered(saved)'
  BY <1>2 DEF Started, Recorded, Remembered, Told, Pending
<1>8. PassInv'
  BY <1>2 DEF PassInv, Fired, Rests, Saving, Appending, CooldownsAgree
<1> QED
  BY <1>4, <1>5, <1>6, <1>7, <1>8

\* Marks move, or the clock does.
LEMMA MarksKeep ==
    ASSUME RulesInv, Acknowledgements', clock' \in Nat, clock <= clock',
           UNCHANGED <<rules, saved, events, pass, edit, rearmed, lost, deleted, issued>>
    PROVE  RulesInv'
<1> USE DEF RulesInv
<1>1. RulesTypeOK'
  BY DEF RulesTypeOK, SavingPass, AppendingPass
<1>2. KindsAgree' /\ Timely(rules)' /\ Timely(saved)' /\ Apart' /\ Once(rules)' /\ Once(saved)'
  BY DEF KindsAgree, Timely, Apart, Once, SameCondition
<1>3. Started' /\ Remembered(rules)' /\ Remembered(saved)'
  BY DEF Started, Recorded, Remembered, Told, Pending
<1>4. PassInv'
  BY DEF PassInv, Fired, Rests, Saving, Appending, CooldownsAgree
<1> QED
  BY <1>1, <1>2, <1>3, <1>4

\* What a write of the marks leaves, if no mark is taken back.
LEMMA PersistedMarks ==
    ASSUME RulesInv, NEW new, new = [upTo |-> new.upTo, ids |-> new.ids], new.upTo \in Nat, new.upTo <= clock,
           marks.upTo <= new.upTo, marks.ids \subseteq new.ids, PersistMarks(new),
           UNCHANGED <<clock, rules, saved, deleted, issued>>
    PROVE  Acknowledgements'
BY DEF RulesInv, Acknowledgements, PersistMarks, MarksWritten

\* Marking every event read keeps the invariant.
LEMMA MarkAllKeeps ==
    ASSUME RulesInv, MarkEventsRead
    PROVE  RulesInv'
<1>1. UNCHANGED <<clock, rules, saved, events, pass, edit, rearmed, lost, deleted, issued>>
  BY DEF MarkEventsRead, userVars
<1>2. clock \in Nat /\ Acknowledgements
  BY DEF RulesInv, RulesTypeOK
<1>3. PICK new : new = [marks EXCEPT !.upTo = clock]
  OBVIOUS
<1>4. /\ new = [upTo |-> clock, ids |-> marks.ids]
      /\ marks.upTo <= clock
  <2>1. PICK u, i : u = marks.upTo /\ i = marks.ids
    OBVIOUS
  <2>2. marks = [upTo |-> u, ids |-> i]
    BY <1>2, <2>1 DEF Acknowledgements
  <2> QED
    BY <1>2, <1>3, <2>1, <2>2 DEF Acknowledgements
<1>5. PersistMarks(new)
  BY <1>3 DEF MarkEventsRead
<1>6. Acknowledgements'
  BY <1>1, <1>2, <1>4, <1>5, PersistedMarks
<1> QED
  BY <1>1, <1>2, <1>6, MarksKeep

\* Marking one event read keeps the invariant.
LEMMA MarkOneKeeps ==
    ASSUME RulesInv, MarkEventRead
    PROVE  RulesInv'
<1>1. UNCHANGED <<clock, rules, saved, events, pass, edit, rearmed, lost, deleted, issued>>
  BY DEF MarkEventRead, userVars
<1>2. clock \in Nat /\ Acknowledgements
  BY DEF RulesInv, RulesTypeOK
<1>3. PICK i \in DOMAIN events : PersistMarks([marks EXCEPT !.ids = @ \cup {i}])
  BY DEF MarkEventRead
<1>4. PICK new : new = [marks EXCEPT !.ids = @ \cup {i}]
  OBVIOUS
<1>5. /\ new = [upTo |-> marks.upTo, ids |-> marks.ids \cup {i}]
      /\ marks.upTo \in Nat /\ marks.upTo <= clock
  <2>1. PICK u, ids : u = marks.upTo /\ ids = marks.ids
    OBVIOUS
  <2>2. marks = [upTo |-> u, ids |-> ids]
    BY <1>2, <2>1 DEF Acknowledgements
  <2>3. new = [upTo |-> u, ids |-> ids \cup {i}]
    BY <1>4, <2>1, <2>2
  <2>4. marks.upTo \in Nat /\ marks.upTo <= clock
    BY <1>2 DEF Acknowledgements
  <2> QED
    BY <2>1, <2>3, <2>4
<1>6. PersistMarks(new)
  BY <1>3, <1>4
<1>7. Acknowledgements'
  BY <1>1, <1>2, <1>5, <1>6, PersistedMarks
<1> QED
  BY <1>1, <1>2, <1>7, MarksKeep

\* The clock keeps the invariant.
LEMMA AdvanceKeeps ==
    ASSUME RulesInv, Advance
    PROVE  RulesInv'
<1>1. /\ clock' = clock + 1
      /\ UNCHANGED <<rules, saved, events, pass, edit, rearmed, lost, deleted, issued, marks, savedMarks>>
  BY DEF Advance, userVars, markVars
<1>2. clock \in Nat /\ Acknowledgements
  BY DEF RulesInv, RulesTypeOK
<1>3. Acknowledgements'
  BY <1>1, <1>2 DEF Acknowledgements
<1> QED
  BY <1>1, <1>2, <1>3, MarksKeep

\* The process stops: what is written is what it knows again.
LEMMA RestartKeeps ==
    ASSUME RulesInv, Restart
    PROVE  RulesInv'
<1> USE DEF RulesInv
<1>1. /\ rules' = saved /\ saved' = saved /\ marks' = savedMarks /\ savedMarks' = savedMarks
      /\ pass' = NoPass /\ edit' = [c \in Editors |-> NoCopy]
      /\ lost' = IF pass.phase = "append" THEN lost \cup {<<id, pass.at>> : id \in pass.firing}
               ELSE lost \cup {<<id, saved[id].last>> : id \in {i \in DOMAIN saved :
                                    i \notin DOMAIN rules \/ saved[i].last # rules[i].last}}
      /\ UNCHANGED <<clock, events, rearmed, deleted, issued>>
  BY DEF Restart
<1>2. RulesTypeOK'
  BY <1>1 DEF RulesTypeOK
<1>3. Acknowledgements'
  BY <1>1 DEF Acknowledgements
<1>4. KindsAgree'
  BY <1>1 DEF KindsAgree
<1>5. Timely(rules)' /\ Timely(saved)' /\ Apart' /\ Once(rules)' /\ Once(saved)'
  BY <1>1 DEF Timely, Apart, Once, SameCondition
<1>6. Remembered(rules)' /\ Remembered(saved)'
  BY <1>1 DEF Remembered, Told, Pending, NoPass
<1>7. PassInv'
  BY <1>1 DEF PassInv, NoPass
<1>8. Started'
  <2> SUFFICES ASSUME NEW id \in DOMAIN saved, saved[id].last > 0
               PROVE  \/ \E i \in DOMAIN events : events[i].rule = id /\ events[i].ts = saved[id].last
                      \/ <<id, saved[id].last>> \in lost'
    BY <1>1 DEF Started, Recorded
  <2>1. CASE pass.phase = "append"
    <3>1. id \in DOMAIN rules /\ saved[id].last = rules[id].last
      BY <2>1 DEF PassInv, Appending, CooldownsAgree
    <3>2. Recorded(id, saved[id].last)
      BY <3>1 DEF Started
    <3>3. lost' = lost \cup {<<i, pass.at>> : i \in pass.firing}
      BY <1>1, <2>1
    <3> QED
      BY <3>2, <3>3 DEF Recorded, Pending
  <2>2. CASE pass.phase # "append"
    <3>1. lost' = lost \cup {<<j, saved[j].last>> : j \in {i \in DOMAIN saved :
                                    i \notin DOMAIN rules \/ saved[i].last # rules[i].last}}
      BY <1>1, <2>2
    <3>2. CASE id \in DOMAIN rules /\ saved[id].last = rules[id].last
      <4>1. Recorded(id, saved[id].last)
        BY <3>2 DEF Started
      <4> QED
        BY <2>2, <3>1, <4>1 DEF Recorded, Pending
    <3>3. CASE ~(id \in DOMAIN rules /\ saved[id].last = rules[id].last)
      BY <3>1, <3>3
    <3> QED
      BY <3>2, <3>3
  <2> QED
    BY <2>1, <2>2
<1> QED
  BY <1>2, <1>3, <1>4, <1>5, <1>6, <1>7, <1>8

-----------------------------------------------------------------------------
\* There are no rules.
LEMMA RulesInitInv == RulesInit => RulesInv
<1> SUFFICES ASSUME RulesInit PROVE RulesInv
  OBVIOUS
<1>1. /\ clock = 1 /\ rules = <<>> /\ saved = <<>> /\ events = <<>>
      /\ marks = [upTo |-> 0, ids |-> {}] /\ savedMarks = marks
      /\ pass = NoPass /\ edit = [c \in Editors |-> NoCopy]
      /\ rearmed = [id \in RuleIds |-> {}] /\ deleted = {} /\ issued = {}
  BY DEF RulesInit
<1>2. DOMAIN rules = {} /\ DOMAIN saved = {} /\ DOMAIN events = {} /\ events \in Seq(EventRecord)
      /\ rules \in [{} -> RuleRecord] /\ saved \in [{} -> RuleRecord]
  BY <1>1, EmptySeq
<1>3. RulesTypeOK
  BY <1>1, <1>2 DEF RulesTypeOK, NoPass
<1>4. Acknowledgements
  BY <1>1, <1>2 DEF Acknowledgements
<1>5. pass = NoPass /\ pass.phase = "idle"
  BY <1>1 DEF NoPass
<1> QED
  BY <1>2, <1>3, <1>4, <1>5 DEF RulesInv, KindsAgree, Timely, Apart, Started, Remembered, Once, PassInv

\* Every step of the rules keeps the invariant.
LEMMA RulesStep == RulesInv /\ [RulesNext]_ruleVars => RulesInv'
<1> SUFFICES ASSUME RulesInv, [RulesNext]_ruleVars PROVE RulesInv'
  OBVIOUS
<1>1. CASE StartPass
  BY <1>1, StartKeeps
<1>2. CASE SavePass
  BY <1>2, SaveKeeps
<1>3. CASE AppendFired
  BY <1>3, AppendKeeps
<1>4. CASE CreateRule
  BY <1>4, CreateKeeps
<1>5. CASE DeleteRule
  BY <1>5, DeleteKeeps
<1>6. ASSUME NEW c \in Editors, ReadRule(c) PROVE RulesInv'
  BY <1>6, ReadKeeps
<1>7. ASSUME NEW c \in Editors, ReplaceRule(c) PROVE RulesInv'
  BY <1>7, ReplaceKeeps
<1>8. CASE MarkEventsRead
  BY <1>8, MarkAllKeeps
<1>9. CASE MarkEventRead
  BY <1>9, MarkOneKeeps
<1>10. CASE Advance
  BY <1>10, AdvanceKeeps
<1>11. CASE Restart
  BY <1>11, RestartKeeps
<1>12. CASE UNCHANGED ruleVars
  <2>1. UNCHANGED <<clock, rules, saved, events, pass, edit, rearmed, lost, deleted, issued, marks, savedMarks>>
    BY <1>12 DEF ruleVars
  <2>2. clock \in Nat /\ Acknowledgements
    BY DEF RulesInv, RulesTypeOK
  <2>3. Acknowledgements' /\ clock' \in Nat /\ clock <= clock'
    BY <2>1, <2>2 DEF Acknowledgements
  <2> QED
    BY <2>1, <2>3, MarksKeep
<1> QED
  BY <1>1, <1>2, <1>3, <1>4, <1>5, <1>6, <1>7, <1>8, <1>9, <1>10, <1>11, <1>12 DEF RulesNext

\* The invariant holds in every state of every behaviour.
LEMMA RulesAlways == RulesSpec => []RulesInv
BY RulesInitInv, RulesStep, PTL DEF RulesSpec

(***************************************************************************)
(* An alert is raised when it is due, and only then: two alerts of a rule  *)
(* are its cooldown apart, a cooldown that runs was started by an alert,   *)
(* and a condition that persists is told once, whatever rules, edits,      *)
(* refused or lost writes, passes and restarts there are.                  *)
(***************************************************************************)
THEOREM RulesAlertsAreDue == RulesSpec => []AlertsAreDue
<1>1. RulesInv => AlertsAreDue
  <2> SUFFICES ASSUME RulesInv PROVE AlertsAreDue
    OBVIOUS
  <2>1. CooldownHolds
    BY DEF CooldownHolds, RulesInv, Apart, Started, Recorded, Pending
  <2>2. FiresOnce
    BY DEF FiresOnce, RulesInv, Once
  <2> QED
    BY <2>1, <2>2 DEF AlertsAreDue
<1> QED
  BY <1>1, RulesAlways, PTL

\* No step takes back a mark, and none brings back a rule whose deletion was acknowledged.
LEMMA MarksAreKept ==
    ASSUME RulesInv, [RulesNext]_ruleVars
    PROVE  /\ marks.upTo <= marks'.upTo /\ marks.ids \subseteq marks'.ids
           /\ \A i \in DOMAIN events : events'[i] = events[i]
<1>1. CASE UNCHANGED <<marks, events>>
  BY <1>1 DEF RulesInv, Acknowledgements
<1>2. CASE AppendFired
  <2>1. UNCHANGED marks /\ events \in Seq(EventRecord)
    BY <1>2 DEF AppendFired, markVars, RulesInv, RulesTypeOK
  <2>2. PICK id \in pass.firing : events' = Append(events, EventOf(id)) \/ events' = events
    BY <1>2 DEF AppendFired
  <2>3. \A i \in DOMAIN events : events'[i] = events[i]
    BY <2>1, <2>2, LenProperties
  <2> QED
    BY <2>1, <2>3 DEF RulesInv, Acknowledgements
<1>3. CASE MarkEventsRead
  <2>1. /\ UNCHANGED events /\ clock \in Nat /\ Acknowledgements
        /\ marks' = [marks EXCEPT !.upTo = clock] \/ marks' = marks
    BY <1>3 DEF MarkEventsRead, PersistMarks, RulesInv, RulesTypeOK
  <2>2. PICK u, ids : u = marks.upTo /\ ids = marks.ids
    OBVIOUS
  <2>3. marks = [upTo |-> u, ids |-> ids]
    BY <2>1, <2>2 DEF Acknowledgements
  <2> QED
    BY <2>1, <2>2, <2>3 DEF Acknowledgements
<1>4. CASE MarkEventRead
  <2>1. PICK i \in DOMAIN events : marks' = [marks EXCEPT !.ids = @ \cup {i}] \/ marks' = marks
    BY <1>4 DEF MarkEventRead, PersistMarks
  <2>2. UNCHANGED events /\ Acknowledgements
    BY <1>4 DEF MarkEventRead, RulesInv
  <2>3. PICK u, ids : u = marks.upTo /\ ids = marks.ids
    OBVIOUS
  <2>4. marks = [upTo |-> u, ids |-> ids]
    BY <2>2, <2>3 DEF Acknowledgements
  <2> QED
    BY <2>1, <2>2, <2>3, <2>4 DEF Acknowledgements
<1>5. CASE Restart
  BY <1>5 DEF Restart, RulesInv, Acknowledgements
<1>6. RulesNext => \/ AppendFired \/ MarkEventsRead \/ MarkEventRead \/ Restart
                   \/ UNCHANGED <<marks, events>>
  BY DEF RulesNext, StartPass, SavePass, CreateRule, DeleteRule, ReadRule, ReplaceRule, Advance, markVars
<1> QED
  BY <1>1, <1>2, <1>3, <1>4, <1>5, <1>6 DEF ruleVars

(***************************************************************************)
(* What was acknowledged stands: no step takes back a mark of reading, and *)
(* a rule whose deletion was acknowledged is not in memory or written      *)
(* again, from a pass's copy, an edit in flight or a restart.              *)
(***************************************************************************)
THEOREM RulesAcknowledgedStands == RulesSpec => AcknowledgedStands
<1>1. RulesInv /\ RulesInv' /\ [RulesNext]_ruleVars =>
        [/\ \A i \in DOMAIN events : IsRead(i) => IsRead(i)'
         /\ deleted' \cap (DOMAIN rules' \cup DOMAIN saved') = {}]_ruleVars
  <2> SUFFICES ASSUME RulesInv, RulesInv', [RulesNext]_ruleVars
               PROVE  /\ \A i \in DOMAIN events : IsRead(i) => IsRead(i)'
                      /\ deleted' \cap (DOMAIN rules' \cup DOMAIN saved') = {}
    OBVIOUS
  <2>1. deleted' \cap (DOMAIN rules' \cup DOMAIN saved') = {}
    BY DEF RulesInv, Acknowledgements
  <2>2. ASSUME NEW i \in DOMAIN events, IsRead(i) PROVE IsRead(i)'
    <3>1. /\ marks.upTo <= marks'.upTo /\ marks.ids \subseteq marks'.ids /\ events'[i] = events[i]
          /\ marks.upTo \in Nat /\ marks'.upTo \in Nat
      BY MarksAreKept DEF RulesInv, Acknowledgements
    <3>2. events[i].ts \in Nat
      <4>1. events[i] \in EventRecord
        BY ElementOfSeq DEF RulesInv, RulesTypeOK
      <4> QED
        BY <4>1 DEF EventRecord
    <3> QED
      BY <2>2, <3>1, <3>2 DEF IsRead
  <2> QED
    BY <2>1, <2>2
<1> QED
  BY <1>1, RulesStep, RulesAlways, PTL DEF RulesSpec, AcknowledgedStands
-----------------------------------------------------------------------------
(***************************************************************************)
(* The thesis monitor (ThesisMonitor).                                     *)
(***************************************************************************)
\* What a marker can say has fired.
AllFired == {Fresh} \cup {Move(from, to) : from, to \in Nat}
            \cup {Catalysts(DueSince(after, upTo)) : after, upTo \in Nat}
Points == [ts : Nat \ {0}, px : Nat \ {0}]
MarkerRecord == [what : {"marker"}, stale : BOOLEAN, fired : AllFired, asOf : Nat \ {0}, px : Nat \ {0},
                 baseAt : Nat \ {0}, basePx : Nat \ {0}]
AllIds == Theses \X AllFired \X Nat
JobRecord == [id : AllIds, asOf : Nat, state : {"queued", "processing", "failed", "completed"},
              attempts : Nat, until : Nat, token : Nat, failedAt : Nat]
LeaseRecord == [token : Nat \ {0}, id : AllIds, until : Nat]
Books == [Theses -> MarkerRecord \cup {NoMarker}]

Judging == {"judge", "put", "queue"}
JudgingSweep(s) == [phase |-> sweep[s].phase, reviewed |-> sweep[s].reviewed, bar |-> sweep[s].bar,
                    todo |-> sweep[s].todo, thesis |-> sweep[s].thesis, marker |-> sweep[s].marker]

SweepOK(s) ==
    /\ sweep[s].phase \in {"rest", "bars"} \cup Judging
    /\ sweep[s].phase = "rest" => sweep[s] = Resting
    /\ sweep[s].phase \in Judging =>
          /\ sweep[s] = JudgingSweep(s)
          /\ sweep[s].bar \in Points /\ sweep[s].todo \subseteq Theses
    /\ sweep[s].phase \in {"put", "queue"} =>
          sweep[s].thesis \in Theses /\ sweep[s].marker \in MarkerRecord

MonitorTypeOK ==
    /\ now \in Nat \ {0} /\ bar \in Points /\ bar.ts <= now
    /\ markers \in Books /\ queue \in Seq(JobRecord)
    /\ disk.markers \in Books /\ disk.queue \in Seq(JobRecord)
    /\ holds \in [Workers -> LeaseRecord \cup {NoLease}]
    /\ leases \in Nat /\ acked \subseteq AllIds \X Workers
    /\ DOMAIN pinged = Theses
    /\ DOMAIN sweep = Sweepers /\ \A s \in Sweepers : SweepOK(s)

-----------------------------------------------------------------------------
(* Sweeps, as long as no two overlap. *)

Before(p, q) == p.ts < q.ts \/ p = q
PointOf(marker) == [ts |-> marker.asOf, px |-> marker.px]

\* A marker is no news at the bar it is about, and what it fired for came after its baseline.
MarkerOK(marker) ==
    /\ marker.baseAt <= marker.asOf
    /\ marker.stale \/ marker.fired # Fresh => marker.baseAt < marker.asOf
    /\ ~News(marker, PointOf(marker))

OneAtATime == \A s, o \in Sweepers : s = o \/ sweep[s] = Resting \/ sweep[o] = Resting

BookOK(book) == \A t \in Theses : book[t] # NoMarker =>
                   MarkerOK(book[t]) /\ Before(PointOf(book[t]), bar)

SweepsInOrder ==
    \A s \in Sweepers :
       /\ sweep[s].phase \in Judging =>
             /\ Before(sweep[s].bar, bar)
             /\ \A t \in Theses : markers[t] # NoMarker => Before(PointOf(markers[t]), sweep[s].bar)
       /\ sweep[s].phase \in {"put", "queue"} =>
             MarkerOK(sweep[s].marker) /\ PointOf(sweep[s].marker) = sweep[s].bar /\ sweep[s].marker.stale

InOrder == OneAtATime /\ BookOK(markers) /\ BookOK(disk.markers) /\ SweepsInOrder

\* What was notified last, and whether a marker has moved on since.
LastTold(t) == pinged[t][2]
Follows(marker, told) ==
    marker.baseAt > told[1] \/ (marker.baseAt = told[1] /\ marker.fired = told[2])

Queueing(t) == \E s \in Sweepers : sweep[s].phase = "queue" /\ sweep[s].thesis = t

MarkersFollow ==
    \A t \in Theses :
       /\ LastTold(t)[1] \in Nat
       /\ pinged[t] = Silent \/ pinged[t][1] # pinged[t][2]
       /\ markers[t] = NoMarker => LastTold(t)[1] = 0
       /\ markers[t] # NoMarker => Follows(markers[t], LastTold(t)) \/ Queueing(t)

\* What a sweep is about to say was not said last.
NextIsNew ==
    \A s \in Sweepers : sweep[s].phase \in {"put", "queue"} =>
       LET next == sweep[s].marker
           told == LastTold(sweep[s].thesis)
       IN  next.baseAt > told[1] \/ (next.baseAt = told[1] /\ next.fired # told[2])

\* The marker that a sweep is about to queue a job for is in its place, or already re-based.
PutIsThere ==
    \A s \in Sweepers : sweep[s].phase = "queue" =>
       LET marker == markers[sweep[s].thesis] IN
       \/ marker = sweep[s].marker
       \/ /\ marker # NoMarker /\ ~marker.stale
          /\ marker.asOf = sweep[s].marker.asOf /\ marker.baseAt = marker.asOf

ToldInOrder == MarkersFollow /\ NextIsNew /\ PutIsThere

-----------------------------------------------------------------------------
(* Leases, as long as every write succeeds. *)

Tokens ==
    /\ \A w \in Workers : holds[w] # NoLease => holds[w].token <= leases
    /\ \A v, w \in Workers : v # w /\ holds[v] # NoLease => holds[v].token # holds[w].token

\* A job that a running lease is of is that lease's, and one that was acknowledged is done, and the
\* worker's it was acknowledged to.
Exclusive(job) ==
    /\ \A w \in Workers : Runs(w) /\ holds[w].id = job.id =>
          /\ job.token = holds[w].token
          /\ job.state = "completed" \/ (job.state = "processing" /\ job.until = holds[w].until)
    /\ \A a \in acked : a[1] = job.id =>
          /\ job.state = "completed"
          /\ \A w \in Workers : holds[w] # NoLease /\ holds[w].token = job.token => w = a[2]

JobOK(job) ==
    /\ job.token <= leases /\ job.asOf = job.id[3]
    /\ job.state = "completed" => \E a \in acked : a[1] = job.id
    /\ job.id \in requeued \/ Exclusive(job)

\* A queue, in memory or written.
QueueOK(q) ==
    /\ \A i, j \in DOMAIN q : q[i].id = q[j].id => i = j
    /\ \A i \in DOMAIN q : JobOK(q[i])

OneHolder ==
    \A v, w \in Workers : v # w /\ Runs(v) /\ Runs(w) /\ holds[v].id = holds[w].id => holds[v].id \in requeued
OneAnswer == \A a, b \in acked : a[1] = b[1] => a = b \/ a[1] \in requeued

LeasesOK == Tokens /\ QueueOK(queue) /\ QueueOK(disk.queue) /\ OneHolder /\ OneAnswer

-----------------------------------------------------------------------------
(* Jobs, as long as both. *)

\* A job that is queued or was given out is of a bar no later than its thesis's marker, and earlier
\* than the one that a sweep has found news at.
Dated(id) ==
    /\ id[3] <= bar.ts
    /\ \A s \in Sweepers :
          /\ sweep[s].phase \in Judging => id[3] <= sweep[s].bar.ts
          /\ sweep[s].phase \in {"put", "queue"} /\ sweep[s].thesis = id[1] => id[3] < sweep[s].bar.ts
Reached(book, id) == book[id[1]] # NoMarker => id[3] <= book[id[1]].asOf

JobsInOrder ==
    /\ requeued = {}
    /\ \A id \in GivenOut : Dated(id) /\ Reached(markers, id) /\ Reached(disk.markers, id)
    /\ \A i \in DOMAIN queue : Dated(queue[i].id) /\ Reached(markers, queue[i].id)
    /\ \A i \in DOMAIN disk.queue : disk.queue[i].id[3] <= bar.ts /\ Reached(disk.markers, disk.queue[i].id)

\* Every stale marker of a book has its job in the queue, or had.
Queued(book, q, gone, t) ==
    book[t] # NoMarker /\ book[t].stale =>
        LET id == JobId(t, book[t].fired, book[t].asOf)
        IN  (\E i \in DOMAIN q : q[i].id = id /\ q[i].state # "completed") \/ id \in gone

StaleOK ==
    /\ \A t \in Theses : Queued(markers, queue, dropped, t) \/ Queueing(t)
    /\ disk.torn \/ \A t \in Theses : Queued(disk.markers, disk.queue, disk.dropped, t)

MonitorInv ==
    /\ MonitorTypeOK
    /\ cut \in BOOLEAN /\ overlapped \in BOOLEAN
    /\ ~overlapped => InOrder /\ ToldInOrder
    /\ ~cut => LeasesOK
    /\ ~cut /\ ~overlapped => JobsInOrder /\ StaleOK

\* What a marker can say has fired is what the comparison finds.
LEMMA ConditionType ==
    ASSUME NEW m \in MarkerRecord, NEW p \in Points
    PROVE  Condition(m, p) \in AllFired
BY DEF Condition, AllFired, MarkerRecord, Points

\* The fields of a marker.
LEMMA MarkerFields ==
    ASSUME NEW m \in MarkerRecord
    PROVE  /\ m.asOf \in Nat \ {0} /\ m.px \in Nat \ {0} /\ m.baseAt \in Nat \ {0} /\ m.basePx \in Nat \ {0}
           /\ m.fired \in AllFired /\ m # NoMarker /\ PointOf(m) \in Points
BY DEF MarkerRecord, NoMarker, PointOf, Points

\* Nothing has moved, and nothing came due, at the point a baseline was taken at.
LEMMA NothingSince ==
    ASSUME NEW at \in Nat, NEW px \in Nat \ {0}
    PROVE  ~Moved(px, px) /\ DueSince(at, at) = 0
<1>1. ~Moved(px, px)
  BY DEF Moved
<1>2. {a \in CatalystsDue : at < a /\ a =< at} = {}
  <2>1. \A a \in CatalystsDue : a \in Nat
    BY MonitorAssumption
  <2> QED
    BY <2>1
<1>3. DueSince(at, at) = 0
  BY <1>2, FS_EmptySet DEF DueSince
<1> QED
  BY <1>1, <1>3

\* A marker whose baseline is what it is about, and that says nothing, is in order.
LEMMA AtBaseline ==
    ASSUME NEW m \in MarkerRecord, m.baseAt = m.asOf, m.basePx = m.px, m.fired = Fresh, ~m.stale
    PROVE  MarkerOK(m)
<1>1. ~Moved(m.px, m.px) /\ DueSince(m.asOf, m.asOf) = 0
  BY NothingSince, MarkerFields
<1>2. PointOf(m).ts = m.asOf /\ PointOf(m).px = m.px
  BY DEF PointOf
<1>3. Condition(m, PointOf(m)) = Fresh
  BY <1>1, <1>2 DEF Condition
<1>4. ~News(m, PointOf(m))
  BY <1>3 DEF News
<1> QED
  BY <1>4, MarkerFields DEF MarkerOK

\* A first sighting, or one after a review, sets a baseline.
LEMMA BaselineMarker ==
    ASSUME NEW p \in Points
    PROVE  /\ Baseline(p) \in MarkerRecord /\ MarkerOK(Baseline(p)) /\ PointOf(Baseline(p)) = p
           /\ Baseline(p).stale = FALSE /\ Baseline(p).fired = Fresh
           /\ Baseline(p).asOf = p.ts /\ Baseline(p).baseAt = p.ts
<1>1. Baseline(p) \in MarkerRecord
  BY DEF Baseline, MarkerRecord, Points, AllFired
<1>2. /\ Baseline(p).stale = FALSE /\ Baseline(p).fired = Fresh
      /\ Baseline(p).asOf = p.ts /\ Baseline(p).baseAt = p.ts
      /\ Baseline(p).px = p.px /\ Baseline(p).basePx = p.px
  BY DEF Baseline
<1>3. MarkerOK(Baseline(p))
  BY <1>1, <1>2, AtBaseline
<1>4. PointOf(Baseline(p)) = p
  BY <1>2 DEF PointOf, Points
<1> QED
  BY <1>1, <1>2, <1>3, <1>4

\* What a stale marker says.
LEMMA StaleFields ==
    ASSUME NEW m \in MarkerRecord, NEW p \in Points
    PROVE  /\ Stale(m, p) \in MarkerRecord /\ PointOf(Stale(m, p)) = p
           /\ Stale(m, p).stale = TRUE /\ Stale(m, p).fired = Condition(m, p)
           /\ Stale(m, p).asOf = p.ts /\ Stale(m, p).px = p.px
           /\ Stale(m, p).baseAt = m.baseAt /\ Stale(m, p).basePx = m.basePx
<1>1. Condition(m, p) \in AllFired
  BY ConditionType
<1>2. PICK c \in AllFired : c = Condition(m, p)
  BY <1>1
<1>3. Stale(m, p) = [m EXCEPT !.stale = TRUE, !.fired = c, !.asOf = p.ts, !.px = p.px]
  BY <1>2 DEF Stale
<1>4. p.ts \in Nat \ {0} /\ p.px \in Nat \ {0} /\ p = [ts |-> p.ts, px |-> p.px]
  BY DEF Points
<1>5. m = [what |-> m.what, stale |-> m.stale, fired |-> m.fired, asOf |-> m.asOf, px |-> m.px,
           baseAt |-> m.baseAt, basePx |-> m.basePx]
  BY DEF MarkerRecord
<1>6. Stale(m, p) = [what |-> m.what, stale |-> TRUE, fired |-> c, asOf |-> p.ts, px |-> p.px,
                     baseAt |-> m.baseAt, basePx |-> m.basePx]
  BY <1>3, <1>5
<1>7. Stale(m, p) \in MarkerRecord
  BY <1>6, <1>4, <1>2 DEF MarkerRecord
<1> QED
  BY <1>6, <1>7, <1>4, <1>2 DEF PointOf

\* A stale marker is of a later bar than the one before it, and says something else.
LEMMA StaleMarker ==
    ASSUME NEW m \in MarkerRecord, NEW p \in Points, MarkerOK(m), Before(PointOf(m), p), News(m, p)
    PROVE  /\ MarkerOK(Stale(m, p)) /\ m.asOf < p.ts
           /\ Condition(m, p) # m.fired /\ Condition(m, p) # Fresh
<1>1. PointOf(m) # p
  BY DEF MarkerOK
<1>2. m.asOf < p.ts
  BY <1>1 DEF Before, PointOf
<1>3. Condition(m, p) # m.fired /\ Condition(m, p) # Fresh
  BY DEF News
<1>4. Condition(Stale(m, p), p) = Condition(m, p)
  BY StaleFields DEF Condition
<1>5. ~News(Stale(m, p), PointOf(Stale(m, p)))
  BY <1>4, StaleFields DEF News
<1>6. m.baseAt <= m.asOf /\ m.baseAt < p.ts
  BY <1>2, MarkerFields DEF MarkerOK, Points
<1>7. Stale(m, p).baseAt < Stale(m, p).asOf /\ Stale(m, p).baseAt <= Stale(m, p).asOf
  <2>1. m.baseAt \in Nat /\ p.ts \in Nat
    BY MarkerFields DEF Points
  <2>2. Stale(m, p).baseAt = m.baseAt /\ Stale(m, p).asOf = p.ts
    BY StaleFields
  <2> QED
    BY <1>6, <2>1, <2>2
<1> QED
  BY <1>2, <1>3, <1>5, <1>7 DEF MarkerOK

\* A completed job moves the baseline to what it looked at.
LEMMA RebasedMarker ==
    ASSUME NEW m \in MarkerRecord
    PROVE  /\ Rebased(m) \in MarkerRecord /\ MarkerOK(Rebased(m)) /\ PointOf(Rebased(m)) = PointOf(m)
           /\ Rebased(m).stale = FALSE /\ Rebased(m).fired = Fresh
           /\ Rebased(m).asOf = m.asOf /\ Rebased(m).baseAt = m.asOf
<1>1. m = [what |-> m.what, stale |-> m.stale, fired |-> m.fired, asOf |-> m.asOf, px |-> m.px,
           baseAt |-> m.baseAt, basePx |-> m.basePx]
  BY DEF MarkerRecord
<1>0. PICK a, x : a = m.asOf /\ x = m.px
  OBVIOUS
<1>9. Rebased(m) = [m EXCEPT !.stale = FALSE, !.baseAt = a, !.basePx = x, !.fired = Fresh]
  BY <1>0 DEF Rebased
<1>2. Rebased(m) = [what |-> m.what, stale |-> FALSE, fired |-> Fresh, asOf |-> m.asOf, px |-> m.px,
                    baseAt |-> m.asOf, basePx |-> m.px]
  BY <1>0, <1>1, <1>9
<1>3. Rebased(m) \in MarkerRecord
  BY <1>2 DEF MarkerRecord, AllFired
<1>4. /\ Rebased(m).stale = FALSE /\ Rebased(m).fired = Fresh /\ Rebased(m).px = m.px
      /\ Rebased(m).asOf = m.asOf /\ Rebased(m).baseAt = m.asOf /\ Rebased(m).basePx = m.px
  BY <1>2
<1>5. MarkerOK(Rebased(m))
  BY <1>3, <1>4, AtBaseline
<1> QED
  BY <1>3, <1>4, <1>5 DEF PointOf

\* Points in time are ordered.
LEMMA BeforeTrans ==
    ASSUME NEW p \in Points, NEW q \in Points, NEW r \in Points, Before(p, q), Before(q, r)
    PROVE  Before(p, r) /\ p.ts <= q.ts
BY DEF Before, Points

-----------------------------------------------------------------------------
(* Jobs *)

\* The fields of a job.
LEMMA JobFields ==
    ASSUME NEW j \in JobRecord
    PROVE  /\ j = [id |-> j.id, asOf |-> j.asOf, state |-> j.state, attempts |-> j.attempts,
                   until |-> j.until, token |-> j.token, failedAt |-> j.failedAt]
           /\ j.id \in AllIds /\ j.asOf \in Nat /\ j.attempts \in Nat /\ j.until \in Nat
           /\ j.token \in Nat /\ j.failedAt \in Nat
           /\ j.state \in {"queued", "processing", "failed", "completed"}
BY DEF JobRecord

\* A job that has rested is the same one, queued afresh if it had failed.
LEMMA RestedJob ==
    ASSUME NEW j \in JobRecord
    PROVE  /\ Rested(j) \in JobRecord /\ Rested(j).id = j.id /\ Rested(j).asOf = j.asOf
           /\ Rested(j).token = j.token /\ (j.state # "failed" => Rested(j) = j)
           /\ (Rested(j).state = "completed" <=> j.state = "completed")
<1>0. j = [id |-> j.id, asOf |-> j.asOf, state |-> j.state, attempts |-> j.attempts,
           until |-> j.until, token |-> j.token, failedAt |-> j.failedAt]
  BY JobFields
<1>1. CASE j.state = "failed" /\ j.failedAt > 0 /\ j.failedAt + RetryDelay =< now
  <2>1. Rested(j) = [id |-> j.id, asOf |-> j.asOf, state |-> "queued", attempts |-> 0,
                     until |-> j.until, token |-> j.token, failedAt |-> 0]
    BY <1>0, <1>1 DEF Rested
  <2> QED
    BY <2>1, <1>1, JobFields DEF JobRecord
<1>2. CASE ~(j.state = "failed" /\ j.failedAt > 0 /\ j.failedAt + RetryDelay =< now)
  BY <1>2 DEF Rested
<1> QED
  BY <1>1, <1>2

\* A job whose attempts are used up has failed, and is no lease's.
LEMMA ExhaustedJob ==
    ASSUME NEW j \in JobRecord, now \in Nat
    PROVE  /\ Exhausted(j) \in JobRecord /\ Exhausted(j).id = j.id /\ Exhausted(j).asOf = j.asOf
           /\ Exhausted(j).token = 0 /\ Exhausted(j).state = "failed"
<1>0. j = [id |-> j.id, asOf |-> j.asOf, state |-> j.state, attempts |-> j.attempts,
           until |-> j.until, token |-> j.token, failedAt |-> j.failedAt]
  BY JobFields
<1>1. Exhausted(j) = [id |-> j.id, asOf |-> j.asOf, state |-> "failed", attempts |-> j.attempts,
                      until |-> 0, token |-> 0, failedAt |-> now]
  <2>1. PICK t : t = now
    OBVIOUS
  <2>2. Exhausted(j) = [j EXCEPT !.state = "failed", !.failedAt = t, !.until = 0, !.token = 0]
    BY <2>1 DEF Exhausted
  <2> QED
    BY <1>0, <2>1, <2>2
<1> QED
  BY <1>1, JobFields DEF JobRecord

\* A claimed job is the new lease's.
LEMMA ClaimedJob ==
    ASSUME NEW j \in JobRecord, now \in Nat, leases \in Nat
    PROVE  /\ Claimed(j) \in JobRecord /\ Claimed(j).id = j.id /\ Claimed(j).asOf = j.asOf
           /\ Claimed(j).token = leases + 1 /\ Claimed(j).state = "processing"
           /\ Claimed(j).until = now + LeaseTime
<1>1. PICK n : n = j.attempts + 1
  OBVIOUS
<1>2. Claimed(j) = [j EXCEPT !.state = "processing", !.attempts = n, !.until = now + LeaseTime,
                             !.token = leases + 1]
  BY <1>1 DEF Claimed
<1>3. Claimed(j) = [id |-> j.id, asOf |-> j.asOf, state |-> "processing", attempts |-> n,
                    until |-> now + LeaseTime, token |-> leases + 1, failedAt |-> j.failedAt]
  BY <1>2, JobFields, ZenonT(40)
<1>4. n \in Nat /\ now + LeaseTime \in Nat /\ leases + 1 \in Nat
  BY <1>1, JobFields, MonitorAssumption
<1> QED
  BY <1>3, <1>4, JobFields DEF JobRecord

\* A job that a lease runs on, or that is done, is not up for another lease.
Settled(job) == job.state = "completed" \/ (job.state = "processing" /\ job.until > now)

\* Such a job is neither queued afresh nor eligible.
LEMMA SettledJob ==
    ASSUME NEW j \in JobRecord, Settled(j), now \in Nat
    PROVE  Rested(j) = j /\ ~Eligible(j)
<1>1. j.state # "failed"
  BY DEF Settled
<1>2. Rested(j) = j
  BY <1>1, RestedJob
<1>3. ~Eligible(j)
  BY JobFields DEF Settled, Eligible
<1> QED
  BY <1>2, <1>3

\* Some number is the least of a set of them.
LEMMA LeastOf ==
    ASSUME NEW S \in SUBSET Nat, S # {}
    PROVE  \E x \in S : \A y \in S : x <= y
<1>1. \E x \in S : \A y \in S : ~ (<<y, x>> \in OpToRel(<, Nat))
  BY NatLessThanWellFounded, WFMin
<1>2. PICK x \in S : \A y \in S : ~ (<<y, x>> \in OpToRel(<, Nat))
  BY <1>1
<1>3. ASSUME NEW y \in S PROVE x <= y
  <2>1. x \in Nat /\ y \in Nat /\ <<y, x>> \in Nat \X Nat
    OBVIOUS
  <2>2. ~ (y < x)
    BY <1>2, <2>1 DEF OpToRel
  <2> QED BY <2>1, <2>2
<1> QED
  BY <1>3

\* What a request for a lease does to the queue, job by job.
LEMMA LeaseStep ==
    ASSUME MonitorTypeOK, NEW w \in Workers, LeaseResynth(w)
    PROVE  /\ queue' \in Seq(JobRecord) /\ Len(queue') = Len(queue)
           /\ \A i \in 1 .. Len(queue) :
                 /\ queue'[i].id = queue[i].id /\ queue'[i].asOf = queue[i].asOf
                 /\ queue'[i].state = "completed" <=> queue[i].state = "completed"
                 /\ Settled(queue[i]) => queue'[i] = queue[i]
           /\ \/ /\ UNCHANGED <<holds, leases>>
                 /\ \A i \in 1 .. Len(queue) : queue'[i].token \in {0, queue[i].token}
              \/ /\ leases' = leases + 1
                 /\ \A i \in 1 .. Len(queue) : queue'[i].token \in {0, queue[i].token, leases + 1}
                 /\ \E n \in 1 .. Len(queue) :
                       /\ ~Settled(queue[n])
                       /\ holds' = [holds EXCEPT ![w] = [token |-> leases + 1, id |-> queue[n].id,
                                                         until |-> now + LeaseTime]]
                       /\ queue'[n].state = "processing" /\ queue'[n].token = leases + 1
                       /\ queue'[n].until = now + LeaseTime
<1> DEFINE n == Len(queue)
           rested == [i \in DOMAIN queue |-> Rested(queue[i])]
           free == {i \in DOMAIN queue : Eligible(rested[i]) /\ rested[i].attempts < MaxAttempts}
           first == CHOOSE i \in free \cup {Len(queue) + 1} : \A j \in free : i =< j
<1>1. n \in Nat /\ DOMAIN queue = 1 .. n /\ now \in Nat /\ leases \in Nat /\ queue \in Seq(JobRecord)
  BY LenProperties DEF MonitorTypeOK
<1>2. \A i \in 1 .. n : queue[i] \in JobRecord
  BY <1>1, ElementOfSeq
<1>3. /\ queue' = [i \in DOMAIN queue |->
                     IF i > first THEN queue[i]
                     ELSE IF i = first THEN Claimed(rested[i])
                     ELSE IF Eligible(rested[i]) THEN Exhausted(rested[i]) ELSE rested[i]]
      /\ free = {} => UNCHANGED <<holds, leases>>
      /\ free # {} => /\ holds' = [holds EXCEPT ![w] = [token |-> leases + 1, id |-> queue[first].id,
                                                        until |-> now + LeaseTime]]
                      /\ leases' = leases + 1
  BY DEF LeaseResynth
<1>4. free \subseteq 1 .. n
  BY <1>1
<1>5. \A i \in 1 .. n : rested[i] = Rested(queue[i])
  BY <1>1
<1>6. first \in free \/ (first = n + 1 /\ free = {})
  <2>1. CASE free = {}
    BY <2>1
  <2>2. CASE free # {}
    <3>1. PICK x \in free : \A y \in free : x <= y
      <4>1. free \in SUBSET Nat
        BY <1>1
      <4> HIDE DEF free
      <4> QED
        BY <2>2, <4>1, LeastOf
    <3>2. first \in free \cup {n + 1} /\ \A j \in free : first =< j
      BY <3>1
    <3>3. first # n + 1
      <4>1. x \in 1 .. n /\ first =< x /\ n \in Nat
        BY <3>1, <3>2, <1>4, <1>1
      <4> HIDE DEF first, free, n
      <4> QED
        BY <4>1
    <3> QED
      BY <3>2, <3>3
  <2> QED
    BY <2>1, <2>2
<1>7. \A i \in free : Eligible(Rested(queue[i]))
  BY <1>4, <1>5
<1> HIDE DEF free, first, rested
<1>8. ASSUME NEW i \in 1 .. n
      PROVE  /\ queue'[i] \in JobRecord /\ queue'[i].id = queue[i].id /\ queue'[i].asOf = queue[i].asOf
             /\ queue'[i].state = "completed" <=> queue[i].state = "completed"
             /\ Settled(queue[i]) => queue'[i] = queue[i]
             /\ i # first => queue'[i].token \in {0, queue[i].token}
             /\ i = first => /\ queue'[i].state = "processing" /\ queue'[i].token = leases + 1
                             /\ queue'[i].until = now + LeaseTime /\ ~Settled(queue[i])
  <2>1. PICK q \in JobRecord : q = queue[i]
    BY <1>2
  <2>2. PICK r \in JobRecord : r = Rested(q)
    BY RestedJob
  <2>3. /\ r.id = q.id /\ r.asOf = q.asOf /\ r.token = q.token /\ (q.state # "failed" => r = q)
        /\ (r.state = "completed" <=> q.state = "completed")
    BY <2>2, RestedJob
  <2>4. queue'[i] = IF i > first THEN q ELSE IF i = first THEN Claimed(r)
                    ELSE IF Eligible(r) THEN Exhausted(r) ELSE r
    BY <1>1, <1>3, <1>5, <2>1, <2>2
  <2>5. Settled(q) => r = q /\ ~Eligible(r)
    BY <1>1, <2>2, SettledJob
  <2>6. Eligible(r) => r.state # "completed"
    BY DEF Eligible
  <2>7. i = first => Eligible(r)
    BY <1>1, <1>6, <1>7, <2>1, <2>2
  <2>8. CASE i = first
    BY <1>1, <2>1, <2>3, <2>4, <2>5, <2>6, <2>7, <2>8, ClaimedJob, <1>6
  <2>9. CASE i # first /\ ~(i > first) /\ Eligible(r)
    BY <1>1, <2>1, <2>3, <2>4, <2>5, <2>6, <2>9, ExhaustedJob
  <2>10. CASE i # first /\ (i > first \/ ~Eligible(r))
    BY <2>1, <2>3, <2>4, <2>5, <2>10
  <2> QED
    BY <2>8, <2>9, <2>10
<1>9. queue' \in Seq(JobRecord) /\ Len(queue') = Len(queue)
  <2>1. DOMAIN queue' = 1 .. n /\ queue' = [i \in 1 .. n |-> queue'[i]]
    BY <1>1, <1>3
  <2> QED
    BY <1>1, <1>8, <2>1
<1>10. CASE free = {}
  <2>1. first \notin 1 .. n
    BY <1>1, <1>6, <1>10
  <2>2. UNCHANGED <<holds, leases>>
    BY <1>3, <1>10
  <2>3. \A i \in 1 .. Len(queue) : queue'[i].token \in {0, queue[i].token}
    BY <1>8, <2>1
  <2> QED
    BY <1>8, <1>9, <2>2, <2>3
<1>11. CASE free # {}
  <2>1. first \in 1 .. Len(queue)
    BY <1>4, <1>6, <1>11
  <2>2. \A i \in 1 .. Len(queue) : queue'[i].token \in {0, queue[i].token, leases + 1}
    BY <1>8
  <2>3. /\ leases' = leases + 1
        /\ holds' = [holds EXCEPT ![w] = [token |-> leases + 1, id |-> queue[first].id,
                                          until |-> now + LeaseTime]]
    BY <1>3, <1>11
  <2> QED
    BY <1>8, <1>9, <2>1, <2>2, <2>3
<1> QED
  BY <1>10, <1>11

\* The id of a sweep's job, and the job.
SweepId(s) == JobId(sweep[s].thesis, sweep[s].marker.fired, sweep[s].marker.asOf)
SweepJob(s) == NewJob(SweepId(s), sweep[s].marker.asOf)

\* A new job is queued, for a thesis, a finding and a bar.
LEMMA SweepJobFields ==
    ASSUME MonitorTypeOK, NEW s \in Sweepers, sweep[s].phase \in {"put", "queue"}
    PROVE  /\ SweepJob(s) \in JobRecord /\ SweepJob(s).id = SweepId(s) /\ SweepId(s) \in AllIds
           /\ SweepJob(s).asOf = sweep[s].marker.asOf /\ SweepId(s)[1] = sweep[s].thesis
           /\ SweepId(s)[3] = sweep[s].marker.asOf /\ SweepJob(s).token = 0 /\ SweepJob(s).state = "queued"
<1>1. SweepOK(s)
  BY DEF MonitorTypeOK
<1>2. sweep[s].thesis \in Theses /\ sweep[s].marker \in MarkerRecord
  BY <1>1 DEF SweepOK
<1>3. sweep[s].marker.fired \in AllFired /\ sweep[s].marker.asOf \in Nat
  BY <1>2, MarkerFields
<1>4. /\ SweepId(s) \in AllIds /\ SweepId(s)[1] = sweep[s].thesis /\ SweepId(s)[3] = sweep[s].marker.asOf
  BY <1>2, <1>3 DEF SweepId, JobId, AllIds
<1> HIDE DEF SweepId
<1> QED
  BY <1>3, <1>4 DEF SweepJob, NewJob, JobRecord

\* What queueing a job does to the queue: the new one is last, and the oldest may be dropped.
LEMMA EnqueueStep ==
    ASSUME MonitorTypeOK, NEW s \in Sweepers, Enqueue(s)
    PROVE  /\ queue' \in Seq(JobRecord)
           /\ \/ /\ UNCHANGED <<queue, dropped, requeued>>
                 /\ \E i \in DOMAIN queue : queue[i].id = SweepId(s)
              \/ /\ requeued' = requeued \cup {j \in GivenOut : j = SweepId(s)}
                 /\ dropped \subseteq dropped'
                 /\ \A i \in DOMAIN queue' : \/ queue'[i] = SweepJob(s)
                                             \/ \E k \in DOMAIN queue : queue'[i] = queue[k]
                 /\ \A k \in DOMAIN queue : \/ queue[k].id \in dropped'
                                            \/ \E i \in DOMAIN queue' : queue'[i] = queue[k]
                 /\ \E i \in DOMAIN queue' : queue'[i] = SweepJob(s)
                 /\ (\A i, j \in DOMAIN queue : queue[i].id = queue[j].id => i = j) =>
                       \A i, j \in DOMAIN queue' : queue'[i].id = queue'[j].id => i = j
<1> DEFINE n == Len(queue)
           grown == Append(queue, SweepJob(s))
           drop == Overflow(grown)
<1>1. n \in Nat /\ DOMAIN queue = 1 .. n /\ queue \in Seq(JobRecord)
  BY LenProperties DEF MonitorTypeOK
<1>2. SweepJob(s) \in JobRecord /\ SweepJob(s).id = SweepId(s)
  BY SweepJobFields DEF Enqueue, At
<1>3. \/ (\E i \in DOMAIN queue : queue[i].id = SweepId(s)) /\ UNCHANGED <<queue, dropped, requeued>>
      \/ /\ ~\E i \in DOMAIN queue : queue[i].id = SweepId(s)
         /\ queue' = SubSeq(grown, drop + 1, Len(grown))
         /\ dropped' = dropped \cup {grown[i].id : i \in 1 .. drop}
         /\ requeued' = requeued \cup {j \in GivenOut : j = SweepId(s)}
  BY DEF Enqueue, SweepId, SweepJob
<1>4. CASE UNCHANGED <<queue, dropped, requeued>> /\ \E i \in DOMAIN queue : queue[i].id = SweepId(s)
  BY <1>1, <1>4
<1>5. CASE /\ ~\E i \in DOMAIN queue : queue[i].id = SweepId(s)
           /\ queue' = SubSeq(grown, drop + 1, Len(grown))
           /\ dropped' = dropped \cup {grown[i].id : i \in 1 .. drop}
           /\ requeued' = requeued \cup {j \in GivenOut : j = SweepId(s)}
  <2>1. /\ Len(grown) = n + 1 /\ grown[n + 1] = SweepJob(s)
        /\ \A i \in 1 .. n : grown[i] = queue[i]
    BY <1>1, <1>2, AppendProperties
  <2>2. drop \in 0 .. n
    BY <1>1, <2>1, MonitorAssumption DEF Overflow
  <2>3. \A i \in drop + 1 .. n + 1 : grown[i] \in JobRecord
    BY <1>1, <1>2, <2>1, <2>2, ElementOfSeq
  <2> HIDE DEF grown, drop
  <2>4. /\ queue' \in Seq(JobRecord) /\ Len(queue') = n + 1 - drop
        /\ \A i \in 1 .. n + 1 - drop : queue'[i] = grown[drop + i]
    <3>1. drop + 1 \in Int /\ n + 1 \in Int /\ drop + 1 <= n + 1
      BY <1>1, <2>2
    <3>2. /\ SubSeq(grown, drop + 1, n + 1) \in Seq(JobRecord)
          /\ Len(SubSeq(grown, drop + 1, n + 1)) = n + 1 - (drop + 1) + 1
          /\ \A i \in 1 .. n + 1 - (drop + 1) + 1 : SubSeq(grown, drop + 1, n + 1)[i] = grown[drop + 1 + i - 1]
      BY <3>1, <2>3, SubSeqProperties
    <3> QED
      BY <1>1, <1>5, <2>1, <2>2, <3>2
  <2>5. DOMAIN queue' = 1 .. n + 1 - drop
    BY <2>4, LenProperties
  <2>6. \A i \in DOMAIN queue' : /\ drop + i \in 1 .. n + 1
                                 /\ queue'[i] = IF drop + i = n + 1 THEN SweepJob(s) ELSE queue[drop + i]
    BY <1>1, <2>1, <2>2, <2>4, <2>5
  <2>7. \A i \in DOMAIN queue' : queue'[i] = SweepJob(s) \/ \E k \in DOMAIN queue : queue'[i] = queue[k]
    BY <1>1, <2>2, <2>6
  <2>8. ASSUME NEW k \in DOMAIN queue
        PROVE  queue[k].id \in dropped' \/ \E i \in DOMAIN queue' : queue'[i] = queue[k]
    <3>1. CASE k <= drop
      BY <1>1, <1>5, <2>1, <2>2, <3>1
    <3>2. CASE k > drop
      <4>1. k - drop \in DOMAIN queue' /\ drop + (k - drop) = k
        BY <1>1, <2>2, <2>5, <3>2
      <4> QED
        BY <1>1, <2>6, <4>1
    <3> QED
      BY <1>1, <2>2, <3>1, <3>2
  <2>9. \E i \in DOMAIN queue' : queue'[i] = SweepJob(s)
    <3>1. n + 1 - drop \in DOMAIN queue' /\ drop + (n + 1 - drop) = n + 1
      BY <1>1, <2>2, <2>5
    <3> QED
      BY <2>6, <3>1
  <2>10. ASSUME \A i, j \in DOMAIN queue : queue[i].id = queue[j].id => i = j,
                NEW i \in DOMAIN queue', NEW j \in DOMAIN queue', queue'[i].id = queue'[j].id
         PROVE  i = j
    <3>1. drop + i \in 1 .. n + 1 /\ drop + j \in 1 .. n + 1 /\ i \in Int /\ j \in Int
      BY <1>1, <2>2, <2>5, <2>6
    <3>2. CASE drop + i = n + 1 /\ drop + j = n + 1
      BY <1>1, <2>2, <3>1, <3>2
    <3>3. CASE drop + i # n + 1 /\ drop + j # n + 1
      <4>1. drop + i \in DOMAIN queue /\ drop + j \in DOMAIN queue
        BY <1>1, <2>2, <3>1, <3>3
      <4>2. queue'[i] = queue[drop + i] /\ queue'[j] = queue[drop + j]
        BY <2>6, <3>3
      <4>3. drop + i = drop + j
        BY <2>10, <4>1, <4>2
      <4> QED
        BY <1>1, <2>2, <3>1, <4>3
    <3>4. CASE drop + i = n + 1 /\ drop + j # n + 1
      <4>1. drop + j \in DOMAIN queue
        BY <1>1, <2>2, <3>1, <3>4
      <4>2. queue'[i] = SweepJob(s) /\ queue'[j] = queue[drop + j]
        BY <2>6, <3>4
      <4> QED
        BY <1>2, <1>5, <2>10, <4>1, <4>2
    <3>5. CASE drop + i # n + 1 /\ drop + j = n + 1
      <4>1. drop + i \in DOMAIN queue
        BY <1>1, <2>2, <3>1, <3>5
      <4>2. queue'[j] = SweepJob(s) /\ queue'[i] = queue[drop + i]
        BY <2>6, <3>5
      <4> QED
        BY <1>2, <1>5, <2>10, <4>1, <4>2
    <3> QED
      BY <3>2, <3>3, <3>4, <3>5
  <2> QED
    BY <1>5, <2>4, <2>7, <2>8, <2>9, <2>10
<1> QED
  BY <1>3, <1>4, <1>5

\* What an answer does to the job that is the lease's.
LEMMA CompleteStep ==
    ASSUME MonitorTypeOK, NEW w \in Workers, CompleteResynth(w)
    PROVE  \E i \in DOMAIN queue :
              /\ holds[w] # NoLease /\ queue[i].id = holds[w].id /\ queue[i].token = holds[w].token
              /\ acked' = acked \cup {<<queue[i].id, w>>}
              /\ holds' = [holds EXCEPT ![w] = NoLease] \/ holds' = holds
              /\ \/ queue[i].state = "completed" /\ UNCHANGED <<queue, markers, disk, cut>>
                 \/ /\ queue[i].state = "processing" /\ PersistAll
                    /\ queue' \in Seq(JobRecord) /\ Len(queue') = Len(queue)
                    /\ \A k \in DOMAIN queue : /\ queue'[k].id = queue[k].id
                                               /\ queue'[k].asOf = queue[k].asOf
                                               /\ queue'[k].token = queue[k].token
                                               /\ k # i => queue'[k] = queue[k]
                    /\ queue'[i].state = "completed"
                    /\ LET t == queue[i].id[1]
                           rebase == markers[t] # NoMarker /\ markers[t].stale /\ markers[t].asOf = queue[i].asOf
                       IN  markers' = IF rebase THEN [markers EXCEPT ![t] = Rebased(@)] ELSE markers
<1>1. DOMAIN queue = 1 .. Len(queue) /\ queue \in Seq(JobRecord)
  BY LenProperties DEF MonitorTypeOK
<1>2. PICK i \in DOMAIN queue :
        /\ holds[w] # NoLease /\ queue[i].id = holds[w].id /\ queue[i].token = holds[w].token
        /\ acked' = acked \cup {<<queue[i].id, w>>}
        /\ holds' = [holds EXCEPT ![w] = NoLease] \/ holds' = holds
        /\ \/ queue[i].state = "completed" /\ UNCHANGED <<queue, markers, disk, cut>>
           \/ /\ queue[i].state = "processing" /\ PersistAll
              /\ queue' = [queue EXCEPT ![i].state = "completed", ![i].until = 0]
              /\ LET t == queue[i].id[1]
                     rebase == markers[t] # NoMarker /\ markers[t].stale /\ markers[t].asOf = queue[i].asOf
                 IN  markers' = IF rebase THEN [markers EXCEPT ![t] = Rebased(@)] ELSE markers
  BY DEF CompleteResynth, Held, IsLeaseOf
<1>3. ASSUME queue' = [queue EXCEPT ![i].state = "completed", ![i].until = 0]
      PROVE  /\ queue' \in Seq(JobRecord) /\ Len(queue') = Len(queue)
             /\ \A k \in DOMAIN queue : /\ queue'[k].id = queue[k].id
                                        /\ queue'[k].asOf = queue[k].asOf
                                        /\ queue'[k].token = queue[k].token
                                        /\ k # i => queue'[k] = queue[k]
             /\ queue'[i].state = "completed"
  <2>1. PICK j \in JobRecord : j = queue[i]
    BY <1>1, ElementOfSeq
  <2>2. PICK u : u = [j EXCEPT !.state = "completed", !.until = 0]
    OBVIOUS
  <2>3. j = [id |-> j.id, asOf |-> j.asOf, state |-> j.state, attempts |-> j.attempts,
             until |-> j.until, token |-> j.token, failedAt |-> j.failedAt]
    BY JobFields
  <2>4. u = [id |-> j.id, asOf |-> j.asOf, state |-> "completed", attempts |-> j.attempts,
             until |-> 0, token |-> j.token, failedAt |-> j.failedAt]
    BY <2>2, <2>3
  <2>5. u \in JobRecord
    BY <2>4, JobFields DEF JobRecord
  <2>6. queue' = [queue EXCEPT ![i] = u]
    BY <1>3, <2>1, <2>2
  <2>7. queue' \in Seq(JobRecord) /\ Len(queue') = Len(queue)
    BY <1>1, <2>5, <2>6, ExceptSeq
  <2> QED
    BY <1>1, <2>1, <2>4, <2>6, <2>7
<1> QED
  BY <1>2, <1>3

\* What a failure does to the job that is the lease's.
LEMMA FailStep ==
    ASSUME MonitorTypeOK, NEW w \in Workers, FailResynth(w)
    PROVE  \E i \in DOMAIN queue :
              /\ holds[w] # NoLease /\ queue[i].id = holds[w].id /\ queue[i].token = holds[w].token
              /\ holds' = [holds EXCEPT ![w] = NoLease]
              /\ queue[i].state = "processing"
              /\ queue' \in Seq(JobRecord) /\ Len(queue') = Len(queue)
              /\ \A k \in DOMAIN queue : /\ queue'[k].id = queue[k].id
                                         /\ queue'[k].asOf = queue[k].asOf
                                         /\ k # i => queue'[k] = queue[k]
              /\ queue'[i].state \in {"failed", "queued"} /\ queue'[i].token = 0
<1>1. DOMAIN queue = 1 .. Len(queue) /\ queue \in Seq(JobRecord) /\ now \in Nat
  BY LenProperties DEF MonitorTypeOK
<1>2. PICK i \in DOMAIN queue :
        /\ holds[w] # NoLease /\ queue[i].id = holds[w].id /\ queue[i].token = holds[w].token
        /\ queue[i].state = "processing"
        /\ queue' = [queue EXCEPT ![i] =
             IF @.attempts >= MaxAttempts THEN Exhausted(@)
             ELSE [@ EXCEPT !.state = "queued", !.until = 0, !.token = 0]]
  BY DEF FailResynth, Held, IsLeaseOf
<1>3. PICK j \in JobRecord : j = queue[i]
  BY <1>1, ElementOfSeq
<1>4. PICK u : u = IF j.attempts >= MaxAttempts THEN Exhausted(j)
                   ELSE [j EXCEPT !.state = "queued", !.until = 0, !.token = 0]
  OBVIOUS
<1>5. u \in JobRecord /\ u.id = j.id /\ u.asOf = j.asOf /\ u.state \in {"failed", "queued"} /\ u.token = 0
  <2>1. CASE j.attempts >= MaxAttempts
    BY <1>1, <1>4, <2>1, ExhaustedJob
  <2>2. CASE ~(j.attempts >= MaxAttempts)
    <3>1. j = [id |-> j.id, asOf |-> j.asOf, state |-> j.state, attempts |-> j.attempts,
               until |-> j.until, token |-> j.token, failedAt |-> j.failedAt]
      BY JobFields
    <3>2. u = [id |-> j.id, asOf |-> j.asOf, state |-> "queued", attempts |-> j.attempts,
               until |-> 0, token |-> 0, failedAt |-> j.failedAt]
      BY <1>4, <2>2, <3>1
    <3> QED
      BY <3>2, JobFields DEF JobRecord
  <2> QED
    BY <2>1, <2>2
<1>6. queue' = [queue EXCEPT ![i] = u]
  BY <1>2, <1>3, <1>4
<1>7. queue' \in Seq(JobRecord) /\ Len(queue') = Len(queue)
  BY <1>1, <1>5, <1>6, ExceptSeq
<1>8. holds' = [holds EXCEPT ![w] = NoLease]
  BY DEF FailResynth
<1> QED
  BY <1>1, <1>2, <1>3, <1>5, <1>6, <1>7, <1>8

-----------------------------------------------------------------------------
(* Steps of a sweep *)

\* A sweep goes on to its next phase with what it has read.
LEMMA TurnStep ==
    ASSUME MonitorTypeOK, NEW s \in Sweepers, sweep[s].phase \in Judging,
           NEW phase \in Judging, sweep' = Turn(s, phase)
    PROVE  /\ DOMAIN sweep' = Sweepers /\ \A o \in Sweepers \ {s} : sweep'[o] = sweep[o]
           /\ sweep'[s] = JudgingSweep(s)' /\ sweep'[s].phase = phase
           /\ sweep'[s].bar = sweep[s].bar /\ sweep'[s].todo = sweep[s].todo
           /\ sweep'[s].thesis = sweep[s].thesis /\ sweep'[s].marker = sweep[s].marker
<1>1. SweepOK(s) /\ DOMAIN sweep = Sweepers
  BY DEF MonitorTypeOK
<1>2. sweep[s] = JudgingSweep(s)
  BY <1>1 DEF SweepOK
<1>3. PICK p, r, b, d, t, m : p = sweep[s].phase /\ r = sweep[s].reviewed /\ b = sweep[s].bar /\ d = sweep[s].todo
                              /\ t = sweep[s].thesis /\ m = sweep[s].marker
  OBVIOUS
<1>6. sweep[s] = [phase |-> p, reviewed |-> r, bar |-> b, todo |-> d, thesis |-> t, marker |-> m]
  BY <1>2, <1>3 DEF JudgingSweep
<1>7. PICK old : old = sweep[s]
  OBVIOUS
<1>8. [old EXCEPT !.phase = phase] =
        [phase |-> phase, reviewed |-> r, bar |-> b, todo |-> d, thesis |-> t, marker |-> m]
  BY <1>6, <1>7
<1>4. sweep' = [sweep EXCEPT ![s] = [phase |-> phase, reviewed |-> r, bar |-> b, todo |-> d,
                                     thesis |-> t, marker |-> m]]
  BY <1>1, <1>7, <1>8 DEF Turn
<1>5. sweep'[s] = [phase |-> phase, reviewed |-> r, bar |-> b, todo |-> d, thesis |-> t, marker |-> m]
  BY <1>1, <1>4
<1> QED
  BY <1>1, <1>3, <1>4, <1>5 DEF JudgingSweep

\* A thesis gets a baseline, or nothing is new about it, or the sweep has a stale marker to put.
LEMMA JudgeStep ==
    ASSUME MonitorTypeOK, NEW s \in Sweepers, Judge(s)
    PROVE  /\ DOMAIN sweep' = Sweepers /\ \A o \in Sweepers \ {s} : sweep'[o] = sweep[o]
           /\ sweep[s].phase = "judge" /\ sweep[s].bar \in Points
           /\ sweep'[s] = JudgingSweep(s)' /\ sweep'[s].phase \in {"judge", "put"}
           /\ sweep'[s].bar = sweep[s].bar /\ sweep'[s].todo \subseteq Theses
           /\ \E t \in Theses :
                 \/ /\ markers' = [markers EXCEPT ![t] = Baseline(sweep[s].bar)]
                    /\ sweep'[s].phase = "judge"
                 \/ UNCHANGED markers /\ sweep'[s].phase = "judge"
                 \/ /\ UNCHANGED markers /\ sweep'[s].phase = "put"
                    /\ markers[t] # NoMarker /\ News(markers[t], sweep[s].bar)
                    /\ sweep'[s].thesis = t /\ sweep'[s].marker = Stale(markers[t], sweep[s].bar)
<1>1. SweepOK(s) /\ DOMAIN sweep = Sweepers /\ sweep[s].phase = "judge"
  BY DEF MonitorTypeOK, Judge, At
<1>2. sweep[s] = JudgingSweep(s) /\ sweep[s].bar \in Points /\ sweep[s].todo \subseteq Theses
  BY <1>1 DEF SweepOK, Judging
<1>3. PICK t \in sweep[s].todo :
        \/ /\ markers' = [markers EXCEPT ![t] = Baseline(sweep[s].bar)]
           /\ sweep' = [sweep EXCEPT ![s] = [sweep[s] EXCEPT !.todo = @ \ {t}]]
        \/ /\ HasBaseline(markers[t], sweep[s].reviewed[t])
           /\ sweep' = [sweep EXCEPT ![s] =
                IF News(markers[t], sweep[s].bar)
                THEN [[sweep[s] EXCEPT !.todo = @ \ {t}] EXCEPT !.phase = "put", !.thesis = t,
                        !.marker = Stale(markers[t], sweep[s].bar)]
                ELSE [sweep[s] EXCEPT !.todo = @ \ {t}]]
           /\ UNCHANGED markers
  BY DEF Judge
<1>4. PICK v, b, d, h, m, n : v = sweep[s].reviewed /\ b = sweep[s].bar /\ d = sweep[s].todo
                              /\ h = sweep[s].thesis /\ m = sweep[s].marker /\ n = Stale(markers[t], sweep[s].bar)
  OBVIOUS
<1>5. sweep[s] = [phase |-> "judge", reviewed |-> v, bar |-> b, todo |-> d, thesis |-> h, marker |-> m]
  BY <1>1, <1>2, <1>4 DEF JudgingSweep
<1>6. [sweep[s] EXCEPT !.todo = @ \ {t}] =
        [phase |-> "judge", reviewed |-> v, bar |-> b, todo |-> d \ {t}, thesis |-> h, marker |-> m]
  BY <1>5
<1>7. [[sweep[s] EXCEPT !.todo = @ \ {t}] EXCEPT !.phase = "put", !.thesis = t, !.marker = n] =
        [phase |-> "put", reviewed |-> v, bar |-> b, todo |-> d \ {t}, thesis |-> t, marker |-> n]
  <2>1. PICK rest, less : rest = [sweep[s] EXCEPT !.todo = @ \ {t}] /\ less = d \ {t}
    OBVIOUS
  <2>2. rest = [phase |-> "judge", reviewed |-> v, bar |-> b, todo |-> less, thesis |-> h, marker |-> m]
    BY <1>6, <2>1
  <2>3. PICK put : put = [rest EXCEPT !.phase = "put", !.thesis = t, !.marker = n]
    OBVIOUS
  <2>4. put = [phase |-> "put", reviewed |-> v, bar |-> b, todo |-> less, thesis |-> t, marker |-> n]
    BY <2>2, <2>3
  <2> QED
    BY <2>1, <2>3, <2>4
<1>8. t \in Theses /\ d \ {t} \subseteq Theses
  BY <1>2, <1>4
<1>9. CASE /\ markers' = [markers EXCEPT ![t] = Baseline(sweep[s].bar)]
           /\ sweep' = [sweep EXCEPT ![s] = [sweep[s] EXCEPT !.todo = @ \ {t}]]
  <2>1. sweep'[s] = [phase |-> "judge", reviewed |-> v, bar |-> b, todo |-> d \ {t}, thesis |-> h, marker |-> m]
    BY <1>1, <1>6, <1>9
  <2>2. DOMAIN sweep' = Sweepers /\ \A o \in Sweepers \ {s} : sweep'[o] = sweep[o]
    BY <1>1, <1>9
  <2> QED
    BY <1>1, <1>2, <1>4, <1>8, <1>9, <2>1, <2>2 DEF JudgingSweep
<1>10. CASE /\ UNCHANGED markers /\ ~News(markers[t], sweep[s].bar)
            /\ sweep' = [sweep EXCEPT ![s] = [sweep[s] EXCEPT !.todo = @ \ {t}]]
  <2>1. sweep'[s] = [phase |-> "judge", reviewed |-> v, bar |-> b, todo |-> d \ {t}, thesis |-> h, marker |-> m]
    BY <1>1, <1>6, <1>10
  <2>2. DOMAIN sweep' = Sweepers /\ \A o \in Sweepers \ {s} : sweep'[o] = sweep[o]
    BY <1>1, <1>10
  <2> QED
    BY <1>1, <1>2, <1>4, <1>8, <1>10, <2>1, <2>2 DEF JudgingSweep
<1>11. CASE /\ UNCHANGED markers /\ News(markers[t], sweep[s].bar) /\ markers[t] # NoMarker
            /\ sweep' = [sweep EXCEPT ![s] =
                 [[sweep[s] EXCEPT !.todo = @ \ {t}] EXCEPT !.phase = "put", !.thesis = t, !.marker = n]]
  <2>1. sweep'[s] = [phase |-> "put", reviewed |-> v, bar |-> b, todo |-> d \ {t}, thesis |-> t, marker |-> n]
    BY <1>1, <1>7, <1>11
  <2>2. DOMAIN sweep' = Sweepers /\ \A o \in Sweepers \ {s} : sweep'[o] = sweep[o]
    BY <1>1, <1>11
  <2> QED
    BY <1>1, <1>2, <1>4, <1>8, <1>11, <2>1, <2>2 DEF JudgingSweep
<1>12. QED
  BY <1>3, <1>4, <1>9, <1>10, <1>11 DEF HasBaseline

\* What a write of the state leaves on disk.
LEMMA PersistStep ==
    ASSUME PersistAll
    PROVE  \/ /\ UNCHANGED cut
              /\ disk'.markers = markers' /\ disk'.queue = queue' /\ disk'.dropped = dropped'
              /\ disk'.torn = \E s \in Sweepers : sweep'[s].phase = "queue"
           \/ cut' = TRUE /\ UNCHANGED disk
<1>1. PICK torn : torn = \E s \in Sweepers : sweep'[s].phase = "queue"
  OBVIOUS
<1>2. \/ disk' = [markers |-> markers', queue |-> queue', dropped |-> dropped', torn |-> torn] /\ UNCHANGED cut
      \/ cut' = TRUE /\ UNCHANGED disk
  BY <1>1 DEF PersistAll, Memory
<1>3. disk' = [markers |-> markers', queue |-> queue', dropped |-> dropped', torn |-> torn] =>
        /\ disk'.markers = markers' /\ disk'.queue = queue' /\ disk'.dropped = dropped'
        /\ disk'.torn = torn
  OBVIOUS
<1> QED
  BY <1>1, <1>2, <1>3

\* A sweep that has a thesis's marker in hand has read a bar.
LEMMA SweepFields ==
    ASSUME MonitorTypeOK, NEW s \in Sweepers, sweep[s].phase \in Judging
    PROVE  sweep[s].bar \in Points /\ sweep[s].bar.ts \in Nat /\ sweep[s].todo \subseteq Theses /\ sweep[s] # Resting
           /\ (sweep[s].phase \in {"put", "queue"} => sweep[s].thesis \in Theses /\ sweep[s].marker \in MarkerRecord)
<1>1. SweepOK(s)
  BY DEF MonitorTypeOK
<1>2. sweep[s] # Resting
  BY DEF Resting, Judging
<1> QED
  BY <1>1, <1>2 DEF SweepOK, Points

-----------------------------------------------------------------------------
(* Types *)

\* What a sweep does to its own state is all that matters of the sweeps.
LEMMA SweepType ==
    ASSUME MonitorTypeOK, NEW s \in Sweepers, DOMAIN sweep' = Sweepers, SweepOK(s)',
           \A o \in Sweepers \ {s} : sweep'[o] = sweep[o]
    PROVE  DOMAIN sweep' = Sweepers /\ \A o \in Sweepers : SweepOK(o)'
BY DEF MonitorTypeOK, SweepOK, JudgingSweep

\* A sweep's steps keep the types.
LEMMA SweepTypes ==
    ASSUME MonitorTypeOK, NEW s \in Sweepers,
           FetchTheses(s) \/ ReadBar(s) \/ Judge(s) \/ PutMarker(s) \/ Enqueue(s) \/ FinishTick(s)
    PROVE  MonitorTypeOK'
<1>0. SweepOK(s) /\ DOMAIN sweep = Sweepers
  BY DEF MonitorTypeOK
<1>1. CASE FetchTheses(s)
  <2>1. sweep'[s].phase = "bars" /\ DOMAIN sweep' = Sweepers /\ \A o \in Sweepers \ {s} : sweep'[o] = sweep[o]
    BY <1>0, <1>1 DEF FetchTheses
  <2>2. SweepOK(s)'
    BY <2>1 DEF SweepOK, Judging
  <2>3. DOMAIN sweep' = Sweepers /\ \A o \in Sweepers : SweepOK(o)'
    BY <2>1, <2>2, SweepType
  <2> QED
    BY <1>1, <2>3 DEF FetchTheses, MonitorTypeOK, worldVars, queueVars
<1>2. CASE ReadBar(s)
  <2>0. PICK v : v = sweep[s].reviewed
    OBVIOUS
  <2>1. /\ sweep'[s] = [phase |-> "judge", reviewed |-> v, bar |-> bar,
                        todo |-> Theses, thesis |-> NoMarker, marker |-> NoMarker]
        /\ DOMAIN sweep' = Sweepers /\ \A o \in Sweepers \ {s} : sweep'[o] = sweep[o]
    BY <1>0, <1>2, <2>0 DEF ReadBar
  <2>2. sweep'[s] = JudgingSweep(s)' /\ sweep'[s].phase = "judge" /\ sweep'[s].bar \in Points /\ sweep'[s].todo = Theses
    BY <2>1 DEF JudgingSweep, MonitorTypeOK
  <2>3. SweepOK(s)'
    BY <2>2 DEF SweepOK, Judging
  <2>4. DOMAIN sweep' = Sweepers /\ \A o \in Sweepers : SweepOK(o)'
    BY <2>1, <2>3, SweepType
  <2> QED
    BY <1>2, <2>4 DEF ReadBar, MonitorTypeOK, worldVars, queueVars
<1>3. CASE Judge(s)
  <2>1. /\ DOMAIN sweep' = Sweepers /\ \A o \in Sweepers \ {s} : sweep'[o] = sweep[o]
        /\ sweep[s].bar \in Points
        /\ sweep'[s] = JudgingSweep(s)' /\ sweep'[s].phase \in {"judge", "put"}
        /\ sweep'[s].bar = sweep[s].bar /\ sweep'[s].todo \subseteq Theses
    BY <1>3, JudgeStep
  <2>2. PICK t \in Theses :
          \/ /\ markers' = [markers EXCEPT ![t] = Baseline(sweep[s].bar)]
             /\ sweep'[s].phase = "judge"
          \/ UNCHANGED markers /\ sweep'[s].phase = "judge"
          \/ /\ UNCHANGED markers /\ sweep'[s].phase = "put"
             /\ markers[t] # NoMarker /\ News(markers[t], sweep[s].bar)
             /\ sweep'[s].thesis = t /\ sweep'[s].marker = Stale(markers[t], sweep[s].bar)
    BY <1>3, JudgeStep
  <2>3. markers \in [Theses -> MarkerRecord \cup {NoMarker}]
    BY DEF MonitorTypeOK, Books
  <2>4. markers' \in Books
    BY <2>1, <2>2, <2>3, BaselineMarker DEF Books
  <2>5. sweep'[s].phase = "put" => sweep'[s].thesis \in Theses /\ sweep'[s].marker \in MarkerRecord
    BY <2>1, <2>2, <2>3, StaleFields, ZenonT(40)
  <2>6. SweepOK(s)'
    BY <2>1, <2>5 DEF SweepOK, Judging
  <2>7. DOMAIN sweep' = Sweepers /\ \A o \in Sweepers : SweepOK(o)'
    BY <2>1, <2>6, SweepType
  <2> QED
    BY <1>3, <2>4, <2>7 DEF Judge, MonitorTypeOK, worldVars, queueVars
<1>4. CASE PutMarker(s)
  <2>1. sweep[s].phase = "put" /\ sweep' = Turn(s, "queue")
        /\ markers' = [markers EXCEPT ![sweep[s].thesis] = sweep[s].marker]
    BY <1>4 DEF PutMarker, At
  <2>2. /\ DOMAIN sweep' = Sweepers /\ \A o \in Sweepers \ {s} : sweep'[o] = sweep[o]
        /\ sweep'[s] = JudgingSweep(s)' /\ sweep'[s].phase = "queue"
        /\ sweep'[s].bar = sweep[s].bar /\ sweep'[s].todo = sweep[s].todo
        /\ sweep'[s].thesis = sweep[s].thesis /\ sweep'[s].marker = sweep[s].marker
    BY <2>1, TurnStep DEF Judging
  <2>3. sweep[s].bar \in Points /\ sweep[s].todo \subseteq Theses
        /\ sweep[s].thesis \in Theses /\ sweep[s].marker \in MarkerRecord
    BY <2>1, SweepFields DEF Judging
  <2>4. SweepOK(s)'
    BY <2>2, <2>3 DEF SweepOK, Judging
  <2>5. DOMAIN sweep' = Sweepers /\ \A o \in Sweepers : SweepOK(o)'
    BY <2>2, <2>4, SweepType
  <2>6. markers' \in Books
    BY <2>1, <2>3 DEF Books, MonitorTypeOK
  <2> QED
    BY <1>4, <2>5, <2>6 DEF PutMarker, MonitorTypeOK, worldVars, queueVars
<1>5. CASE Enqueue(s)
  <2>1. sweep[s].phase = "queue" /\ sweep' = Turn(s, "judge")
    BY <1>5 DEF Enqueue, At
  <2>2. /\ DOMAIN sweep' = Sweepers /\ \A o \in Sweepers \ {s} : sweep'[o] = sweep[o]
        /\ sweep'[s] = JudgingSweep(s)' /\ sweep'[s].phase = "judge"
        /\ sweep'[s].bar = sweep[s].bar /\ sweep'[s].todo = sweep[s].todo
    BY <2>1, TurnStep DEF Judging
  <2>3. sweep[s].bar \in Points /\ sweep[s].todo \subseteq Theses
    BY <2>1, SweepFields DEF Judging
  <2>4. SweepOK(s)'
    BY <2>2, <2>3 DEF SweepOK, Judging
  <2>5. DOMAIN sweep' = Sweepers /\ \A o \in Sweepers : SweepOK(o)'
    BY <2>2, <2>4, SweepType
  <2>6. queue' \in Seq(JobRecord)
    BY <1>5, EnqueueStep
  <2>7. DOMAIN pinged' = DOMAIN pinged
    BY <1>5 DEF Enqueue
  <2> QED
    BY <1>5, <2>5, <2>6, <2>7 DEF Enqueue, MonitorTypeOK, worldVars
<1>6. CASE FinishTick(s)
  <2>1. sweep'[s] = Resting /\ DOMAIN sweep' = Sweepers /\ \A o \in Sweepers \ {s} : sweep'[o] = sweep[o]
    BY <1>0, <1>6 DEF FinishTick
  <2>2. SweepOK(s)'
    BY <2>1 DEF SweepOK, Judging, Resting
  <2>3. DOMAIN sweep' = Sweepers /\ \A o \in Sweepers : SweepOK(o)'
    BY <2>1, <2>2, SweepType
  <2>4. UNCHANGED <<worldVars, queueVars, markers, pinged>> /\ PersistAll
    BY <1>6 DEF FinishTick
  <2>5. disk'.markers \in Books /\ disk'.queue \in Seq(JobRecord)
    BY <2>4, PersistStep DEF MonitorTypeOK, queueVars
  <2> QED
    BY <2>3, <2>4, <2>5 DEF MonitorTypeOK, worldVars, queueVars
<1> QED
  BY <1>1, <1>2, <1>3, <1>4, <1>5, <1>6

\* What a lease says.
LEMMA HeldFields ==
    ASSUME MonitorTypeOK, NEW w \in Workers, holds[w] # NoLease
    PROVE  holds[w].id \in AllIds /\ holds[w].token \in Nat \ {0} /\ holds[w].until \in Nat
BY DEF MonitorTypeOK, LeaseRecord

\* A queue's jobs.
LEMMA QueueFields ==
    ASSUME NEW q \in Seq(JobRecord)
    PROVE  DOMAIN q = 1 .. Len(q) /\ Len(q) \in Nat /\ \A i \in DOMAIN q : q[i] \in JobRecord
BY LenProperties, ElementOfSeq

\* The jobs a worker has or was acknowledged have ids.
LEMMA GivenOutFields ==
    ASSUME MonitorTypeOK
    PROVE  GivenOut \subseteq AllIds
<1>1. \A w \in Workers : holds[w] # NoLease => holds[w].id \in AllIds
  BY HeldFields
<1>2. \A a \in acked : a[1] \in AllIds
  BY DEF MonitorTypeOK
<1> QED
  BY <1>1, <1>2 DEF GivenOut

\* A write leaves a typed state on disk.
LEMMA PersistType ==
    ASSUME MonitorTypeOK, PersistAll, markers' \in Books, queue' \in Seq(JobRecord)
    PROVE  disk'.markers \in Books /\ disk'.queue \in Seq(JobRecord)
BY PersistStep DEF MonitorTypeOK

\* The sweeps' types do not depend on anything else.
LEMMA SameSweeps ==
    ASSUME MonitorTypeOK, UNCHANGED sweep
    PROVE  DOMAIN sweep' = Sweepers /\ \A o \in Sweepers : SweepOK(o)'
BY DEF MonitorTypeOK, SweepOK, JudgingSweep

\* A worker's steps keep the types.
LEMMA WorkerTypes ==
    ASSUME MonitorTypeOK, NEW w \in Workers,
           LeaseResynth(w) \/ CompleteResynth(w) \/ FailResynth(w) \/ Abandon(w)
    PROVE  MonitorTypeOK'
<1>0. UNCHANGED <<worldVars, sweep, pinged>>
  BY DEF LeaseResynth, CompleteResynth, FailResynth, Abandon
<1>1. DOMAIN sweep' = Sweepers /\ \A o \in Sweepers : SweepOK(o)'
  BY <1>0, SameSweeps
<1>2. DOMAIN queue = 1 .. Len(queue) /\ \A i \in DOMAIN queue : queue[i] \in JobRecord
  BY QueueFields DEF MonitorTypeOK
<1>3. \A i \in DOMAIN queue : queue[i].id \in AllIds
  BY <1>2, JobFields
<1>4. holds \in [Workers -> LeaseRecord \cup {NoLease}] /\ leases \in Nat /\ now \in Nat /\ LeaseTime \in Nat
  BY MonitorAssumption DEF MonitorTypeOK
<1>5. CASE LeaseResynth(w)
  <2>1. queue' \in Seq(JobRecord) /\ UNCHANGED <<markers, acked>> /\ PersistAll
    BY <1>5, LeaseStep DEF LeaseResynth
  <2>2. disk'.markers \in Books /\ disk'.queue \in Seq(JobRecord)
    BY <2>1, PersistType DEF MonitorTypeOK
  <2>3. holds' \in [Workers -> LeaseRecord \cup {NoLease}] /\ leases' \in Nat
    <3>1. CASE UNCHANGED <<holds, leases>>
      BY <1>4, <3>1
    <3>2. CASE \E n \in 1 .. Len(queue) :
                 holds' = [holds EXCEPT ![w] = [token |-> leases + 1, id |-> queue[n].id, until |-> now + LeaseTime]]
      <4>1. PICK n \in 1 .. Len(queue) :
              holds' = [holds EXCEPT ![w] = [token |-> leases + 1, id |-> queue[n].id, until |-> now + LeaseTime]]
        BY <3>2
      <4>2. [token |-> leases + 1, id |-> queue[n].id, until |-> now + LeaseTime] \in LeaseRecord
        BY <1>2, <1>3, <1>4 DEF LeaseRecord
      <4>3. leases' \in Nat
        BY <1>4, <1>5, LeaseStep
      <4> QED
        BY <1>4, <4>1, <4>2, <4>3
    <3> QED
      BY <1>5, <3>1, <3>2, LeaseStep
  <2> QED
    BY <1>0, <1>1, <2>1, <2>2, <2>3 DEF MonitorTypeOK, worldVars
<1>6. CASE CompleteResynth(w)
  <2>1. PICK i \in DOMAIN queue :
          /\ acked' = acked \cup {<<queue[i].id, w>>}
          /\ holds' = [holds EXCEPT ![w] = NoLease] \/ holds' = holds
          /\ \/ queue[i].state = "completed" /\ UNCHANGED <<queue, markers, disk, cut>>
             \/ /\ PersistAll /\ queue' \in Seq(JobRecord)
                /\ \/ markers' = markers
                   \/ markers[queue[i].id[1]] # NoMarker
                      /\ markers' = [markers EXCEPT ![queue[i].id[1]] = Rebased(@)]
    BY <1>6, CompleteStep
  <2>2. acked' \subseteq AllIds \X Workers
    BY <1>3, <2>1 DEF MonitorTypeOK
  <2>3. holds' \in [Workers -> LeaseRecord \cup {NoLease}]
    BY <1>4, <2>1
  <2>4. queue' \in Seq(JobRecord)
    BY <2>1 DEF MonitorTypeOK
  <2>5. markers' \in Books
    <3>1. markers \in [Theses -> MarkerRecord \cup {NoMarker}]
      BY DEF MonitorTypeOK, Books
    <3>2. queue[i].id[1] \in Theses
      BY <1>3 DEF AllIds
    <3>3. markers[queue[i].id[1]] # NoMarker => Rebased(markers[queue[i].id[1]]) \in MarkerRecord
      BY <3>1, <3>2, RebasedMarker
    <3> QED
      BY <2>1, <3>1, <3>2, <3>3 DEF Books
  <2>6. disk'.markers \in Books /\ disk'.queue \in Seq(JobRecord)
    BY <2>1, <2>4, <2>5, PersistType DEF MonitorTypeOK
  <2>7. UNCHANGED leases
    BY <1>6 DEF CompleteResynth
  <2> QED
    BY <1>0, <1>1, <2>2, <2>3, <2>4, <2>5, <2>6, <2>7 DEF MonitorTypeOK, worldVars
<1>7. CASE FailResynth(w)
  <2>1. queue' \in Seq(JobRecord) /\ holds' = [holds EXCEPT ![w] = NoLease]
    BY <1>7, FailStep
  <2>2. UNCHANGED <<markers, leases, acked>> /\ PersistAll
    BY <1>7 DEF FailResynth
  <2>3. disk'.markers \in Books /\ disk'.queue \in Seq(JobRecord)
    BY <2>1, <2>2, PersistType DEF MonitorTypeOK
  <2> QED
    BY <1>0, <1>1, <1>4, <2>1, <2>2, <2>3 DEF MonitorTypeOK, worldVars
<1>8. CASE Abandon(w)
  <2>1. holds' = [holds EXCEPT ![w] = NoLease] /\ UNCHANGED <<markers, queue, leases, acked, disk>>
    BY <1>8 DEF Abandon
  <2> QED
    BY <1>0, <1>1, <1>4, <2>1 DEF MonitorTypeOK, worldVars
<1> QED
  BY <1>5, <1>6, <1>7, <1>8

\* The days, the user's reviews and a restart keep the types.
LEMMA WorldTypes ==
    ASSUME MonitorTypeOK, NextDay \/ RestartMonitor \/ \E t \in Theses : ReviewThesis(t)
    PROVE  MonitorTypeOK'
<1>1. CASE NextDay
  <2>1. UNCHANGED <<queueVars, markers, disk, sweep, pinged>> /\ now' = now + 1
    BY <1>1 DEF NextDay
  <2>2. bar' \in Points /\ bar'.ts <= now'
    <3>1. bar \in Points /\ bar.ts \in Nat /\ bar.ts <= now /\ now \in Nat
      BY DEF MonitorTypeOK, Points
    <3>2. \A px \in Prices : px \in Nat \ {0}
      BY MonitorAssumption
    <3> QED
      BY <1>1, <2>1, <3>1, <3>2 DEF NextDay, Points
  <2>3. DOMAIN sweep' = Sweepers /\ \A o \in Sweepers : SweepOK(o)'
    BY <2>1, SameSweeps
  <2> QED
    BY <2>1, <2>2, <2>3 DEF MonitorTypeOK, queueVars
<1>2. CASE RestartMonitor
  <2>1. sweep' = [s \in Sweepers |-> Resting]
    BY <1>2 DEF RestartMonitor
  <2>2. DOMAIN sweep' = Sweepers /\ \A o \in Sweepers : SweepOK(o)'
    BY <2>1 DEF SweepOK, Resting, Judging
  <2>3. markers' \in Books /\ queue' \in Seq(JobRecord) /\ DOMAIN pinged' = Theses
    BY <1>2, EmptySeq DEF RestartMonitor, MonitorTypeOK, Books
  <2>4. UNCHANGED <<worldVars, disk, holds, leases, acked>>
    BY <1>2 DEF RestartMonitor
  <2> QED
    BY <2>2, <2>3, <2>4 DEF MonitorTypeOK, worldVars
<1>3. CASE \E t \in Theses : ReviewThesis(t)
  <2>1. UNCHANGED <<now, bar, queueVars, markers, disk, sweep, pinged>>
    BY <1>3 DEF ReviewThesis
  <2>2. DOMAIN sweep' = Sweepers /\ \A o \in Sweepers : SweepOK(o)'
    BY <2>1, SameSweeps
  <2> QED
    BY <2>1, <2>2 DEF MonitorTypeOK, queueVars
<1> QED
  BY <1>1, <1>2, <1>3

-----------------------------------------------------------------------------
(* Sweeps that do not overlap *)

\* While a sweep is under way the others rest.
LEMMA Alone ==
    ASSUME OneAtATime, NEW s \in Sweepers, sweep[s] # Resting
    PROVE  \A o \in Sweepers \ {s} : sweep[o] = Resting /\ sweep[o].phase = "rest"
BY DEF OneAtATime, Resting

\* A write of the state leaves a book in order on disk.
LEMMA PersistedBook ==
    ASSUME PersistAll, BookOK(disk.markers), BookOK(markers)', UNCHANGED bar
    PROVE  BookOK(disk.markers)'
BY PersistStep DEF BookOK

\* Nothing of the sweeps' order is about the workers' state.
LEMMA SameOrder ==
    ASSUME InOrder, ToldInOrder, UNCHANGED <<markers, bar, sweep, pinged>>, UNCHANGED disk \/ PersistAll
    PROVE  InOrder' /\ ToldInOrder'
<1>1. BookOK(markers)'
  BY DEF InOrder, BookOK
<1>2. BookOK(disk.markers)'
  BY <1>1, PersistedBook DEF InOrder, BookOK
<1>3. OneAtATime' /\ SweepsInOrder'
  BY DEF InOrder, OneAtATime, SweepsInOrder
<1>4. MarkersFollow' /\ NextIsNew' /\ PutIsThere'
  BY DEF ToldInOrder, MarkersFollow, NextIsNew, PutIsThere, LastTold, Queueing
<1> QED
  BY <1>1, <1>2, <1>3, <1>4 DEF InOrder, ToldInOrder

\* A sweep starts, with no other under way.
LEMMA FetchOrder ==
    ASSUME MonitorTypeOK, InOrder, ToldInOrder, NEW s \in Sweepers, FetchTheses(s), ~overlapped'
    PROVE  InOrder' /\ ToldInOrder'
<1>1. UNCHANGED <<markers, bar, disk, pinged>> /\ \A o \in Sweepers \ {s} : sweep'[o] = sweep[o] /\ sweep[o] = Resting
  BY DEF FetchTheses, worldVars, MonitorTypeOK
<1>2. sweep'[s].phase = "bars" /\ sweep[s].phase = "rest"
  BY DEF FetchTheses, MonitorTypeOK, Resting
<1>3. \A o \in Sweepers \ {s} : sweep'[o].phase = "rest" /\ sweep[o].phase = "rest"
  BY <1>1 DEF Resting
<1>4. OneAtATime'
  BY <1>1 DEF OneAtATime
<1>5. BookOK(markers)' /\ BookOK(disk.markers)'
  BY <1>1 DEF InOrder, BookOK
<1>6. SweepsInOrder' /\ NextIsNew' /\ PutIsThere'
  BY <1>2, <1>3 DEF SweepsInOrder, NextIsNew, PutIsThere, Judging
<1>7. MarkersFollow'
  <2>1. \A t \in Theses : ~Queueing(t)
    BY <1>2, <1>3 DEF Queueing
  <2> QED
    BY <1>1, <2>1 DEF ToldInOrder, MarkersFollow, LastTold
<1> QED
  BY <1>4, <1>5, <1>6, <1>7 DEF InOrder, ToldInOrder

\* The bar it reads is no earlier than any marker's.
LEMMA ReadOrder ==
    ASSUME MonitorTypeOK, InOrder, ToldInOrder, NEW s \in Sweepers, ReadBar(s)
    PROVE  InOrder' /\ ToldInOrder'
<1>1. UNCHANGED <<markers, bar, disk, pinged>> /\ \A o \in Sweepers \ {s} : sweep'[o] = sweep[o]
  BY DEF ReadBar, worldVars, MonitorTypeOK
<1>2. sweep'[s].phase = "judge" /\ sweep'[s].bar = bar /\ sweep[s].phase = "bars"
  BY DEF ReadBar, MonitorTypeOK
<1>3. sweep[s] # Resting
  BY <1>2 DEF Resting
<1>4. \A o \in Sweepers \ {s} : sweep'[o] = Resting /\ sweep'[o].phase = "rest" /\ sweep[o].phase = "rest"
  BY <1>1, <1>3, Alone DEF InOrder
<1>5. OneAtATime'
  BY <1>4 DEF OneAtATime
<1>6. BookOK(markers)' /\ BookOK(disk.markers)'
  BY <1>1 DEF InOrder, BookOK
<1>7. SweepsInOrder'
  <2>1. Before(bar, bar)
    BY DEF Before
  <2> QED
    BY <1>1, <1>2, <1>4, <2>1 DEF SweepsInOrder, InOrder, BookOK, Judging
<1>8. NextIsNew' /\ PutIsThere'
  BY <1>2, <1>4 DEF NextIsNew, PutIsThere
<1>9. MarkersFollow'
  <2>1. \A t \in Theses : ~Queueing(t)
    BY <1>2, <1>4 DEF Queueing
  <2> QED
    BY <1>1, <2>1 DEF ToldInOrder, MarkersFollow, LastTold
<1> QED
  BY <1>5, <1>6, <1>7, <1>8, <1>9 DEF InOrder, ToldInOrder

\* What a judged thesis is left with is in order.
LEMMA JudgeOrder ==
    ASSUME MonitorTypeOK, InOrder, ToldInOrder, NEW s \in Sweepers, Judge(s)
    PROVE  InOrder' /\ ToldInOrder'
<1>1. UNCHANGED <<bar, disk, pinged>> /\ \A o \in Sweepers \ {s} : sweep'[o] = sweep[o]
  BY JudgeStep DEF Judge, worldVars
<1>2. /\ sweep[s].phase = "judge" /\ sweep[s].bar \in Points
      /\ sweep'[s].phase \in {"judge", "put"} /\ sweep'[s].bar = sweep[s].bar
  BY JudgeStep
<1>3. PICK p \in Points : p = sweep[s].bar
  BY <1>2
<1>4. PICK t \in Theses :
        \/ markers' = [markers EXCEPT ![t] = Baseline(p)] /\ sweep'[s].phase = "judge"
        \/ UNCHANGED markers /\ sweep'[s].phase = "judge"
        \/ /\ UNCHANGED markers /\ sweep'[s].phase = "put" /\ markers[t] # NoMarker /\ News(markers[t], p)
           /\ sweep'[s].thesis = t /\ sweep'[s].marker = Stale(markers[t], p)
  BY <1>3, JudgeStep
<1>5. sweep[s] # Resting /\ sweep'[s] # Resting
  BY <1>2 DEF Resting
<1>6. \A o \in Sweepers \ {s} : sweep'[o] = Resting /\ sweep'[o].phase = "rest" /\ sweep[o].phase = "rest"
  BY <1>1, <1>5, Alone DEF InOrder
<1>7. OneAtATime'
  BY <1>6 DEF OneAtATime
<1>8. markers \in [Theses -> MarkerRecord \cup {NoMarker}] /\ bar \in Points
  BY DEF MonitorTypeOK, Books
<1>9. Before(p, bar) /\ \A u \in Theses : markers[u] # NoMarker => Before(PointOf(markers[u]), p)
  BY <1>2, <1>3 DEF InOrder, SweepsInOrder, Judging
<1>10. BookOK(disk.markers)'
  BY <1>1 DEF InOrder, BookOK
<1>11. \A u \in Theses : markers'[u] = markers[u] \/ (markers'[u] = Baseline(p) /\ sweep'[s].phase = "judge")
  BY <1>4, <1>8
<1>12. BookOK(markers)'
  BY <1>1, <1>9, <1>11, BaselineMarker DEF InOrder, BookOK
<1>13. ASSUME sweep'[s].phase = "put"
       PROVE  \E u \in Theses : /\ markers[u] \in MarkerRecord /\ MarkerOK(markers[u]) /\ Before(PointOf(markers[u]), p)
                                /\ News(markers[u], p) /\ UNCHANGED markers
                                /\ sweep'[s].thesis = u /\ sweep'[s].marker = Stale(markers[u], p)
  BY <1>4, <1>8, <1>9, <1>13 DEF InOrder, BookOK
<1>14. SweepsInOrder'
  <2>1. \A u \in Theses : markers'[u] # NoMarker => Before(PointOf(markers'[u]), p)
    <3>1. Before(PointOf(Baseline(p)), p)
      BY BaselineMarker DEF Before
    <3> QED
      BY <1>9, <1>11, <3>1
  <2>2. ASSUME sweep'[s].phase = "put"
        PROVE  MarkerOK(sweep'[s].marker) /\ PointOf(sweep'[s].marker) = sweep'[s].bar /\ sweep'[s].marker.stale
    <3>1. PICK m \in MarkerRecord : /\ MarkerOK(m) /\ Before(PointOf(m), p) /\ News(m, p)
                                    /\ sweep'[s].marker = Stale(m, p)
      BY <1>13, <2>2
    <3>2. MarkerOK(Stale(m, p))
      BY <3>1, StaleMarker
    <3>3. PointOf(Stale(m, p)) = p /\ Stale(m, p).stale = TRUE
      BY StaleFields
    <3> QED
      BY <1>2, <1>3, <3>1, <3>2, <3>3
  <2> QED
    BY <1>1, <1>2, <1>3, <1>6, <1>9, <2>1, <2>2 DEF SweepsInOrder, Judging
<1>15. \A u \in Theses : ~Queueing(u)
  BY <1>2, <1>6 DEF Queueing
<1>16. NextIsNew'
  <2>1. ASSUME sweep'[s].phase = "put"
        PROVE  LET next == sweep'[s].marker
                   told == LastTold(sweep'[s].thesis)
               IN  next.baseAt > told[1] \/ (next.baseAt = told[1] /\ next.fired # told[2])
    <3>1. PICK u \in Theses : /\ markers[u] \in MarkerRecord /\ MarkerOK(markers[u]) /\ Before(PointOf(markers[u]), p)
                              /\ News(markers[u], p) /\ sweep'[s].thesis = u /\ sweep'[s].marker = Stale(markers[u], p)
      BY <1>13, <2>1
    <3>2. Follows(markers[u], LastTold(u))
      BY <1>15, <3>1, MarkerFields DEF ToldInOrder, MarkersFollow
    <3>3. /\ Stale(markers[u], p).baseAt = markers[u].baseAt
          /\ Stale(markers[u], p).fired # markers[u].fired
      <4>1. Condition(markers[u], p) # markers[u].fired
        BY <3>1, StaleMarker
      <4>2. Stale(markers[u], p).baseAt = markers[u].baseAt /\ Stale(markers[u], p).fired = Condition(markers[u], p)
        BY <3>1, StaleFields
      <4> QED
        BY <4>1, <4>2
    <3> QED
      BY <3>1, <3>2, <3>3 DEF Follows
  <2> QED
    BY <1>1, <1>2, <1>6, <2>1 DEF NextIsNew, LastTold
<1>17. PutIsThere'
  BY <1>2, <1>6 DEF PutIsThere
<1>18. MarkersFollow'
  <2>1. ASSUME NEW u \in Theses, markers'[u] # NoMarker PROVE Follows(markers'[u], LastTold(u))
    <3>1. CASE markers'[u] = markers[u]
      BY <1>15, <2>1, <3>1 DEF ToldInOrder, MarkersFollow
    <3>2. CASE markers'[u] = Baseline(p)
      <4>1. Baseline(p).baseAt = p.ts /\ Baseline(p).fired = Fresh /\ p.ts \in Nat \ {0} /\ LastTold(u)[1] \in Nat
        BY BaselineMarker DEF Points, ToldInOrder, MarkersFollow
      <4>2. CASE markers[u] = NoMarker
        <5>1. LastTold(u)[1] = 0
          BY <4>2 DEF ToldInOrder, MarkersFollow
        <5> QED
          BY <3>2, <4>1, <5>1 DEF Follows
      <4>3. CASE markers[u] # NoMarker
        <5>1. markers[u] \in MarkerRecord /\ MarkerOK(markers[u]) /\ Before(PointOf(markers[u]), p)
          BY <1>8, <1>9, <4>3 DEF InOrder, BookOK
        <5>2. /\ markers[u].baseAt \in Nat /\ markers[u].asOf \in Nat /\ markers[u].asOf <= p.ts
              /\ markers[u].baseAt <= markers[u].asOf
              /\ markers[u].fired # Fresh => markers[u].baseAt < markers[u].asOf
          BY <5>1, MarkerFields DEF MarkerOK, Before, PointOf, Points
        <5>3. Follows(markers[u], LastTold(u))
          BY <1>15, <4>3 DEF ToldInOrder, MarkersFollow
        <5>4. p.ts > LastTold(u)[1] \/ (p.ts = LastTold(u)[1] /\ Fresh = LastTold(u)[2])
          BY <4>1, <5>2, <5>3 DEF Follows
        <5> QED
          BY <3>2, <4>1, <5>4 DEF Follows
      <4> QED
        BY <4>2, <4>3
    <3> QED
      BY <1>11, <3>1, <3>2
  <2>2. \A u \in Theses : markers'[u] = NoMarker => markers[u] = NoMarker
    BY <1>11, BaselineMarker, MarkerFields
  <2> QED
    BY <1>1, <2>1, <2>2 DEF ToldInOrder, MarkersFollow, LastTold
<1> QED
  BY <1>7, <1>10, <1>12, <1>14, <1>16, <1>17, <1>18 DEF InOrder, ToldInOrder

\* A marker that is put is the one that the sweep found.
LEMMA PutOrder ==
    ASSUME MonitorTypeOK, InOrder, ToldInOrder, NEW s \in Sweepers, PutMarker(s)
    PROVE  InOrder' /\ ToldInOrder'
<1>1. UNCHANGED <<bar, disk, pinged>> /\ sweep[s].phase = "put" /\ sweep' = Turn(s, "queue")
      /\ markers' = [markers EXCEPT ![sweep[s].thesis] = sweep[s].marker]
  BY DEF PutMarker, At, worldVars
<1>2. /\ \A o \in Sweepers \ {s} : sweep'[o] = sweep[o]
      /\ sweep'[s].phase = "queue" /\ sweep'[s].bar = sweep[s].bar
      /\ sweep'[s].thesis = sweep[s].thesis /\ sweep'[s].marker = sweep[s].marker
  BY <1>1, TurnStep DEF Judging
<1>3. sweep[s].thesis \in Theses /\ sweep[s].marker \in MarkerRecord /\ sweep[s].bar \in Points /\ sweep[s] # Resting
  BY <1>1, SweepFields DEF Judging
<1>4. PICK t \in Theses, m \in MarkerRecord : t = sweep[s].thesis /\ m = sweep[s].marker
  BY <1>3
<1>5. \A o \in Sweepers \ {s} : sweep'[o] = Resting /\ sweep'[o].phase = "rest" /\ sweep[o].phase = "rest"
  BY <1>2, <1>3, Alone DEF InOrder
<1>6. m # NoMarker /\ MarkerOK(m) /\ PointOf(m) = sweep[s].bar /\ m.stale /\ Before(sweep[s].bar, bar)
  BY <1>1, <1>4, MarkerFields DEF InOrder, SweepsInOrder, Judging
<1>7. markers'[t] = m /\ \A u \in Theses \ {t} : markers'[u] = markers[u]
  BY <1>1, <1>4 DEF MonitorTypeOK, Books
<1>8. OneAtATime' /\ BookOK(disk.markers)'
  BY <1>1, <1>5 DEF InOrder, OneAtATime, BookOK
<1>9. BookOK(markers)'
  BY <1>1, <1>6, <1>7 DEF InOrder, BookOK
<1>10. SweepsInOrder'
  <2>1. \A u \in Theses : markers'[u] # NoMarker => Before(PointOf(markers'[u]), sweep[s].bar)
    <3>1. Before(PointOf(m), sweep[s].bar)
      BY <1>6 DEF Before
    <3>2. \A u \in Theses : markers[u] # NoMarker => Before(PointOf(markers[u]), sweep[s].bar)
      BY <1>1 DEF InOrder, SweepsInOrder, Judging
    <3> QED
      BY <1>7, <3>1, <3>2
  <2> QED
    BY <1>1, <1>2, <1>4, <1>5, <1>6, <2>1 DEF SweepsInOrder, Judging
<1>11. NextIsNew'
  BY <1>1, <1>2, <1>5 DEF ToldInOrder, NextIsNew, LastTold
<1>12. PutIsThere'
  BY <1>2, <1>4, <1>5, <1>7 DEF PutIsThere
<1>13. MarkersFollow'
  <2>1. Queueing(t)'
    BY <1>2, <1>4 DEF Queueing
  <2>2. \A u \in Theses : ~Queueing(u)
    BY <1>1, <1>5 DEF Queueing
  <2> QED
    BY <1>1, <1>6, <1>7, <2>1, <2>2 DEF ToldInOrder, MarkersFollow, LastTold
<1> QED
  BY <1>8, <1>9, <1>10, <1>11, <1>12, <1>13 DEF InOrder, ToldInOrder

\* What is notified is what the marker says, or what it said before it was re-based.
LEMMA EnqueueOrder ==
    ASSUME MonitorTypeOK, InOrder, ToldInOrder, NEW s \in Sweepers, Enqueue(s)
    PROVE  InOrder' /\ ToldInOrder'
<1>1. UNCHANGED <<markers, bar, disk>> /\ sweep[s].phase = "queue" /\ sweep' = Turn(s, "judge")
  BY DEF Enqueue, At, worldVars
<1>2. /\ \A o \in Sweepers \ {s} : sweep'[o] = sweep[o]
      /\ sweep'[s].phase = "judge" /\ sweep'[s].bar = sweep[s].bar
  BY <1>1, TurnStep DEF Judging
<1>3. sweep[s].thesis \in Theses /\ sweep[s].marker \in MarkerRecord /\ sweep[s] # Resting
  BY <1>1, SweepFields DEF Judging
<1>4. PICK t \in Theses, m \in MarkerRecord : t = sweep[s].thesis /\ m = sweep[s].marker
  BY <1>3
<1>5. \A o \in Sweepers \ {s} : sweep'[o] = Resting /\ sweep'[o].phase = "rest" /\ sweep[o].phase = "rest"
  BY <1>2, <1>3, Alone DEF InOrder
<1>6. PICK told : told = LastTold(t)
  OBVIOUS
<1>7. pinged' = [pinged EXCEPT ![t] = <<told, <<m.baseAt, m.fired>> >>]
  BY <1>4, <1>6 DEF Enqueue, LastTold
<1>8. /\ pinged'[t] = <<told, <<m.baseAt, m.fired>> >>
      /\ \A u \in Theses \ {t} : pinged'[u] = pinged[u]
  BY <1>7 DEF MonitorTypeOK
<1>9. OneAtATime' /\ BookOK(markers)' /\ BookOK(disk.markers)'
  BY <1>1, <1>5 DEF InOrder, OneAtATime, BookOK
<1>10. SweepsInOrder'
  BY <1>1, <1>2, <1>5 DEF InOrder, SweepsInOrder, Judging
<1>11. NextIsNew' /\ PutIsThere'
  BY <1>2, <1>5 DEF NextIsNew, PutIsThere
<1>12. m.baseAt \in Nat /\ m.asOf \in Nat /\ m.baseAt < m.asOf
  BY <1>1, <1>4, MarkerFields DEF InOrder, SweepsInOrder, MarkerOK
<1>13. m.baseAt > told[1] \/ (m.baseAt = told[1] /\ m.fired # told[2])
  BY <1>1, <1>4, <1>6 DEF ToldInOrder, NextIsNew
<1>14. told # <<m.baseAt, m.fired>>
  <2>1. told[1] \in Nat
    BY <1>6 DEF ToldInOrder, MarkersFollow
  <2> QED
    BY <1>12, <1>13, <2>1
<1>15. Follows(markers[t], <<m.baseAt, m.fired>>) /\ markers[t] # NoMarker
  <2>1. \/ markers[t] = m
        \/ markers[t] # NoMarker /\ markers[t].asOf = m.asOf /\ markers[t].baseAt = markers[t].asOf
    BY <1>1, <1>4 DEF ToldInOrder, PutIsThere
  <2> QED
    BY <1>12, <2>1, MarkerFields DEF Follows
<1>16. MarkersFollow'
  <2>1. \A u \in Theses \ {t} : ~Queueing(u)
    BY <1>1, <1>4, <1>5 DEF Queueing
  <2>2. LastTold(t)' = <<m.baseAt, m.fired>> /\ pinged'[t][1] # pinged'[t][2]
    BY <1>8, <1>14 DEF LastTold
  <2>3. \A u \in Theses \ {t} : LastTold(u)' = LastTold(u)
    BY <1>8 DEF LastTold
  <2> QED
    BY <1>1, <1>8, <1>12, <1>15, <2>1, <2>2, <2>3 DEF ToldInOrder, MarkersFollow
<1> QED
  BY <1>9, <1>10, <1>11, <1>16 DEF InOrder, ToldInOrder

\* A sweep ends.
LEMMA FinishOrder ==
    ASSUME MonitorTypeOK, InOrder, ToldInOrder, NEW s \in Sweepers, FinishTick(s)
    PROVE  InOrder' /\ ToldInOrder'
<1>1. UNCHANGED <<markers, bar, pinged>> /\ PersistAll /\ sweep[s].phase = "judge"
  BY DEF FinishTick, At, worldVars
<1>2. sweep'[s] = Resting /\ sweep'[s].phase = "rest" /\ \A o \in Sweepers \ {s} : sweep'[o] = sweep[o]
  BY DEF FinishTick, MonitorTypeOK, Resting
<1>3. OneAtATime'
  BY <1>2 DEF InOrder, OneAtATime
<1>4. BookOK(markers)'
  BY <1>1 DEF InOrder, BookOK
<1>5. BookOK(disk.markers)'
  BY <1>1, <1>4, PersistedBook DEF InOrder
<1>6. SweepsInOrder' /\ NextIsNew' /\ PutIsThere'
  BY <1>1, <1>2 DEF InOrder, ToldInOrder, SweepsInOrder, NextIsNew, PutIsThere, LastTold, Judging
<1>7. MarkersFollow'
  <2>1. \A u \in Theses : Queueing(u) => Queueing(u)'
    BY <1>1, <1>2 DEF Queueing
  <2> QED
    BY <1>1, <2>1 DEF ToldInOrder, MarkersFollow, LastTold
<1> QED
  BY <1>3, <1>4, <1>5, <1>6, <1>7 DEF InOrder, ToldInOrder

\* A re-based marker says nothing, from where it was.
LEMMA CompleteOrder ==
    ASSUME MonitorTypeOK, InOrder, ToldInOrder, NEW w \in Workers, CompleteResynth(w)
    PROVE  InOrder' /\ ToldInOrder'
<1>1. UNCHANGED <<bar, sweep, pinged>>
  BY DEF CompleteResynth, worldVars
<1>2. CASE UNCHANGED <<markers, disk>>
  BY <1>1, <1>2, SameOrder
<1>3. CASE UNCHANGED markers /\ PersistAll
  BY <1>1, <1>3, SameOrder
<1>4. CASE /\ PersistAll
           /\ \E t \in Theses : /\ markers[t] # NoMarker /\ markers[t].stale
                                /\ markers' = [markers EXCEPT ![t] = Rebased(@)]
  <2>1. PICK t \in Theses : /\ markers[t] # NoMarker /\ markers[t].stale
                            /\ markers' = [markers EXCEPT ![t] = Rebased(@)]
    BY <1>4
  <2>2. PICK m \in MarkerRecord : m = markers[t]
    BY <2>1 DEF MonitorTypeOK, Books
  <2>3. markers'[t] = Rebased(m) /\ \A u \in Theses \ {t} : markers'[u] = markers[u]
    BY <2>1, <2>2 DEF MonitorTypeOK, Books
  <2>4. PICK r \in MarkerRecord : r = Rebased(m)
    BY RebasedMarker
  <2>5. /\ MarkerOK(r) /\ PointOf(r) = PointOf(m) /\ ~r.stale /\ r.fired = Fresh /\ r.asOf = m.asOf
        /\ r.baseAt = m.asOf /\ r # NoMarker
    BY <2>4, RebasedMarker, MarkerFields
  <2>6. m.baseAt < m.asOf /\ m.baseAt \in Nat /\ m.asOf \in Nat
    BY <2>1, <2>2, MarkerFields DEF InOrder, BookOK, MarkerOK
  <2>7. BookOK(markers)'
    BY <1>1, <2>1, <2>2, <2>3, <2>4, <2>5 DEF InOrder, BookOK
  <2>8. BookOK(disk.markers)'
    BY <1>1, <1>4, <2>7, PersistedBook DEF InOrder
  <2>9. \A u \in Theses : markers'[u] # NoMarker => markers[u] # NoMarker /\ PointOf(markers'[u]) = PointOf(markers[u])
    BY <2>1, <2>2, <2>3, <2>4, <2>5
  <2>10. OneAtATime' /\ SweepsInOrder' /\ NextIsNew'
    BY <1>1, <2>9 DEF InOrder, ToldInOrder, OneAtATime, SweepsInOrder, NextIsNew, LastTold
  <2>11. PutIsThere'
    <3>1. ASSUME NEW s \in Sweepers, sweep[s].phase = "queue"
          PROVE  LET marker == markers'[sweep[s].thesis] IN
                 \/ marker = sweep[s].marker
                 \/ /\ marker # NoMarker /\ ~marker.stale
                    /\ marker.asOf = sweep[s].marker.asOf /\ marker.baseAt = marker.asOf
      <4>1. sweep[s].thesis \in Theses
        BY <3>1, SweepFields DEF Judging
      <4>2. CASE sweep[s].thesis = t
        <5>1. m = sweep[s].marker
          BY <2>1, <2>2, <3>1, <4>2 DEF ToldInOrder, PutIsThere
        <5> QED
          BY <2>3, <2>4, <2>5, <4>2, <5>1
      <4>3. CASE sweep[s].thesis # t
        BY <2>3, <3>1, <4>1, <4>3 DEF ToldInOrder, PutIsThere
      <4> QED
        BY <4>2, <4>3
    <3> QED
      BY <1>1, <3>1 DEF PutIsThere
  <2>12. MarkersFollow'
    <3>1. \A u \in Theses : Queueing(u)' <=> Queueing(u)
      BY <1>1 DEF Queueing
    <3>2. Follows(m, LastTold(t)) => Follows(r, LastTold(t))
      <4>1. LastTold(t)[1] \in Nat
        BY DEF ToldInOrder, MarkersFollow
      <4> QED
        BY <2>5, <2>6, <4>1 DEF Follows
    <3> QED
      BY <1>1, <2>1, <2>2, <2>3, <2>4, <2>5, <3>1, <3>2 DEF ToldInOrder, MarkersFollow, LastTold
  <2> QED
    BY <2>7, <2>8, <2>10, <2>11, <2>12 DEF InOrder, ToldInOrder
<1>5. \A i \in DOMAIN queue : queue[i].id[1] \in Theses
  <2>1. \A i \in DOMAIN queue : queue[i] \in JobRecord
    BY QueueFields DEF MonitorTypeOK
  <2> QED
    BY <2>1, JobFields DEF AllIds
<1>6. \/ UNCHANGED <<markers, disk>>
      \/ UNCHANGED markers /\ PersistAll
      \/ /\ PersistAll
         /\ \E t \in Theses : /\ markers[t] # NoMarker /\ markers[t].stale
                              /\ markers' = [markers EXCEPT ![t] = Rebased(@)]
  <2>1. PICK i \in DOMAIN queue :
          \/ UNCHANGED <<queue, markers, disk, cut>>
          \/ /\ PersistAll
             /\ LET t == queue[i].id[1]
                    rebase == markers[t] # NoMarker /\ markers[t].stale /\ markers[t].asOf = queue[i].asOf
                IN  markers' = IF rebase THEN [markers EXCEPT ![t] = Rebased(@)] ELSE markers
    BY CompleteStep
  <2>2. PICK t \in Theses : t = queue[i].id[1]
    BY <1>5
  <2> QED
    BY <2>1, <2>2
<1> QED
  BY <1>2, <1>3, <1>4, <1>6

\* A new bar is later than those before it.
LEMMA DayOrder ==
    ASSUME MonitorTypeOK, MonitorTypeOK', InOrder, ToldInOrder, NextDay
    PROVE  InOrder' /\ ToldInOrder'
<1>1. UNCHANGED <<markers, disk, sweep, pinged>> /\ now' = now + 1
  BY DEF NextDay
<1>2. bar \in Points /\ bar' \in Points /\ bar.ts <= now /\ now \in Nat /\ (bar' = bar \/ bar'.ts = now')
  BY DEF NextDay, MonitorTypeOK
<1>3. Before(bar, bar')
  BY <1>1, <1>2 DEF Before, Points
<1>4. \A p \in Points : Before(p, bar) => Before(p, bar')
  BY <1>2, <1>3, BeforeTrans
<1>5. \A book \in Books : BookOK(book) => \A t \in Theses : book[t] # NoMarker => MarkerOK(book[t]) /\ Before(PointOf(book[t]), bar')
  BY <1>4, MarkerFields DEF Books, BookOK
<1>6. BookOK(markers)' /\ BookOK(disk.markers)'
  BY <1>1, <1>5 DEF MonitorTypeOK, InOrder, BookOK
<1>7. OneAtATime' /\ MarkersFollow' /\ NextIsNew' /\ PutIsThere'
  BY <1>1 DEF InOrder, ToldInOrder, OneAtATime, MarkersFollow, NextIsNew, PutIsThere, LastTold, Queueing
<1>8. SweepsInOrder'
  BY <1>1, <1>4, SweepFields DEF InOrder, SweepsInOrder
<1> QED
  BY <1>6, <1>7, <1>8 DEF InOrder, ToldInOrder

\* After a start no sweep is under way, and nothing has been notified yet.
LEMMA RestartOrder ==
    ASSUME MonitorTypeOK, InOrder, ToldInOrder, RestartMonitor
    PROVE  InOrder' /\ ToldInOrder'
<1>1. UNCHANGED <<bar, disk>> /\ \A t \in Theses : pinged'[t] = Silent
  BY DEF RestartMonitor, worldVars
<1>2. \A s \in Sweepers : sweep'[s] = Resting /\ sweep'[s].phase = "rest"
  BY DEF RestartMonitor, Resting
<1>3. markers' = disk.markers \/ markers' = [t \in Theses |-> NoMarker]
  BY DEF RestartMonitor
<1>4. BookOK(markers)' /\ BookOK(disk.markers)'
  BY <1>1, <1>3 DEF InOrder, BookOK
<1>5. OneAtATime' /\ SweepsInOrder' /\ NextIsNew' /\ PutIsThere'
  BY <1>2 DEF OneAtATime, SweepsInOrder, NextIsNew, PutIsThere, Judging
<1>6. MarkersFollow'
  <2>1. \A t \in Theses : markers'[t] # NoMarker => markers'[t].baseAt > 0
    <3>1. \A t \in Theses : markers'[t] # NoMarker => markers'[t] \in MarkerRecord
      BY <1>3 DEF MonitorTypeOK, Books
    <3> QED
      BY <3>1, MarkerFields
  <2>2. \A t \in Theses : LastTold(t)' = <<0, Fresh>>
    BY <1>1 DEF LastTold, Silent
  <2> QED
    BY <1>1, <2>1, <2>2 DEF MarkersFollow, Follows
<1> QED
  BY <1>4, <1>5, <1>6 DEF InOrder, ToldInOrder

-----------------------------------------------------------------------------
(* Leases *)

\* A job stays in order while leases and answers stay as they are, more is queued again, and time passes.
LEMMA JobsStayOK ==
    ASSUME MonitorTypeOK, UNCHANGED <<holds, leases, acked>>, requeued \subseteq requeued', now' \in Nat, now <= now'
    PROVE  /\ \A w \in Workers : Runs(w)' => Runs(w)
           /\ \A job : JobOK(job) => JobOK(job)'
<1>1. \A w \in Workers : Runs(w)' => Runs(w)
  <2>1. \A w \in Workers : holds[w] # NoLease => holds[w].until \in Nat
    BY HeldFields
  <2> QED
    BY <2>1 DEF Runs, MonitorTypeOK
<1>2. ASSUME NEW job, Exclusive(job) PROVE Exclusive(job)'
  BY <1>1, <1>2 DEF Exclusive
<1> QED
  BY <1>1, <1>2 DEF JobOK

\* So do the leases, and a queue of such jobs.
LEMMA LeasesStay ==
    ASSUME MonitorTypeOK, LeasesOK, UNCHANGED <<holds, leases, acked>>, requeued \subseteq requeued',
           now' \in Nat, now <= now', QueueOK(queue)', QueueOK(disk.queue)'
    PROVE  LeasesOK'
BY JobsStayOK DEF LeasesOK, Tokens, OneHolder, OneAnswer

\* A sweep's other steps leave queue and leases alone.
LEMMA SameLeases ==
    ASSUME MonitorTypeOK, LeasesOK, UNCHANGED queueVars, UNCHANGED disk \/ disk'.queue = queue',
           now' \in Nat, now <= now'
    PROVE  LeasesOK'
<1>1. UNCHANGED <<queue, holds, leases, acked, requeued>>
  BY DEF queueVars
<1>2. \A job : JobOK(job) => JobOK(job)'
  BY <1>1, JobsStayOK
<1>3. QueueOK(queue)'
  BY <1>1, <1>2 DEF LeasesOK, QueueOK
<1>4. QueueOK(disk.queue)'
  BY <1>1, <1>2, <1>3 DEF LeasesOK, QueueOK
<1> QED
  BY <1>1, <1>3, <1>4, LeasesStay

\* A job that is queued again after it was given out is excepted; any other new one is no worker's.
LEMMA EnqueueLeases ==
    ASSUME MonitorTypeOK, LeasesOK, NEW s \in Sweepers, Enqueue(s)
    PROVE  LeasesOK'
<1>1. UNCHANGED <<now, disk, holds, leases, acked>> /\ sweep[s].phase = "queue" /\ now \in Nat
  BY DEF Enqueue, At, worldVars, MonitorTypeOK
<1>2. requeued \subseteq requeued'
  BY EnqueueStep
<1>3. \A job : JobOK(job) => JobOK(job)'
  BY <1>1, <1>2, JobsStayOK
<1>4. QueueOK(disk.queue)'
  BY <1>1, <1>3 DEF LeasesOK, QueueOK
<1>5. QueueOK(queue)'
  <2>1. CASE UNCHANGED queue
    BY <1>3, <2>1 DEF LeasesOK, QueueOK
  <2>2. CASE /\ requeued' = requeued \cup {j \in GivenOut : j = SweepId(s)}
             /\ \A i \in DOMAIN queue' : \/ queue'[i] = SweepJob(s)
                                         \/ \E k \in DOMAIN queue : queue'[i] = queue[k]
             /\ (\A i, j \in DOMAIN queue : queue[i].id = queue[j].id => i = j) =>
                   \A i, j \in DOMAIN queue' : queue'[i].id = queue'[j].id => i = j
    <3>0. PICK job, id : job = SweepJob(s) /\ id = SweepId(s)
      OBVIOUS
    <3>1. job.id = id /\ job.asOf = id[3] /\ job.token = 0 /\ job.state = "queued"
      BY <1>1, <3>0, SweepJobFields
    <3>2. id \in requeued' \/ id \notin GivenOut
      BY <2>2, <3>0
    <3>3. ASSUME id \notin GivenOut PROVE Exclusive(job)'
      <4>1. \A w \in Workers : holds[w] # NoLease => holds[w].id # id
        BY <3>3 DEF GivenOut
      <4>2. \A a \in acked : a[1] # id
        BY <3>3 DEF GivenOut
      <4> QED
        BY <1>1, <3>1, <4>1, <4>2 DEF Exclusive, Runs
    <3>4. leases' \in Nat
      BY <1>1 DEF MonitorTypeOK
    <3>5. JobOK(job)'
      BY <3>1, <3>2, <3>3, <3>4 DEF JobOK
    <3>6. \A i \in DOMAIN queue' : queue'[i] = job \/ \E k \in DOMAIN queue : queue'[i] = queue[k]
      BY <2>2, <3>0
    <3> QED
      BY <1>3, <2>2, <3>5, <3>6 DEF LeasesOK, QueueOK
  <2> QED
    BY <2>1, <2>2, EnqueueStep
<1> QED
  BY <1>1, <1>2, <1>4, <1>5, LeasesStay

\* A worker that lets go of a job changes nothing about who has one.
LEMMA LetGo ==
    ASSUME MonitorTypeOK, LeasesOK, NEW w \in Workers, holds' \in {holds, [holds EXCEPT ![w] = NoLease]},
           UNCHANGED <<now, leases, requeued>>
    PROVE  /\ Tokens' /\ OneHolder'
           /\ \A v \in Workers : holds'[v] # NoLease => holds'[v] = holds[v]
           /\ \A v \in Workers : Runs(v)' => Runs(v) /\ holds'[v] = holds[v]
<1>1. \A v \in Workers : holds'[v] = holds[v] \/ holds'[v] = NoLease
  BY DEF MonitorTypeOK
<1>2. \A v \in Workers : Runs(v)' => Runs(v) /\ holds'[v] = holds[v]
  BY <1>1 DEF Runs
<1>3. Tokens'
  <2>1. \A v \in Workers : holds'[v] # NoLease => holds'[v].token <= leases'
    BY <1>1 DEF LeasesOK, Tokens
  <2>2. \A u, v \in Workers : u # v /\ holds'[u] # NoLease => holds'[u].token # holds'[v].token
    BY <1>1, HeldFields DEF LeasesOK, Tokens, NoLease
  <2> QED
    BY <2>1, <2>2 DEF Tokens
<1>4. OneHolder'
  BY <1>2 DEF LeasesOK, OneHolder
<1> QED
  BY <1>1, <1>2, <1>3, <1>4

\* So it does not unsettle a job either.
LEMMA LetGoJobs ==
    ASSUME MonitorTypeOK, LeasesOK, NEW w \in Workers, holds' \in {holds, [holds EXCEPT ![w] = NoLease]},
           UNCHANGED <<now, leases, acked, requeued>>
    PROVE  \A job : JobOK(job) => JobOK(job)'
<1>1. ASSUME NEW job, Exclusive(job) PROVE Exclusive(job)'
  BY <1>1, LetGo DEF Exclusive
<1> QED
  BY <1>1 DEF JobOK

\* A worker that lets go keeps the leases in order.
LEMMA AbandonLeases ==
    ASSUME MonitorTypeOK, LeasesOK, NEW w \in Workers, Abandon(w)
    PROVE  LeasesOK'
<1>1. holds' = [holds EXCEPT ![w] = NoLease] /\ UNCHANGED <<now, queue, disk, leases, acked, requeued>>
  BY DEF Abandon, worldVars
<1>2. QueueOK(queue)' /\ QueueOK(disk.queue)'
  BY <1>1, LetGoJobs DEF LeasesOK, QueueOK
<1> QED
  BY <1>1, <1>2, LetGo DEF LeasesOK, OneAnswer

\* A job that fails is no other worker's, and was not acknowledged.
LEMMA FailLeases ==
    ASSUME MonitorTypeOK, LeasesOK, NEW w \in Workers, FailResynth(w), UNCHANGED cut, ~cut
    PROVE  LeasesOK'
<1>1. UNCHANGED <<now, leases, acked, requeued>> /\ PersistAll /\ disk'.queue = queue'
  BY PersistStep DEF FailResynth, worldVars
<1>2. PICK i \in DOMAIN queue :
        /\ holds[w] # NoLease /\ queue[i].id = holds[w].id /\ queue[i].token = holds[w].token
        /\ holds' = [holds EXCEPT ![w] = NoLease]
        /\ queue[i].state = "processing"
        /\ queue' \in Seq(JobRecord) /\ Len(queue') = Len(queue)
        /\ \A k \in DOMAIN queue : /\ queue'[k].id = queue[k].id
                                   /\ queue'[k].asOf = queue[k].asOf
                                   /\ k # i => queue'[k] = queue[k]
        /\ queue'[i].state \in {"failed", "queued"} /\ queue'[i].token = 0
  BY FailStep
<1>3. DOMAIN queue' = DOMAIN queue
  BY <1>2, QueueFields DEF MonitorTypeOK
<1>4. \A job : JobOK(job) => JobOK(job)'
  BY <1>1, <1>2, LetGoJobs
<1>5. holds'[w] = NoLease /\ \A v \in Workers : Runs(v)' => Runs(v) /\ holds'[v] = holds[v] /\ v # w
  BY <1>1, <1>2, LetGo DEF Runs, MonitorTypeOK
<1>6. JobOK(queue[i])
  BY DEF LeasesOK, QueueOK
<1>10. PICK old, new : old = queue[i] /\ new = queue'[i]
  OBVIOUS
<1>7. JobOK(new)'
  <2>1. old = queue[i] /\ new = queue'[i]
    BY <1>10
  <2>2. Exclusive(old) => Exclusive(new)'
    <3>1. ASSUME Exclusive(old), NEW v \in Workers, Runs(v)', holds'[v].id = new.id PROVE FALSE
      <4>1. Runs(v) /\ holds[v].id = old.id /\ v # w
        BY <1>2, <1>5, <2>1, <3>1
      <4>2. old.token = holds[v].token
        BY <3>1, <4>1 DEF Exclusive
      <4>3. holds[v].token = holds[w].token /\ holds[v] # NoLease
        BY <1>2, <2>1, <4>1, <4>2 DEF Runs
      <4> QED
        BY <1>2, <4>1, <4>3 DEF LeasesOK, Tokens
    <3>2. ASSUME Exclusive(old), NEW a \in acked, a[1] = new.id PROVE FALSE
      <4>1. a[1] = old.id /\ old.state = "processing"
        BY <1>2, <2>1, <3>2
      <4> QED
        BY <3>2, <4>1 DEF Exclusive
    <3> QED
      BY <1>1, <3>1, <3>2 DEF Exclusive
  <2>3. new.id = old.id /\ new.asOf = old.asOf /\ new.token = 0 /\ new.state # "completed" /\ leases' \in Nat
    BY <1>1, <1>2, <2>1 DEF MonitorTypeOK
  <2>4. JobOK(new)'
    BY <1>1, <1>6, <2>1, <2>2, <2>3 DEF JobOK
  <2> QED
    BY <2>4
<1>8. QueueOK(queue)'
  <2>1. \A k \in DOMAIN queue' : \/ queue'[k] = new
                                 \/ \E job : job = queue'[k] /\ JobOK(job)
    BY <1>2, <1>3, <1>10 DEF LeasesOK, QueueOK
  <2>2. \A k, j \in DOMAIN queue' : queue'[k].id = queue'[j].id => k = j
    BY <1>2, <1>3 DEF LeasesOK, QueueOK
  <2> QED
    BY <1>4, <1>7, <2>1, <2>2 DEF QueueOK
<1>9. QueueOK(disk.queue)'
  BY <1>1, <1>8 DEF QueueOK
<1> QED
  BY <1>1, <1>2, <1>8, <1>9, LetGo DEF LeasesOK, OneAnswer

\* A completed job is acknowledged to the one worker whose token it has.
LEMMA CompleteLeases ==
    ASSUME MonitorTypeOK, LeasesOK, NEW w \in Workers, CompleteResynth(w), UNCHANGED cut, ~cut
    PROVE  LeasesOK'
<1>1. UNCHANGED <<now, leases, requeued>>
  BY DEF CompleteResynth, worldVars
<1>2. PICK i \in DOMAIN queue :
        /\ holds[w] # NoLease /\ queue[i].id = holds[w].id /\ queue[i].token = holds[w].token
        /\ acked' = acked \cup {<<queue[i].id, w>>}
        /\ holds' = [holds EXCEPT ![w] = NoLease] \/ holds' = holds
        /\ \/ queue[i].state = "completed" /\ UNCHANGED <<queue, markers, disk, cut>>
           \/ /\ queue[i].state = "processing" /\ PersistAll
              /\ queue' \in Seq(JobRecord) /\ Len(queue') = Len(queue)
              /\ \A k \in DOMAIN queue : /\ queue'[k].id = queue[k].id
                                         /\ queue'[k].asOf = queue[k].asOf
                                         /\ queue'[k].token = queue[k].token
                                         /\ k # i => queue'[k] = queue[k]
              /\ queue'[i].state = "completed"
  BY CompleteStep
<1>3. PICK old, new, id : old = queue[i] /\ new = queue'[i] /\ id = old.id
  OBVIOUS
<1>4. JobOK(old) /\ (id \in requeued \/ Exclusive(old))
  BY <1>3 DEF LeasesOK, QueueOK, JobOK
<1>5. Tokens' /\ OneHolder'
      /\ (\A v \in Workers : holds'[v] # NoLease => holds'[v] = holds[v])
      /\ (\A v \in Workers : Runs(v)' => Runs(v) /\ holds'[v] = holds[v])
  BY <1>1, <1>2, LetGo
<1>6. \A v \in Workers : holds[v] # NoLease /\ holds[v].token = old.token => v = w
  BY <1>2, <1>3 DEF LeasesOK, Tokens
\* Whoever was acknowledged for it before is the same worker.
<1>7. ASSUME Exclusive(old), NEW a \in acked, a[1] = id PROVE a = <<id, w>> /\ old.state = "completed"
  <2>1. old.state = "completed" /\ w = a[2]
    BY <1>2, <1>3, <1>7 DEF Exclusive
  <2>2. a = <<a[1], a[2]>>
    BY DEF MonitorTypeOK
  <2> QED
    BY <1>7, <2>1, <2>2
<1>8. OneAnswer'
  <2>1. ASSUME NEW a \in acked', NEW b \in acked', a[1] = b[1], a # b PROVE a[1] \in requeued'
    <3>1. CASE a \in acked /\ b \in acked
      BY <1>1, <2>1, <3>1 DEF LeasesOK, OneAnswer
    <3>2. CASE a[1] = id
      <4>1. \A c \in acked' : c = <<id, w>> \/ c \in acked
        BY <1>2, <1>3
      <4>2. CASE Exclusive(old)
        <5>1. a = <<id, w>> /\ b = <<id, w>>
          BY <1>7, <2>1, <3>2, <4>1, <4>2
        <5> QED
          BY <2>1, <5>1
      <4> QED
        BY <1>1, <1>4, <3>2, <4>2
    <3>3. a \in acked \/ a = <<id, w>>
      BY <1>2, <1>3
    <3>4. b \in acked \/ b = <<id, w>>
      BY <1>2, <1>3
    <3> QED
      BY <2>1, <3>1, <3>2, <3>3, <3>4
  <2> QED
    BY <2>1 DEF OneAnswer
\* Jobs of another id, and those that are done, are as they were.
<1>9. ASSUME NEW job, JobOK(job), job.id # id PROVE JobOK(job)'
  <2>1. \A a \in acked' : a[1] = job.id => a \in acked
    BY <1>2, <1>3, <1>9
  <2>2. Exclusive(job) => Exclusive(job)'
    BY <1>5, <2>1 DEF Exclusive
  <2> QED
    BY <1>1, <1>2, <1>9, <2>2 DEF JobOK
<1>10. ASSUME NEW job, job.id = id, job.asOf = old.asOf, job.token = old.token, job.state = "completed"
       PROVE  JobOK(job)'
  <2>1. Exclusive(old) => Exclusive(job)'
    <3>1. ASSUME Exclusive(old), NEW v \in Workers, Runs(v)', holds'[v].id = id PROVE old.token = holds'[v].token
      BY <1>3, <1>5, <3>1 DEF Exclusive
    <3>2. ASSUME Exclusive(old), NEW a \in acked', a[1] = id PROVE a[2] = w
      BY <1>2, <1>3, <1>7, <3>2
    <3>3. \A v \in Workers : holds'[v] # NoLease /\ holds'[v].token = old.token => v = w
      BY <1>5, <1>6
    <3> QED
      BY <1>10, <3>1, <3>2, <3>3 DEF Exclusive
  <2>2. <<id, w>> \in acked' /\ <<id, w>>[1] = id
    BY <1>2, <1>3
  <2>3. old.token <= leases /\ old.asOf = old.id[3]
    BY <1>4 DEF JobOK
  <2> QED
    BY <1>1, <1>3, <1>4, <1>10, <2>1, <2>2, <2>3 DEF JobOK
<1>11. CASE queue[i].state = "completed" /\ UNCHANGED <<queue, disk>>
  <2>1. ASSUME NEW job, JobOK(job), job.id = id PROVE JobOK(job)'
    <3>1. CASE id \in requeued
      BY <1>1, <1>2, <2>1, <3>1 DEF JobOK
    <3>2. CASE id \notin requeued
      <4>1. acked' = acked
        <5>1. PICK a \in acked : a[1] = id
          BY <1>3, <1>4, <1>11 DEF JobOK
        <5>2. a = <<id, w>>
          BY <1>4, <1>7, <3>2, <5>1
        <5> QED
          BY <1>2, <1>3, <5>2
      <4>2. Exclusive(job)
        BY <2>1, <3>2 DEF JobOK
      <4>3. Exclusive(job)'
        BY <1>5, <4>1, <4>2 DEF Exclusive
      <4> QED
        BY <1>1, <2>1, <4>1, <4>3 DEF JobOK
    <3> QED
      BY <3>1, <3>2
  <2>2. QueueOK(queue)' /\ QueueOK(disk.queue)'
    BY <1>9, <1>11, <2>1 DEF LeasesOK, QueueOK
  <2> QED
    BY <1>5, <1>8, <2>2 DEF LeasesOK
<1>12. CASE /\ PersistAll
            /\ queue' \in Seq(JobRecord) /\ Len(queue') = Len(queue)
            /\ \A k \in DOMAIN queue : /\ queue'[k].id = queue[k].id
                                       /\ queue'[k].asOf = queue[k].asOf
                                       /\ queue'[k].token = queue[k].token
                                       /\ k # i => queue'[k] = queue[k]
            /\ queue'[i].state = "completed"
  <2>1. DOMAIN queue' = DOMAIN queue /\ disk'.queue = queue'
    BY <1>12, QueueFields, PersistStep DEF MonitorTypeOK
  <2>2. JobOK(new)'
    BY <1>3, <1>10, <1>12
  <2>3. \A k \in DOMAIN queue' : queue'[k] = new \/ \E job : job = queue'[k] /\ JobOK(job) /\ job.id # id
    BY <1>3, <1>12, <2>1 DEF LeasesOK, QueueOK
  <2>4. \A k, j \in DOMAIN queue' : queue'[k].id = queue'[j].id => k = j
    BY <1>12, <2>1 DEF LeasesOK, QueueOK
  <2>5. QueueOK(queue)' /\ QueueOK(disk.queue)'
    BY <1>9, <2>1, <2>2, <2>3, <2>4 DEF QueueOK
  <2> QED
    BY <1>5, <1>8, <2>5 DEF LeasesOK
<1> QED
  BY <1>2, <1>11, <1>12

\* A claimed job was no running lease's, and was not done.
LEMMA ClaimLeases ==
    ASSUME MonitorTypeOK, LeasesOK, NEW w \in Workers, LeaseResynth(w), UNCHANGED cut, ~cut
    PROVE  LeasesOK'
<1>1. UNCHANGED <<now, acked, requeued>> /\ disk'.queue = queue' /\ holds[w] = NoLease /\ now \in Nat /\ leases \in Nat
  BY PersistStep DEF LeaseResynth, worldVars, MonitorTypeOK
<1>2. /\ queue' \in Seq(JobRecord) /\ Len(queue') = Len(queue)
      /\ \A i \in 1 .. Len(queue) :
            /\ queue'[i].id = queue[i].id /\ queue'[i].asOf = queue[i].asOf
            /\ queue'[i].state = "completed" <=> queue[i].state = "completed"
            /\ Settled(queue[i]) => queue'[i] = queue[i]
  BY LeaseStep
<1>3. DOMAIN queue = 1 .. Len(queue) /\ DOMAIN queue' = DOMAIN queue
  BY <1>2, QueueFields DEF MonitorTypeOK
<1>4. \A i \in DOMAIN queue : JobOK(queue[i])
  BY DEF LeasesOK, QueueOK
<1>5. \A i \in DOMAIN queue : queue[i].token <= leases /\ queue[i].token \in Nat
  BY <1>4, QueueFields, JobFields DEF JobOK, MonitorTypeOK
\* A job that a running lease is of, or that was acknowledged, is settled.
<1>6. ASSUME NEW i \in DOMAIN queue, queue[i].id \notin requeued, ~Settled(queue[i])
      PROVE  /\ \A v \in Workers : Runs(v) => holds[v].id # queue[i].id
             /\ \A a \in acked : a[1] # queue[i].id
  <2>1. Exclusive(queue[i])
    BY <1>4, <1>6 DEF JobOK
  <2>2. \A v \in Workers : Runs(v) => holds[v].until > now
    BY DEF Runs
  <2> QED
    BY <1>6, <2>1, <2>2 DEF Exclusive, Settled
<1>7. \A k, j \in DOMAIN queue' : queue'[k].id = queue'[j].id => k = j
  BY <1>2, <1>3 DEF LeasesOK, QueueOK
<1>8. CASE UNCHANGED <<holds, leases>> /\ \A i \in 1 .. Len(queue) : queue'[i].token \in {0, queue[i].token}
  <2>1. ASSUME NEW i \in DOMAIN queue, NEW new, new = queue'[i] PROVE JobOK(new)'
    <3>1. new.token <= leases' /\ new.asOf = new.id[3]
      BY <1>1, <1>2, <1>3, <1>4, <1>5, <1>8, <2>1 DEF JobOK
    <3>2. new.state = "completed" => \E a \in acked' : a[1] = new.id
      BY <1>1, <1>2, <1>3, <1>4, <2>1 DEF JobOK
    <3>3. CASE Settled(queue[i])
      <4>1. JobOK(new)
        BY <1>2, <1>3, <1>4, <2>1, <3>3
      <4> QED
        BY <1>1, <1>8, <4>1, JobsStayOK
    <3>4. CASE ~Settled(queue[i]) /\ queue[i].id \notin requeued
      <4>1. Exclusive(new)'
        BY <1>1, <1>2, <1>3, <1>6, <1>8, <2>1, <3>4 DEF Exclusive, Runs
      <4> QED
        BY <3>1, <3>2, <4>1 DEF JobOK
    <3>5. CASE queue[i].id \in requeued
      BY <1>1, <1>2, <1>3, <2>1, <3>1, <3>2, <3>5 DEF JobOK
    <3> QED
      BY <3>3, <3>4, <3>5
  <2>2. \A i \in DOMAIN queue' : \E new : new = queue'[i] /\ JobOK(new)'
    BY <1>3, <2>1
  <2>3. QueueOK(queue)' /\ QueueOK(disk.queue)'
    BY <1>1, <1>7, <2>2 DEF QueueOK
  <2> QED
    BY <1>1, <1>8, <2>3, LeasesStay
<1>9. CASE /\ leases' = leases + 1
           /\ \A i \in 1 .. Len(queue) : queue'[i].token \in {0, queue[i].token, leases + 1}
           /\ \E n \in 1 .. Len(queue) :
                 /\ ~Settled(queue[n])
                 /\ holds' = [holds EXCEPT ![w] = [token |-> leases + 1, id |-> queue[n].id,
                                                   until |-> now + LeaseTime]]
                 /\ queue'[n].state = "processing" /\ queue'[n].token = leases + 1
                 /\ queue'[n].until = now + LeaseTime
  <2>1. PICK n \in 1 .. Len(queue) :
          /\ ~Settled(queue[n])
          /\ holds' = [holds EXCEPT ![w] = [token |-> leases + 1, id |-> queue[n].id, until |-> now + LeaseTime]]
          /\ queue'[n].state = "processing" /\ queue'[n].token = leases + 1
          /\ queue'[n].until = now + LeaseTime
    BY <1>9
  <2>2. PICK id : id = queue[n].id
    OBVIOUS
  <2>3. /\ holds'[w].token = leases + 1 /\ holds'[w].id = id /\ holds'[w].until = now + LeaseTime
        /\ \A v \in Workers \ {w} : holds'[v] = holds[v]
    BY <2>1, <2>2 DEF MonitorTypeOK
  <2>4. \A v \in Workers : holds[v] # NoLease => holds[v].token <= leases /\ holds[v].token \in Nat
    BY HeldFields DEF LeasesOK, Tokens
  <2>5. \A v \in Workers \ {w} : holds'[v] # NoLease => holds'[v].token <= leases /\ holds'[v].token \in Nat
    BY <2>3, <2>4
  <2>6. Tokens'
    <3>1. \A v \in Workers : holds'[v] # NoLease => holds'[v].token <= leases'
      BY <1>1, <1>9, <2>3, <2>5
    <3>2. ASSUME NEW u \in Workers, NEW v \in Workers, u # v, holds'[u] # NoLease PROVE holds'[u].token # holds'[v].token
      <4>1. CASE u # w /\ v # w
        BY <2>3, <3>2, <4>1 DEF LeasesOK, Tokens
      <4>2. CASE u = w /\ v # w
        BY <1>1, <2>3, <2>5, <3>2, <4>2 DEF NoLease
      <4>3. CASE u # w /\ v = w
        BY <1>1, <2>3, <2>5, <3>2, <4>3
      <4> QED
        BY <3>2, <4>1, <4>2, <4>3
    <3> QED
      BY <3>1, <3>2 DEF Tokens
  <2>7. \A v \in Workers \ {w} : Runs(v)' <=> Runs(v)
    BY <1>1, <2>3 DEF Runs
  <2>8. ASSUME id \notin requeued
        PROVE  (\A v \in Workers : Runs(v) => holds[v].id # id) /\ \A a \in acked : a[1] # id
    BY <1>3, <1>6, <2>1, <2>2, <2>8
  <2>9. OneHolder'
    <3>1. ASSUME NEW u \in Workers, NEW v \in Workers, u # v, Runs(u)', Runs(v)', holds'[u].id = holds'[v].id
          PROVE  holds'[u].id \in requeued'
      <4>1. CASE u # w /\ v # w
        BY <1>1, <2>3, <2>7, <3>1, <4>1 DEF LeasesOK, OneHolder
      <4>2. CASE u = w \/ v = w
        BY <1>1, <2>3, <2>7, <2>8, <3>1, <4>2
      <4> QED
        BY <4>1, <4>2
    <3> QED
      BY <3>1 DEF OneHolder
  <2>10. ASSUME NEW i \in DOMAIN queue, NEW new, new = queue'[i] PROVE JobOK(new)'
    <3>1. new.token <= leases' /\ new.asOf = new.id[3]
      BY <1>1, <1>2, <1>3, <1>4, <1>5, <1>9, <2>10, SMTT(30) DEF JobOK
    <3>2. new.state = "completed" => \E a \in acked' : a[1] = new.id
      BY <1>1, <1>2, <1>3, <1>4, <2>10 DEF JobOK
    <3>3. new.id = queue[i].id
      BY <1>2, <1>3, <2>10
    <3>4. CASE queue[i].id \in requeued
      BY <1>1, <3>1, <3>2, <3>3, <3>4 DEF JobOK
    <3>5. CASE queue[i].id \notin requeued
      <4>1. ASSUME i # n PROVE new.id # id
        BY <1>3, <2>2, <3>3, <4>1 DEF LeasesOK, QueueOK
      <4>2. ASSUME NEW v \in Workers, Runs(v)', holds'[v].id = new.id
            PROVE  /\ new.token = holds'[v].token
                   /\ new.state = "completed" \/ (new.state = "processing" /\ new.until = holds'[v].until)
        <5>1. CASE v = w
          BY <2>1, <2>2, <2>3, <2>10, <4>1, <4>2, <5>1
        <5>2. CASE v # w
          <6>1. Runs(v) /\ holds'[v] = holds[v] /\ holds[v].id = queue[i].id
            BY <2>3, <2>7, <3>3, <4>2, <5>2
          <6>2. Settled(queue[i])
            BY <1>6, <3>5, <6>1
          <6>3. new = queue[i] /\ Exclusive(queue[i])
            BY <1>2, <1>3, <1>4, <2>10, <3>5, <6>2 DEF JobOK
          <6> QED
            BY <6>1, <6>3 DEF Exclusive
        <5> QED
          BY <5>1, <5>2
      <4>3. ASSUME NEW a \in acked, a[1] = new.id
            PROVE  /\ new.state = "completed"
                   /\ \A v \in Workers : holds'[v] # NoLease /\ holds'[v].token = new.token => v = a[2]
        <5>1. Settled(queue[i])
          BY <1>6, <3>3, <3>5, <4>3
        <5>2. new = queue[i] /\ Exclusive(queue[i]) /\ new.token <= leases /\ new.token \in Nat
          BY <1>2, <1>3, <1>4, <1>5, <2>10, <3>5, <5>1 DEF JobOK
        <5>3. holds'[w].token # new.token
          BY <1>1, <2>3, <5>2
        <5> QED
          BY <2>3, <4>3, <5>2, <5>3 DEF Exclusive
      <4>4. Exclusive(new)'
        BY <1>1, <4>2, <4>3 DEF Exclusive
      <4> QED
        BY <3>1, <3>2, <4>4 DEF JobOK
    <3> QED
      BY <3>4, <3>5
  <2>11. \A i \in DOMAIN queue' : \E new : new = queue'[i] /\ JobOK(new)'
    BY <1>3, <2>10
  <2>12. QueueOK(queue)' /\ QueueOK(disk.queue)'
    BY <1>1, <1>7, <2>11 DEF QueueOK
  <2> QED
    BY <1>1, <2>6, <2>9, <2>12 DEF LeasesOK, OneAnswer
<1> QED
  BY <1>8, <1>9, LeaseStep

\* What was written is what was in memory, with every write successful, and no start can find more.
LEMMA RestartLeases ==
    ASSUME MonitorTypeOK, LeasesOK, RestartMonitor
    PROVE  LeasesOK'
<1>1. UNCHANGED <<now, disk, holds, leases, acked, requeued>> /\ now \in Nat
  BY DEF RestartMonitor, worldVars, MonitorTypeOK
<1>2. \A job : JobOK(job) => JobOK(job)'
  BY <1>1, JobsStayOK
<1>3. queue' = disk.queue \/ queue' = <<>>
  BY DEF RestartMonitor
<1>4. QueueOK(queue)' /\ QueueOK(disk.queue)'
  BY <1>1, <1>2, <1>3 DEF LeasesOK, QueueOK
<1> QED
  BY <1>1, <1>4, LeasesStay

-----------------------------------------------------------------------------
(* Jobs, with sweeps that do not overlap and every write successful *)

\* What is on disk after a write.
Written ==
    /\ disk'.markers = markers' /\ disk'.queue = queue' /\ disk'.dropped = dropped'
    /\ disk'.torn = \E s \in Sweepers : sweep'[s].phase = "queue"

\* A step that leaves the queue alone keeps what is said of its jobs, if it does for every id.
LEMMA SameJobs ==
    ASSUME MonitorTypeOK, JobsInOrder, UNCHANGED <<queue, holds, acked, requeued>>, bar.ts <= bar'.ts,
           bar'.ts \in Nat, UNCHANGED disk \/ Written,
           \A id \in AllIds : Dated(id) /\ Reached(markers, id) => Dated(id)' /\ Reached(markers, id)'
    PROVE  JobsInOrder'
<1>1. GivenOut' = GivenOut /\ GivenOut \subseteq AllIds
  BY GivenOutFields DEF GivenOut
<1>2. /\ \A i \in DOMAIN queue : queue[i].id \in AllIds
      /\ \A i \in DOMAIN disk.queue : disk.queue[i].id \in AllIds /\ disk.queue[i].id[3] \in Nat
  BY QueueFields, JobFields DEF MonitorTypeOK, AllIds
<1>3. \A id \in GivenOut' : Dated(id)' /\ Reached(markers, id)'
  BY <1>1 DEF JobsInOrder
<1>4. \A id \in GivenOut' : Reached(disk.markers, id)'
  BY <1>1, <1>3 DEF JobsInOrder, Written, Reached
<1>5. \A i \in DOMAIN queue' : \E id \in AllIds : id = queue'[i].id /\ Dated(id)' /\ Reached(markers, id)'
  BY <1>2 DEF JobsInOrder
<1>6. \A i \in DOMAIN queue' : queue'[i].id[3] <= bar'.ts
  BY <1>5 DEF Dated
<1>7. bar.ts \in Nat
  BY DEF MonitorTypeOK, Points
<1>8. ASSUME NEW i \in DOMAIN disk'.queue
      PROVE  disk'.queue[i].id[3] <= bar'.ts /\ Reached(disk.markers, disk.queue[i].id)'
  <2>1. CASE UNCHANGED disk
    BY <1>2, <1>7, <1>8, <2>1 DEF JobsInOrder, Reached
  <2>2. CASE Written
    BY <1>5, <1>6, <1>8, <2>2 DEF Written, Reached
  <2> QED
    BY <2>1, <2>2
<1> QED
  BY <1>3, <1>4, <1>5, <1>8 DEF JobsInOrder

\* The same of the stale markers.
LEMMA SameStale ==
    ASSUME StaleOK, UNCHANGED disk \/ Written,
           \A t \in Theses : Queued(markers, queue, dropped, t) \/ Queueing(t)
                               => Queued(markers, queue, dropped, t)' \/ Queueing(t)'
    PROVE  StaleOK'
<1>1. \A t \in Theses : Queued(markers, queue, dropped, t)' \/ Queueing(t)'
  BY DEF StaleOK
<1>2. CASE UNCHANGED disk
  BY <1>1, <1>2 DEF StaleOK, Queued
<1>3. CASE Written
  <2>1. ASSUME ~disk'.torn, NEW t \in Theses PROVE Queued(disk.markers, disk.queue, disk.dropped, t)'
    <3>1. ~Queueing(t)'
      BY <1>3, <2>1 DEF Written, Queueing
    <3>2. Queued(markers, queue, dropped, t)'
      BY <1>1, <3>1
    <3> QED
      BY <1>3, <3>2 DEF Written, Queued
  <2> QED
    BY <1>1, <2>1 DEF StaleOK
<1> QED
  BY <1>2, <1>3

\* A sweep starts, or reads the last bar.
LEMMA StartJobs ==
    ASSUME MonitorTypeOK, JobsInOrder, StaleOK, NEW s \in Sweepers, FetchTheses(s) \/ ReadBar(s)
    PROVE  JobsInOrder' /\ StaleOK'
<1>1. UNCHANGED <<bar, markers, queue, dropped, holds, acked, requeued, disk>>
  BY DEF FetchTheses, ReadBar, worldVars, queueVars
<1>2. /\ sweep'[s].phase = "bars" \/ (sweep'[s].phase = "judge" /\ sweep'[s].bar = bar)
      /\ \A o \in Sweepers \ {s} : sweep'[o] = sweep[o]
      /\ sweep[s].phase \in {"rest", "bars"}
  BY DEF FetchTheses, ReadBar, MonitorTypeOK, Resting
<1>3. bar.ts \in Nat
  BY DEF MonitorTypeOK, Points
<1>4. \A id \in AllIds : Dated(id) => Dated(id)'
  BY <1>1, <1>2, <1>3 DEF Dated, Judging
<1>5. JobsInOrder'
  BY <1>1, <1>3, <1>4, SameJobs DEF Reached
<1>6. \A t \in Theses : Queueing(t) => Queueing(t)'
  BY <1>2 DEF Queueing
<1>7. StaleOK'
  BY <1>1, <1>6, SameStale DEF Queued
<1> QED
  BY <1>5, <1>7

\* What a sweep finds news about was not queued for, on this bar or a later one.
LEMMA JudgeJobs ==
    ASSUME MonitorTypeOK, InOrder, JobsInOrder, StaleOK, NEW s \in Sweepers, Judge(s)
    PROVE  JobsInOrder' /\ StaleOK'
<1>1. UNCHANGED <<bar, queue, dropped, holds, acked, requeued, disk>> /\ \A o \in Sweepers \ {s} : sweep'[o] = sweep[o]
  BY JudgeStep DEF Judge, worldVars, queueVars
<1>2. /\ sweep[s].phase = "judge" /\ sweep[s].bar \in Points
      /\ sweep'[s].phase \in {"judge", "put"} /\ sweep'[s].bar = sweep[s].bar
  BY JudgeStep
<1>3. PICK p \in Points : p = sweep[s].bar
  BY <1>2
<1>4. PICK t \in Theses :
        \/ markers' = [markers EXCEPT ![t] = Baseline(p)] /\ sweep'[s].phase = "judge"
        \/ UNCHANGED markers /\ sweep'[s].phase = "judge"
        \/ /\ UNCHANGED markers /\ sweep'[s].phase = "put" /\ markers[t] # NoMarker /\ News(markers[t], p)
           /\ sweep'[s].thesis = t /\ sweep'[s].marker = Stale(markers[t], p)
  BY <1>3, JudgeStep
<1>5. \A u \in Theses : markers'[u] = markers[u] \/ markers'[u] = Baseline(p)
  BY <1>4 DEF MonitorTypeOK, Books
<1>6. bar.ts \in Nat /\ p.ts \in Nat
  BY DEF MonitorTypeOK, Points
<1>7. ASSUME NEW id \in AllIds, Dated(id), Reached(markers, id) PROVE Dated(id)' /\ Reached(markers, id)'
  <2>1. id[1] \in Theses /\ id[3] \in Nat /\ id[3] <= p.ts
    BY <1>2, <1>3, <1>7 DEF AllIds, Dated, Judging
  <2>2. Reached(markers, id)'
    BY <1>5, <1>7, <2>1, BaselineMarker DEF Reached
  <2>3. sweep'[s].phase = "put" /\ sweep'[s].thesis = id[1] => id[3] < p.ts
    <3>1. ASSUME sweep'[s].phase = "put", sweep'[s].thesis = id[1] PROVE id[3] < p.ts
      <4>1. markers[t] # NoMarker /\ News(markers[t], p) /\ id[1] = t
        BY <1>4, <3>1
      <4>2. markers[t] \in MarkerRecord /\ MarkerOK(markers[t]) /\ Before(PointOf(markers[t]), p)
        BY <1>2, <1>3, <4>1 DEF MonitorTypeOK, Books, InOrder, BookOK, SweepsInOrder, Judging
      <4>3. markers[t].asOf < p.ts /\ markers[t].asOf \in Nat
        BY <4>1, <4>2, StaleMarker, MarkerFields
      <4>4. id[3] <= markers[t].asOf
        BY <1>7, <4>1 DEF Reached
      <4> QED
        BY <1>6, <2>1, <4>3, <4>4
    <3> QED
      BY <3>1
  <2>4. Dated(id)'
    BY <1>1, <1>2, <1>3, <1>7, <2>1, <2>3 DEF Dated, Judging
  <2> QED
    BY <2>2, <2>4
<1>8. JobsInOrder'
  BY <1>1, <1>6, <1>7, SameJobs
<1>9. ASSUME NEW u \in Theses, Queued(markers, queue, dropped, u) \/ Queueing(u)
      PROVE  Queued(markers, queue, dropped, u)' \/ Queueing(u)'
  <2>1. Queueing(u) => Queueing(u)'
    BY <1>1, <1>2 DEF Queueing
  <2>2. CASE markers'[u] = markers[u]
    BY <1>1, <1>9, <2>1, <2>2 DEF Queued
  <2>3. CASE markers'[u] = Baseline(p)
    BY <2>3, BaselineMarker DEF Queued
  <2> QED
    BY <1>5, <2>2, <2>3
<1>10. StaleOK'
  BY <1>1, <1>9, SameStale
<1> QED
  BY <1>8, <1>10

\* The marker that is put is of the sweep's bar.
LEMMA PutJobs ==
    ASSUME MonitorTypeOK, InOrder, JobsInOrder, StaleOK, NEW s \in Sweepers, PutMarker(s)
    PROVE  JobsInOrder' /\ StaleOK'
<1>1. UNCHANGED <<bar, queue, dropped, holds, acked, requeued, disk>> /\ sweep[s].phase = "put" /\ sweep' = Turn(s, "queue")
      /\ markers' = [markers EXCEPT ![sweep[s].thesis] = sweep[s].marker]
  BY DEF PutMarker, At, worldVars, queueVars
<1>2. /\ \A o \in Sweepers \ {s} : sweep'[o] = sweep[o]
      /\ sweep'[s].phase = "queue" /\ sweep'[s].bar = sweep[s].bar /\ sweep'[s].thesis = sweep[s].thesis
  BY <1>1, TurnStep DEF Judging
<1>3. sweep[s].thesis \in Theses /\ sweep[s].marker \in MarkerRecord /\ sweep[s].bar.ts \in Nat
  BY <1>1, SweepFields DEF Judging
<1>4. PICK t \in Theses, m \in MarkerRecord : t = sweep[s].thesis /\ m = sweep[s].marker
  BY <1>3
<1>5. markers'[t] = m /\ \A u \in Theses \ {t} : markers'[u] = markers[u]
  BY <1>1, <1>4 DEF MonitorTypeOK, Books
<1>6. m.asOf = sweep[s].bar.ts
  <2>1. PointOf(m) = sweep[s].bar
    BY <1>1, <1>4 DEF InOrder, SweepsInOrder
  <2>2. PointOf(m).ts = m.asOf
    BY DEF PointOf
  <2> QED
    BY <2>1, <2>2
<1>7. ASSUME NEW id \in AllIds, Dated(id), Reached(markers, id) PROVE Dated(id)' /\ Reached(markers, id)'
  <2>1. id[1] \in Theses /\ id[3] \in Nat /\ (id[1] = t => id[3] < sweep[s].bar.ts)
    BY <1>1, <1>4, <1>7 DEF AllIds, Dated
  <2>2. Reached(markers, id)'
    BY <1>3, <1>5, <1>6, <1>7, <2>1 DEF Reached
  <2>3. Dated(id)'
    BY <1>1, <1>2, <1>7 DEF Dated, Judging
  <2> QED
    BY <2>2, <2>3
<1>8. JobsInOrder'
  <2>1. bar.ts \in Nat
    BY DEF MonitorTypeOK, Points
  <2>2. UNCHANGED <<bar, queue, holds, acked, requeued, disk>>
    BY <1>1
  <2>3. bar.ts <= bar'.ts /\ bar'.ts \in Nat
    BY <2>1, <2>2
  <2> QED
    BY <1>7, <2>2, <2>3, SameJobs
<1>9. ASSUME NEW u \in Theses, Queued(markers, queue, dropped, u) \/ Queueing(u)
      PROVE  Queued(markers, queue, dropped, u)' \/ Queueing(u)'
  <2>1. CASE u = t
    BY <1>2, <1>4, <2>1 DEF Queueing
  <2>2. CASE u # t
    <3>1. Queueing(u) => Queueing(u)'
      BY <1>1, <1>2 DEF Queueing
    <3>2. Queued(markers, queue, dropped, u) => Queued(markers, queue, dropped, u)'
      BY <1>1, <1>5, <2>2 DEF Queued
    <3> QED
      BY <1>9, <3>1, <3>2
  <2> QED
    BY <2>1, <2>2
<1>10. StaleOK'
  BY <1>1, <1>9, SameStale
<1> QED
  BY <1>8, <1>10

\* A job that a sweep queues is of a later bar than any that its thesis had, and so is nobody's yet.
LEMMA EnqueueJobs ==
    ASSUME MonitorTypeOK, InOrder, ToldInOrder, LeasesOK, JobsInOrder, StaleOK, NEW s \in Sweepers, Enqueue(s)
    PROVE  JobsInOrder' /\ StaleOK'
<1>1. UNCHANGED <<bar, markers, disk, holds, acked>> /\ sweep[s].phase = "queue" /\ sweep' = Turn(s, "judge")
  BY DEF Enqueue, At, worldVars
<1>2. /\ \A o \in Sweepers \ {s} : sweep'[o] = sweep[o]
      /\ sweep'[s].phase = "judge" /\ sweep'[s].bar = sweep[s].bar
  BY <1>1, TurnStep DEF Judging
<1>3. sweep[s].thesis \in Theses /\ sweep[s].marker \in MarkerRecord /\ sweep[s].bar.ts \in Nat /\ sweep[s] # Resting
  BY <1>1, SweepFields DEF Judging
<1>4. PICK t \in Theses, m \in MarkerRecord, p \in Points : t = sweep[s].thesis /\ m = sweep[s].marker /\ p = sweep[s].bar
  BY <1>1, <1>3, SweepFields DEF Judging
<1>5. \A o \in Sweepers \ {s} : sweep'[o].phase = "rest" /\ sweep[o].phase = "rest"
  BY <1>2, <1>3, Alone DEF InOrder
<1>6. m.asOf = p.ts /\ Before(p, bar) /\ p.ts \in Nat /\ bar.ts \in Nat /\ p.ts <= bar.ts
  <2>1. PointOf(m) = p /\ Before(p, bar)
    BY <1>1, <1>4 DEF InOrder, SweepsInOrder, Judging
  <2>2. PointOf(m).ts = m.asOf
    BY DEF PointOf
  <2> QED
    BY <2>1, <2>2 DEF Before, Points, MonitorTypeOK
<1>7. PICK job, id : job = SweepJob(s) /\ id = SweepId(s)
  OBVIOUS
<1>8. job.id = id /\ id \in AllIds /\ id[1] = t /\ id[3] = p.ts /\ job.state = "queued"
  BY <1>1, <1>4, <1>6, <1>7, SweepJobFields
<1>9. \A other : Dated(other) /\ other[1] = t => other[3] < p.ts
  BY <1>1, <1>4 DEF Dated
<1>10. id \notin GivenOut
  BY <1>6, <1>8, <1>9 DEF JobsInOrder
<1>11. \A i \in DOMAIN queue : queue[i].id # id
  BY <1>6, <1>8, <1>9 DEF JobsInOrder
<1>12. /\ requeued' = requeued \cup {j \in GivenOut : j = id}
       /\ dropped \subseteq dropped'
       /\ \A i \in DOMAIN queue' : queue'[i] = job \/ \E k \in DOMAIN queue : queue'[i] = queue[k]
       /\ \A k \in DOMAIN queue : queue[k].id \in dropped' \/ \E i \in DOMAIN queue' : queue'[i] = queue[k]
       /\ \E i \in DOMAIN queue' : queue'[i] = job
  BY <1>7, <1>11, EnqueueStep
<1>13. requeued' = {}
  BY <1>10, <1>12 DEF JobsInOrder
<1>14. \A other : Dated(other) => Dated(other)'
  BY <1>1, <1>2, <1>5 DEF Dated, Judging
<1>15. Dated(id)'
  BY <1>1, <1>2, <1>4, <1>5, <1>6, <1>8 DEF Dated, Judging
<1>16. markers[t] # NoMarker => markers[t].asOf = p.ts
  BY <1>1, <1>4, <1>6, MarkerFields DEF ToldInOrder, PutIsThere
<1>17. Reached(markers, id)'
  BY <1>1, <1>6, <1>8, <1>16 DEF Reached
<1>18. \A other : Reached(markers, other) => Reached(markers, other)'
  BY <1>1 DEF Reached
<1>19. GivenOut' = GivenOut
  BY <1>1 DEF GivenOut
<1>20. JobsInOrder'
  <2>1. \A other \in GivenOut' : Dated(other)' /\ Reached(markers, other)' /\ Reached(disk.markers, other)'
    BY <1>1, <1>14, <1>18, <1>19 DEF JobsInOrder, Reached
  <2>2. \A i \in DOMAIN queue' : \E other : other = queue'[i].id /\ Dated(other)' /\ Reached(markers, other)'
    BY <1>8, <1>12, <1>14, <1>15, <1>17, <1>18 DEF JobsInOrder
  <2>3. \A i \in DOMAIN disk'.queue : disk'.queue[i].id[3] <= bar'.ts /\ Reached(disk.markers, disk.queue[i].id)'
    BY <1>1 DEF JobsInOrder, Reached
  <2> QED
    BY <1>13, <2>1, <2>2, <2>3 DEF JobsInOrder
<1>21. ASSUME NEW u \in Theses PROVE Queued(markers, queue, dropped, u)'
  <2>1. CASE u = t
    <3>1. CASE markers[t] = m
      <4>1. id = JobId(t, m.fired, m.asOf)
        BY <1>4, <1>7 DEF SweepId
      <4> QED
        BY <1>1, <1>8, <1>12, <2>1, <3>1, <4>1 DEF Queued
    <3>2. CASE markers[t] # NoMarker /\ ~markers[t].stale
      BY <1>1, <2>1, <3>2 DEF Queued
    <3> QED
      BY <1>1, <1>4, <3>1, <3>2 DEF ToldInOrder, PutIsThere
  <2>2. CASE u # t
    <3>1. ~Queueing(u)
      BY <1>1, <1>4, <1>5, <2>2 DEF Queueing
    <3>2. Queued(markers, queue, dropped, u)
      BY <3>1 DEF StaleOK
    <3>3. ASSUME markers[u] # NoMarker, markers[u].stale, NEW j, j = JobId(u, markers[u].fired, markers[u].asOf)
          PROVE  (\E i \in DOMAIN queue' : queue'[i].id = j /\ queue'[i].state # "completed") \/ j \in dropped'
      <4>1. (\E i \in DOMAIN queue : queue[i].id = j /\ queue[i].state # "completed") \/ j \in dropped
        BY <3>2, <3>3 DEF Queued
      <4> QED
        BY <1>12, <4>1
    <3> QED
      BY <1>1, <3>3 DEF Queued
  <2> QED
    BY <2>1, <2>2
<1>22. StaleOK'
  BY <1>1, <1>21 DEF StaleOK, Queued
<1> QED
  BY <1>20, <1>22

\* A sweep ends, and what it did is written.
LEMMA FinishJobs ==
    ASSUME MonitorTypeOK, JobsInOrder, StaleOK, NEW s \in Sweepers, FinishTick(s), UNCHANGED cut, ~cut
    PROVE  JobsInOrder' /\ StaleOK'
<1>1. UNCHANGED <<bar, markers, queue, dropped, holds, acked, requeued>> /\ Written /\ sweep[s].phase = "judge"
  BY PersistStep DEF FinishTick, At, worldVars, queueVars, Written
<1>2. sweep'[s].phase = "rest" /\ \A o \in Sweepers \ {s} : sweep'[o] = sweep[o]
  BY DEF FinishTick, MonitorTypeOK, Resting
<1>3. bar.ts \in Nat
  BY DEF MonitorTypeOK, Points
<1>4. \A id \in AllIds : Dated(id) /\ Reached(markers, id) => Dated(id)' /\ Reached(markers, id)'
  BY <1>1, <1>2 DEF Dated, Judging, Reached
<1>5. JobsInOrder'
  BY <1>1, <1>3, <1>4, SameJobs
<1>6. \A t \in Theses : Queueing(t) => Queueing(t)'
  BY <1>1, <1>2 DEF Queueing
<1>7. StaleOK'
  BY <1>1, <1>6, SameStale DEF Queued
<1> QED
  BY <1>5, <1>7

\* A worker is given jobs of the queue, and answers for those it has.
LEMMA WorkerJobs ==
    ASSUME MonitorTypeOK, JobsInOrder, UNCHANGED <<bar, sweep, requeued>>,
           GivenOut' \subseteq GivenOut \cup {queue[i].id : i \in DOMAIN queue},
           \A i \in DOMAIN queue' : \E k \in DOMAIN queue : queue'[i].id = queue[k].id,
           \A t \in Theses : markers'[t] # NoMarker => markers[t] # NoMarker /\ markers'[t].asOf = markers[t].asOf,
           Written \/ (UNCHANGED disk /\ GivenOut' \subseteq GivenOut)
    PROVE  JobsInOrder'
<1>1. \A i \in DOMAIN queue : queue[i].id \in AllIds
  BY QueueFields, JobFields DEF MonitorTypeOK
<1>2. ASSUME NEW id \in AllIds PROVE (Dated(id) => Dated(id)') /\ (Reached(markers, id) => Reached(markers, id)')
  BY DEF Dated, Reached, AllIds
<1>3. \A id \in GivenOut \cup {queue[i].id : i \in DOMAIN queue} :
         id \in AllIds /\ Dated(id) /\ Reached(markers, id)
  BY <1>1, GivenOutFields DEF JobsInOrder
<1>4. \A id \in GivenOut' : Dated(id)' /\ Reached(markers, id)'
  BY <1>2, <1>3
<1>5. \A i \in DOMAIN queue' : \E id \in AllIds : id = queue'[i].id /\ Dated(id)' /\ Reached(markers, id)'
  BY <1>1, <1>2, <1>3
<1>6. CASE Written
  <2>1. \A id \in GivenOut' : Reached(disk.markers, id)'
    BY <1>4, <1>6 DEF Written, Reached
  <2>2. \A i \in DOMAIN disk'.queue : disk'.queue[i].id[3] <= bar'.ts /\ Reached(disk.markers, disk.queue[i].id)'
    BY <1>5, <1>6 DEF Written, Reached, Dated
  <2> QED
    BY <1>4, <1>5, <2>1, <2>2 DEF JobsInOrder
<1>7. CASE UNCHANGED disk /\ GivenOut' \subseteq GivenOut
  <2>1. \A id \in GivenOut' : Reached(disk.markers, id)'
    BY <1>7 DEF JobsInOrder, Reached
  <2>2. \A i \in DOMAIN disk'.queue : disk'.queue[i].id[3] <= bar'.ts /\ Reached(disk.markers, disk.queue[i].id)'
    BY <1>7 DEF JobsInOrder, Reached
  <2> QED
    BY <1>4, <1>5, <2>1, <2>2 DEF JobsInOrder
<1> QED
  BY <1>6, <1>7

\* A worker that lets go, or is given nothing, has no more than it had.
LEMMA LetGoGivenOut ==
    ASSUME MonitorTypeOK, NEW w \in Workers, holds' \in {holds, [holds EXCEPT ![w] = NoLease]}, acked' = acked
    PROVE  GivenOut' \subseteq GivenOut
<1>1. \A v \in Workers : holds'[v] # NoLease => holds'[v] = holds[v]
  BY DEF MonitorTypeOK
<1> QED
  BY <1>1 DEF GivenOut

\* A claim or a failure does not finish a job.
LEMMA ClaimJobs ==
    ASSUME MonitorTypeOK, JobsInOrder, StaleOK, NEW w \in Workers, LeaseResynth(w), UNCHANGED cut, ~cut
    PROVE  JobsInOrder' /\ StaleOK'
<1>1. UNCHANGED <<bar, sweep, markers, dropped, acked, requeued>> /\ Written
  BY PersistStep DEF LeaseResynth, worldVars, Written
<1>2. /\ queue' \in Seq(JobRecord) /\ Len(queue') = Len(queue)
      /\ \A i \in 1 .. Len(queue) :
            queue'[i].id = queue[i].id /\ (queue'[i].state = "completed" <=> queue[i].state = "completed")
  BY LeaseStep
<1>3. DOMAIN queue = 1 .. Len(queue) /\ DOMAIN queue' = DOMAIN queue
  BY <1>2, QueueFields DEF MonitorTypeOK
<1>4. GivenOut' \subseteq GivenOut \cup {queue[i].id : i \in DOMAIN queue}
  <2>1. CASE UNCHANGED holds
    BY <1>1, <2>1 DEF GivenOut
  <2>2. CASE \E n \in 1 .. Len(queue) :
               holds' = [holds EXCEPT ![w] = [token |-> leases + 1, id |-> queue[n].id, until |-> now + LeaseTime]]
    <3>1. PICK n \in DOMAIN queue :
            holds' = [holds EXCEPT ![w] = [token |-> leases + 1, id |-> queue[n].id, until |-> now + LeaseTime]]
      BY <1>3, <2>2
    <3>2. holds'[w].id = queue[n].id /\ \A v \in Workers \ {w} : holds'[v] = holds[v]
      BY <3>1 DEF MonitorTypeOK
    <3>3. \A v \in Workers : holds'[v] # NoLease => holds'[v].id \in GivenOut \cup {queue[i].id : i \in DOMAIN queue}
      BY <3>2 DEF GivenOut
    <3>4. \A a \in acked' : a[1] \in GivenOut
      BY <1>1 DEF GivenOut
    <3> QED
      BY <3>3, <3>4 DEF GivenOut
  <2> QED
    BY <2>1, <2>2, LeaseStep
<1>5. JobsInOrder'
  BY <1>1, <1>2, <1>3, <1>4, WorkerJobs
<1>6. \A t \in Theses : Queueing(t) => Queueing(t)'
  BY <1>1 DEF Queueing
<1>7. \A t \in Theses : Queued(markers, queue, dropped, t) => Queued(markers, queue, dropped, t)'
  <2>1. \A id : (\E i \in DOMAIN queue : queue[i].id = id /\ queue[i].state # "completed")
                  => \E i \in DOMAIN queue' : queue'[i].id = id /\ queue'[i].state # "completed"
    BY <1>2, <1>3
  <2> QED
    BY <1>1, <2>1 DEF Queued
<1>8. StaleOK'
  BY <1>1, <1>6, <1>7, SameStale
<1> QED
  BY <1>5, <1>8

\* A failure keeps the jobs in order.
LEMMA FailJobs ==
    ASSUME MonitorTypeOK, JobsInOrder, StaleOK, NEW w \in Workers, FailResynth(w), UNCHANGED cut, ~cut
    PROVE  JobsInOrder' /\ StaleOK'
<1>1. UNCHANGED <<bar, sweep, markers, dropped, acked, requeued>> /\ Written
  BY PersistStep DEF FailResynth, worldVars, Written
<1>2. /\ holds' = [holds EXCEPT ![w] = NoLease]
      /\ queue' \in Seq(JobRecord) /\ Len(queue') = Len(queue)
      /\ \A k \in DOMAIN queue : queue'[k].id = queue[k].id /\ (queue[k].state # "completed" => queue'[k].state # "completed")
  BY FailStep
<1>3. DOMAIN queue' = DOMAIN queue
  BY <1>2, QueueFields DEF MonitorTypeOK
<1>4. GivenOut' \subseteq GivenOut
  BY <1>1, <1>2, LetGoGivenOut
<1>5. JobsInOrder'
  BY <1>1, <1>2, <1>3, <1>4, WorkerJobs
<1>6. \A t \in Theses : Queueing(t) => Queueing(t)'
  BY <1>1 DEF Queueing
<1>7. \A t \in Theses : Queued(markers, queue, dropped, t) => Queued(markers, queue, dropped, t)'
  <2>1. \A id : (\E i \in DOMAIN queue : queue[i].id = id /\ queue[i].state # "completed")
                  => \E i \in DOMAIN queue' : queue'[i].id = id /\ queue'[i].state # "completed"
    BY <1>2, <1>3
  <2> QED
    BY <1>1, <2>1 DEF Queued
<1>8. StaleOK'
  BY <1>1, <1>6, <1>7, SameStale
<1> QED
  BY <1>5, <1>8

\* A worker that lets go changes nothing about the jobs.
LEMMA AbandonJobs ==
    ASSUME MonitorTypeOK, JobsInOrder, StaleOK, NEW w \in Workers, Abandon(w)
    PROVE  JobsInOrder' /\ StaleOK'
<1>1. UNCHANGED <<bar, sweep, markers, queue, dropped, acked, requeued, disk>> /\ holds' = [holds EXCEPT ![w] = NoLease]
  BY DEF Abandon, worldVars
<1>2. GivenOut' \subseteq GivenOut
  BY <1>1, LetGoGivenOut
<1>3. JobsInOrder'
  BY <1>1, <1>2, WorkerJobs
<1>4. StaleOK'
  BY <1>1, SameStale DEF Queued, Queueing
<1> QED
  BY <1>3, <1>4

\* A finished job leaves no marker stale that it was queued for.
LEMMA CompleteJobs ==
    ASSUME MonitorTypeOK, LeasesOK, JobsInOrder, StaleOK, NEW w \in Workers, CompleteResynth(w), UNCHANGED cut, ~cut
    PROVE  JobsInOrder' /\ StaleOK'
<1>1. UNCHANGED <<bar, sweep, dropped, requeued>>
  BY DEF CompleteResynth, worldVars
<1>2. PICK i \in DOMAIN queue :
        /\ holds[w] # NoLease /\ queue[i].id = holds[w].id
        /\ acked' = acked \cup {<<queue[i].id, w>>}
        /\ holds' = [holds EXCEPT ![w] = NoLease] \/ holds' = holds
        /\ \/ queue[i].state = "completed" /\ UNCHANGED <<queue, markers, disk, cut>>
           \/ /\ queue[i].state = "processing" /\ PersistAll
              /\ queue' \in Seq(JobRecord) /\ Len(queue') = Len(queue)
              /\ \A k \in DOMAIN queue : queue'[k].id = queue[k].id /\ (k # i => queue'[k] = queue[k])
              /\ LET t == queue[i].id[1]
                     rebase == markers[t] # NoMarker /\ markers[t].stale /\ markers[t].asOf = queue[i].asOf
                 IN  markers' = IF rebase THEN [markers EXCEPT ![t] = Rebased(@)] ELSE markers
  BY CompleteStep
<1>3. GivenOut' \subseteq GivenOut
  <2>1. \A v \in Workers : holds'[v] # NoLease => holds'[v] = holds[v]
    BY <1>2 DEF MonitorTypeOK
  <2>2. queue[i].id \in GivenOut
    BY <1>2 DEF GivenOut
  <2>3. \A a \in acked' : a \in acked \/ a[1] = queue[i].id
    BY <1>2
  <2> QED
    BY <2>1, <2>2, <2>3 DEF GivenOut
<1>4. CASE UNCHANGED <<queue, markers, disk>>
  <2>1. JobsInOrder'
    BY <1>1, <1>3, <1>4, WorkerJobs
  <2>2. StaleOK'
    BY <1>1, <1>4, SameStale DEF Queued, Queueing
  <2> QED
    BY <2>1, <2>2
<1>5. CASE /\ PersistAll /\ queue' \in Seq(JobRecord) /\ Len(queue') = Len(queue)
           /\ \A k \in DOMAIN queue : queue'[k].id = queue[k].id /\ (k # i => queue'[k] = queue[k])
           /\ LET t == queue[i].id[1]
                  rebase == markers[t] # NoMarker /\ markers[t].stale /\ markers[t].asOf = queue[i].asOf
              IN  markers' = IF rebase THEN [markers EXCEPT ![t] = Rebased(@)] ELSE markers
  <2>1. Written /\ DOMAIN queue' = DOMAIN queue
    BY <1>5, PersistStep, QueueFields DEF Written, MonitorTypeOK
  <2>2. queue[i].id \in AllIds
    BY QueueFields, JobFields DEF MonitorTypeOK
  <2>3. PICK t \in Theses : t = queue[i].id[1]
    BY <2>2 DEF AllIds
  <2>4. \/ /\ markers[t] # NoMarker /\ markers[t].asOf = queue[i].asOf
           /\ markers' = [markers EXCEPT ![t] = Rebased(@)]
        \/ /\ UNCHANGED markers
           /\ ~(markers[t] # NoMarker /\ markers[t].stale /\ markers[t].asOf = queue[i].asOf)
    BY <1>5, <2>3
  <2>5. markers \in [Theses -> MarkerRecord \cup {NoMarker}]
    BY DEF MonitorTypeOK, Books
  <2>6. \A u \in Theses : \/ markers'[u] = markers[u]
                          \/ markers[u] \in MarkerRecord /\ markers'[u] = Rebased(markers[u]) /\ u = t
    BY <2>4, <2>5
  <2>7. \A u \in Theses : markers'[u] # NoMarker => markers[u] # NoMarker /\ markers'[u].asOf = markers[u].asOf
    BY <2>6, RebasedMarker, MarkerFields
  <2>8. JobsInOrder'
    <3>1. \A k \in DOMAIN queue' : \E n \in DOMAIN queue : queue'[k].id = queue[n].id
      BY <1>5, <2>1
    <3> QED
      BY <1>1, <1>3, <2>1, <2>7, <3>1, WorkerJobs
  <2>9. queue[i].asOf = queue[i].id[3]
    BY DEF LeasesOK, QueueOK, JobOK
  <2>10. ASSUME NEW u \in Theses, Queued(markers, queue, dropped, u) PROVE Queued(markers, queue, dropped, u)'
    <3>1. CASE markers'[u] = Rebased(markers[u]) /\ markers[u] \in MarkerRecord
      BY <3>1, RebasedMarker DEF Queued
    <3>2. CASE markers'[u] = markers[u] /\ ~(markers[u] # NoMarker /\ markers[u].stale)
      BY <3>2 DEF Queued
    <3>3. CASE /\ markers'[u] = markers[u] /\ markers[u] # NoMarker /\ markers[u].stale
               /\ ~(u = t /\ markers[u].asOf = queue[i].asOf)
      <4>1. PICK id : id = JobId(u, markers[u].fired, markers[u].asOf)
        OBVIOUS
      <4>2. (\E k \in DOMAIN queue : queue[k].id = id /\ queue[k].state # "completed") \/ id \in dropped
        BY <2>10, <3>3, <4>1 DEF Queued
      <4>3. queue[i].id # id
        BY <2>3, <2>9, <3>3, <4>1 DEF JobId
      <4>4. (\E k \in DOMAIN queue' : queue'[k].id = id /\ queue'[k].state # "completed") \/ id \in dropped'
        BY <1>1, <1>5, <2>1, <4>2, <4>3
      <4> QED
        BY <3>3, <4>1, <4>4 DEF Queued
    <3>4. CASE markers[t] # NoMarker /\ markers' = [markers EXCEPT ![t] = Rebased(@)] /\ u = t
      <4>1. markers'[u] = Rebased(markers[u]) /\ markers[u] \in MarkerRecord
        BY <2>5, <3>4
      <4> QED
        BY <3>1, <4>1
    <3>5. CASE u # t
      <4>1. markers'[u] = markers[u]
        BY <2>6, <3>5
      <4> QED
        BY <3>2, <3>3, <3>5, <4>1
    <3>6. CASE u = t /\ UNCHANGED markers
               /\ ~(markers[t] # NoMarker /\ markers[t].stale /\ markers[t].asOf = queue[i].asOf)
      BY <3>2, <3>3, <3>6
    <3> QED
      BY <2>4, <3>4, <3>5, <3>6
  <2>11. \A u \in Theses : Queueing(u) => Queueing(u)'
    BY <1>1 DEF Queueing
  <2>12. StaleOK'
    BY <2>1, <2>10, <2>11, SameStale
  <2> QED
    BY <2>8, <2>12
<1> QED
  BY <1>2, <1>4, <1>5

\* A start finds what was written, or nothing.
LEMMA RestartJobs ==
    ASSUME MonitorTypeOK, JobsInOrder, StaleOK, RestartMonitor, ~disk.torn
    PROVE  JobsInOrder' /\ StaleOK'
<1>1. UNCHANGED <<bar, disk, holds, acked, requeued>>
  BY DEF RestartMonitor, worldVars
<1>2. \A s \in Sweepers : sweep'[s].phase = "rest"
  BY DEF RestartMonitor, Resting
<1>3. \/ markers' = disk.markers /\ queue' = disk.queue /\ dropped' = disk.dropped
      \/ markers' = [t \in Theses |-> NoMarker] /\ queue' = <<>>
  BY DEF RestartMonitor
<1>4. \A id : id[3] <= bar.ts => Dated(id)'
  BY <1>1, <1>2 DEF Dated, Judging
<1>5. GivenOut' = GivenOut /\ GivenOut \subseteq AllIds
  BY <1>1, GivenOutFields DEF GivenOut
<1>6. \A id \in AllIds : Reached(disk.markers, id) => Reached(markers, id)' /\ Reached(disk.markers, id)'
  BY <1>1, <1>3 DEF Reached, AllIds
<1>7. \A id \in GivenOut' : Dated(id)' /\ Reached(markers, id)' /\ Reached(disk.markers, id)'
  BY <1>4, <1>5, <1>6 DEF JobsInOrder, Dated
<1>8. \A i \in DOMAIN disk.queue : disk.queue[i].id \in AllIds
  BY QueueFields, JobFields DEF MonitorTypeOK
<1>9. \A i \in DOMAIN disk'.queue : disk'.queue[i].id[3] <= bar'.ts /\ Reached(disk.markers, disk.queue[i].id)'
  BY <1>1 DEF JobsInOrder, Reached
<1>10. \A i \in DOMAIN queue' : \E id : id = queue'[i].id /\ Dated(id)' /\ Reached(markers, id)'
  <2>1. CASE queue' = disk.queue
    BY <1>4, <1>6, <1>8, <2>1 DEF JobsInOrder
  <2>2. CASE queue' = <<>>
    BY <2>2
  <2> QED
    BY <1>3, <2>1, <2>2
<1>11. JobsInOrder'
  BY <1>1, <1>7, <1>9, <1>10 DEF JobsInOrder
<1>12. \A t \in Theses : Queued(disk.markers, disk.queue, disk.dropped, t)
  BY DEF StaleOK
<1>13. \A t \in Theses : Queued(markers, queue, dropped, t)' /\ Queued(disk.markers, disk.queue, disk.dropped, t)'
  BY <1>1, <1>3, <1>12 DEF Queued
<1> QED
  BY <1>11, <1>13 DEF StaleOK

\* A new bar, or a review, is about no job.
LEMMA WorldJobs ==
    ASSUME MonitorTypeOK, MonitorTypeOK', JobsInOrder, StaleOK, NextDay \/ \E t \in Theses : ReviewThesis(t)
    PROVE  JobsInOrder' /\ StaleOK'
<1>1. UNCHANGED <<queue, dropped, holds, acked, requeued, markers, disk, sweep>>
  BY DEF NextDay, ReviewThesis, queueVars
<1>2. bar'.ts \in Nat /\ bar.ts \in Nat
  BY DEF MonitorTypeOK, Points
<1>3. bar.ts <= bar'.ts
  <2>1. bar.ts <= now /\ now \in Nat
    BY DEF MonitorTypeOK
  <2>2. CASE UNCHANGED bar
    BY <1>2, <2>2
  <2>3. CASE now' = now + 1 /\ \E px \in Prices : bar' = [ts |-> now', px |-> px]
    <3>1. bar'.ts = now'
      BY <2>3
    <3> QED
      BY <1>2, <2>1, <2>3, <3>1
  <2>4. CASE NextDay
    BY <2>2, <2>3, <2>4 DEF NextDay
  <2>5. CASE \E t \in Theses : ReviewThesis(t)
    BY <2>2, <2>5 DEF ReviewThesis
  <2> QED
    BY <2>4, <2>5
<1>4. \A id \in AllIds : Dated(id) /\ Reached(markers, id) => Dated(id)' /\ Reached(markers, id)'
  BY <1>1, <1>2, <1>3 DEF Dated, Reached, AllIds
<1>5. JobsInOrder'
  BY <1>1, <1>2, <1>3, <1>4, SameJobs
<1>6. StaleOK'
  BY <1>1, SameStale DEF Queued, Queueing
<1> QED
  BY <1>5, <1>6

-----------------------------------------------------------------------------
(* The invariant *)

\* Two sweeps have run at once, and a write has failed, for good.
LEMMA NoWayBack ==
    ASSUME MonitorNext, cut \in BOOLEAN, overlapped \in BOOLEAN
    PROVE  /\ cut' \in BOOLEAN /\ overlapped' \in BOOLEAN
           /\ ~cut' => ~cut /\ cut' = cut
           /\ ~overlapped' => ~overlapped
<1>1. PersistAll => UNCHANGED cut \/ cut' = TRUE
  BY DEF PersistAll
<1>2. \/ UNCHANGED overlapped
      \/ \E s \in Sweepers : overlapped' = (overlapped \/ \E o \in Sweepers \ {s} : sweep[o] # Resting)
  BY DEF MonitorNext, FetchTheses, ReadBar, Judge, PutMarker, Enqueue, FinishTick, LeaseResynth,
         CompleteResynth, FailResynth, Abandon, NextDay, RestartMonitor, ReviewThesis
<1>3. UNCHANGED cut \/ cut' = TRUE \/ cut' = (cut \/ disk.torn)
  BY <1>1 DEF MonitorNext, FetchTheses, ReadBar, Judge, PutMarker, Enqueue, FinishTick, LeaseResynth,
         CompleteResynth, FailResynth, Abandon, NextDay, RestartMonitor, ReviewThesis
<1> QED
  BY <1>2, <1>3

\* Before anything happens everything is in order.
LEMMA MonitorStart == MonitorInit => MonitorInv
<1> SUFFICES ASSUME MonitorInit PROVE MonitorInv
  OBVIOUS
<1>1. /\ now = 1 /\ markers = [t \in Theses |-> NoMarker] /\ queue = <<>> /\ dropped = {}
      /\ sweep = [s \in Sweepers |-> Resting] /\ holds = [w \in Workers |-> NoLease]
      /\ leases = 0 /\ acked = {} /\ requeued = {} /\ pinged = [t \in Theses |-> Silent]
      /\ overlapped = FALSE /\ cut = FALSE /\ disk = Memory
  BY DEF MonitorInit
<1>2. disk.markers = markers /\ disk.queue = queue /\ disk.dropped = dropped
  BY <1>1 DEF Memory
<1>3. bar \in Points /\ bar.ts = 1
  BY MonitorAssumption DEF MonitorInit, Points
<1>4. \A s \in Sweepers : SweepOK(s) /\ sweep[s] = Resting /\ sweep[s].phase = "rest"
  BY <1>1 DEF SweepOK, Resting, Judging
<1>5. MonitorTypeOK
  BY <1>1, <1>2, <1>3, <1>4, EmptySeq DEF MonitorTypeOK, Books
<1>6. InOrder
  BY <1>1, <1>2, <1>4 DEF InOrder, OneAtATime, BookOK, SweepsInOrder, Judging
<1>7. ToldInOrder
  BY <1>1, <1>4 DEF ToldInOrder, MarkersFollow, NextIsNew, PutIsThere, LastTold, Silent
<1>8. LeasesOK
  BY <1>1, <1>2 DEF LeasesOK, Tokens, QueueOK, OneHolder, OneAnswer, Runs
<1>9. JobsInOrder
  BY <1>1, <1>2 DEF JobsInOrder, GivenOut
<1>10. StaleOK
  BY <1>1, <1>2 DEF StaleOK, Queued
<1> QED
  BY <1>1, <1>5, <1>6, <1>7, <1>8, <1>9, <1>10 DEF MonitorInv

\* The sweeps stay in order as long as no two of them overlap.
LEMMA OrderStep ==
    ASSUME MonitorTypeOK, MonitorTypeOK', InOrder, ToldInOrder, MonitorNext, ~overlapped'
    PROVE  InOrder' /\ ToldInOrder'
<1>1. ASSUME NEW s \in Sweepers,
             FetchTheses(s) \/ ReadBar(s) \/ Judge(s) \/ PutMarker(s) \/ Enqueue(s) \/ FinishTick(s)
      PROVE  InOrder' /\ ToldInOrder'
  BY <1>1, FetchOrder, ReadOrder, JudgeOrder, PutOrder, EnqueueOrder, FinishOrder
<1>2. ASSUME NEW w \in Workers, LeaseResynth(w) \/ FailResynth(w) \/ Abandon(w)
      PROVE  InOrder' /\ ToldInOrder'
  BY <1>2, SameOrder DEF LeaseResynth, FailResynth, Abandon, worldVars
<1>3. ASSUME NEW t \in Theses, ReviewThesis(t)
      PROVE  InOrder' /\ ToldInOrder'
  BY <1>3, SameOrder DEF ReviewThesis
<1> QED
  BY <1>1, <1>2, <1>3, CompleteOrder, DayOrder, RestartOrder DEF MonitorNext

\* The leases stay in order as long as every write succeeds.
LEMMA LeasesStep ==
    ASSUME MonitorTypeOK, MonitorTypeOK', LeasesOK, MonitorNext, ~cut, UNCHANGED cut
    PROVE  LeasesOK'
<1>0. now \in Nat /\ now' \in Nat
  BY DEF MonitorTypeOK
<1>1. ASSUME NEW s \in Sweepers, FetchTheses(s) \/ ReadBar(s) \/ Judge(s) \/ PutMarker(s)
      PROVE  LeasesOK'
  <2>1. UNCHANGED <<now, queueVars, disk>>
    BY <1>1 DEF FetchTheses, ReadBar, Judge, PutMarker, worldVars
  <2> QED
    BY <1>0, <2>1, SameLeases
<1>2. ASSUME NEW s \in Sweepers, FinishTick(s)
      PROVE  LeasesOK'
  <2>1. UNCHANGED <<now, queueVars>> /\ disk'.queue = queue'
    BY <1>2, PersistStep DEF FinishTick, worldVars
  <2> QED
    BY <1>0, <2>1, SameLeases
<1>3. ASSUME NEW w \in Workers, LeaseResynth(w) \/ CompleteResynth(w) \/ FailResynth(w) \/ Abandon(w)
      PROVE  LeasesOK'
  BY <1>3, ClaimLeases, CompleteLeases, FailLeases, AbandonLeases
<1>4. ASSUME NextDay \/ \E t \in Theses : ReviewThesis(t)
      PROVE  LeasesOK'
  <2>1. UNCHANGED <<queueVars, disk>> /\ (now' = now + 1 \/ UNCHANGED now)
    <3>1. CASE NextDay
      BY <3>1 DEF NextDay
    <3>2. CASE \E t \in Theses : ReviewThesis(t)
      BY <3>2 DEF ReviewThesis
    <3> QED
      BY <1>4, <3>1, <3>2
  <2> QED
    BY <1>0, <2>1, SameLeases
<1> QED
  BY <1>1, <1>2, <1>3, <1>4, EnqueueLeases, RestartLeases DEF MonitorNext

\* The jobs stay in order with both.
LEMMA JobsStep ==
    ASSUME MonitorTypeOK, MonitorTypeOK', InOrder, ToldInOrder, LeasesOK, JobsInOrder, StaleOK,
           MonitorNext, ~cut, UNCHANGED cut
    PROVE  JobsInOrder' /\ StaleOK'
<1>1. ASSUME NEW s \in Sweepers,
             FetchTheses(s) \/ ReadBar(s) \/ Judge(s) \/ PutMarker(s) \/ Enqueue(s) \/ FinishTick(s)
      PROVE  JobsInOrder' /\ StaleOK'
  BY <1>1, StartJobs, JudgeJobs, PutJobs, EnqueueJobs, FinishJobs
<1>2. ASSUME NEW w \in Workers, LeaseResynth(w) \/ CompleteResynth(w) \/ FailResynth(w) \/ Abandon(w)
      PROVE  JobsInOrder' /\ StaleOK'
  BY <1>2, ClaimJobs, CompleteJobs, FailJobs, AbandonJobs
<1>3. ASSUME RestartMonitor
      PROVE  JobsInOrder' /\ StaleOK'
  <2>0. cut' = (cut \/ disk.torn)
    BY <1>3 DEF RestartMonitor
  <2>1. ~disk.torn
    <3>1. cut' = cut
      OBVIOUS
    <3>2. (cut \/ disk.torn) = cut
      BY <2>0, <3>1, Zenon
    <3> QED
      BY <3>2, Zenon
  <2> QED
    BY <1>3, <2>1, RestartJobs
<1> QED
  BY <1>1, <1>2, <1>3, WorldJobs DEF MonitorNext

\* Every step keeps the invariant.
LEMMA MonitorStep == MonitorInv /\ [MonitorNext]_monitorVars => MonitorInv'
<1> SUFFICES ASSUME MonitorInv, [MonitorNext]_monitorVars PROVE MonitorInv'
  OBVIOUS
<1>1. CASE MonitorNext
  <2>1. MonitorTypeOK /\ cut \in BOOLEAN /\ overlapped \in BOOLEAN
    BY DEF MonitorInv
  <2>2. MonitorTypeOK'
    BY <1>1, <2>1, SweepTypes, WorkerTypes, WorldTypes DEF MonitorNext
  <2>3. /\ cut' \in BOOLEAN /\ overlapped' \in BOOLEAN
        /\ ~cut' => ~cut /\ cut' = cut
        /\ ~overlapped' => ~overlapped
    BY <1>1, <2>1, NoWayBack
  <2>4. ~overlapped' => InOrder' /\ ToldInOrder'
    BY <1>1, <2>1, <2>2, <2>3, OrderStep DEF MonitorInv
  <2>5. ~cut' => LeasesOK'
    BY <1>1, <2>1, <2>2, <2>3, LeasesStep DEF MonitorInv
  <2>6. ~cut' /\ ~overlapped' => JobsInOrder' /\ StaleOK'
    BY <1>1, <2>1, <2>2, <2>3, JobsStep DEF MonitorInv
  <2> QED
    BY <2>2, <2>3, <2>4, <2>5, <2>6 DEF MonitorInv
<1>2. CASE UNCHANGED monitorVars
  <2> USE <1>2 DEF MonitorInv, monitorVars
  <2>1. MonitorTypeOK'
    <3>1. UNCHANGED sweep
      OBVIOUS
    <3>2. DOMAIN sweep' = Sweepers /\ \A o \in Sweepers : SweepOK(o)'
      BY <3>1, SameSweeps
    <3> QED
      BY <3>2 DEF MonitorTypeOK
  <2>2. InOrder /\ ToldInOrder => InOrder' /\ ToldInOrder'
    BY SameOrder
  <2>3. LeasesOK => LeasesOK'
    <3>1. now \in Nat
      BY DEF MonitorTypeOK
    <3> QED
      BY <3>1, SameLeases DEF queueVars
  <2>4. JobsInOrder => JobsInOrder'
    BY WorkerJobs DEF GivenOut
  <2>5. StaleOK => StaleOK'
    BY SameStale DEF Queued, Queueing
  <2> QED
    BY <2>1, <2>2, <2>3, <2>4, <2>5
<1> QED
  BY <1>1, <1>2

\* The invariant holds throughout.
LEMMA MonitorAlways == MonitorSpec => []MonitorInv
BY MonitorStart, MonitorStep, PTL DEF MonitorSpec

(***************************************************************************)
(* A job is one worker's (JobIsOneWorkers, of run Alerts): as long as the  *)
(* writes succeed, no two workers hold running leases of one job or are    *)
(* both acknowledged for it, unless sweeps that overlapped queued it again.*)
(***************************************************************************)
THEOREM MonitorJobIsOneWorkers == MonitorSpec => []JobIsOneWorkers
<1>1. MonitorInv => JobIsOneWorkers
  BY DEF MonitorInv, JobIsOneWorkers, LeasesOK, OneHolder, OneAnswer, JobsInOrder
<1> QED
  BY <1>1, MonitorAlways, PTL

(***************************************************************************)
(* What a sweep finds is acted on, and once (StaleIsSeenOnce, of run       *)
(* Alerts), for sweeps that do not overlap: a thesis that is marked stale  *)
(* has a job that is not done, or had one that the full queue dropped, and *)
(* is not notified of twice in a row of one condition.                     *)
(***************************************************************************)
THEOREM MonitorStaleIsSeenOnce == MonitorSpec => []StaleIsSeenOnce
<1>1. ASSUME MonitorInv PROVE StaleIsQueued
  <2>1. CASE overlapped \/ cut
    BY <2>1 DEF StaleIsQueued
  <2>2. CASE ~overlapped /\ ~cut
    BY <1>1, <2>2 DEF MonitorInv, StaleOK, StaleIsQueued, Queued, Queueing
  <2> QED
    BY <2>1, <2>2
<1>2. ASSUME MonitorInv PROVE NotifiedOnce
  BY <1>2 DEF MonitorInv, ToldInOrder, MarkersFollow, NotifiedOnce
<1> QED
  BY <1>1, <1>2, MonitorAlways, PTL DEF StaleIsSeenOnce
=============================================================================
