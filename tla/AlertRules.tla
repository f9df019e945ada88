------------------------------- MODULE AlertRules -------------------------------
(***************************************************************************)
(* The alerts service's rules, events and read marks (alerts/store.go,     *)
(* eval.go, rules.go, handlers.go, postgres.go): an evaluation pass works  *)
(* on a copy of the rules, saves the edge memory of all of them at once    *)
(* and then appends its events one by one, while users create, edit and    *)
(* delete rules and mark events as read.                                   *)
(*                                                                         *)
(* A signal is above or below ("a", "b"); the ten rule types are four      *)
(* kinds by what they remember: "enter" (price, RSI, day move, calendar,   *)
(* a one-shot review), "turn" (MACD, VWAP, conflicts), "change" (trend,    *)
(* filings) and "cadence" (a recurring review).                            *)
(***************************************************************************)
EXTENDS Integers, Sequences, FiniteSets, Functions

CONSTANTS
    RuleIds,        \* ids that may be handed out
    Kinds,          \* the kinds of rule a user creates
    Editors,        \* PATCH requests that may be in flight together
    Cooldown,       \* cooldownSec
    Period,         \* everyDays
    StorageFaults,  \* "refuse": an error and nothing written; "lost": written, and an error;
                    \* "append": an event that is not written
    MaxClock, MaxPasses, MaxEdits, MaxStops   \* bounds

ASSUME RulesAssumption ==
    /\ Kinds \subseteq {"enter", "turn", "change", "cadence"}
    /\ StorageFaults \subseteq {"refuse", "lost", "append"}
    /\ {Cooldown, Period} \subseteq Nat \ {0}
    /\ {MaxClock, MaxPasses, MaxEdits, MaxStops} \subseteq Nat

Values == {"a", "b"}
NoState == "nil"

\* A rule; `last` is LastTriggered (0: never), `born` CreatedAt.
Rule == [kind : Kinds, target : Values, active : BOOLEAN,
         state : Values \cup {NoState}, last : 0 .. MaxClock, born : 1 .. MaxClock]

NoPass == [phase |-> "idle"]
NoCopy == [id |-> "none"]

VARIABLES
    clock,
    rules,      \* memory: id -> rule
    saved,      \* durable: the same, as last written
    events,     \* durable: the events, oldest first
    marks,      \* memory: [upTo |-> watermark, ids |-> indices of events marked one by one]
    savedMarks, \* durable: the same
    pass,       \* the evaluator's pass
    edit,       \* the copy each PATCH request has read
    passes, edits, stops,   \* bounds
    rearmed,    \* history: the targets of a rule that were seen off since its last event about them, or
                \* whose edge memory an edit has replaced
    lost,       \* history: firings whose event was not written
    deleted,    \* history: rules whose deletion was acknowledged
    issued      \* history: the ids that were handed out; they are random

userVars == <<rules, saved, edit, edits, deleted, issued>>
markVars == <<marks, savedMarks>>
ruleVars == <<clock, rules, saved, events, marks, savedMarks, pass, edit, passes, edits, stops,
              rearmed, lost, deleted, issued>>

-----------------------------------------------------------------------------
(* Evaluation *)

\* A signal that cannot be read leaves its rule alone.
Signals == Values \cup {"unknown"}

\* enterRegion, enterBool: on the target side and not there before; the first look may fire.
Enters(rule, seen) == seen = rule.target /\ rule.state # rule.target

\* transitionTo: an observed turn into the target.
Turns(rule, seen) == rule.state # NoState /\ Enters(rule, seen)

\* A trend, or the newest filing, other than the last one.
Changes(rule, seen) == rule.state \notin {NoState, seen}

\* Due of a recurring review: measured from the last firing, or from creation.
CadenceDue(rule, at) == at - (IF rule.last = 0 THEN rule.born ELSE rule.last) >= Period

Fires(rule, seen, at) ==
    CASE rule.kind = "enter"   -> Enters(rule, seen)
      [] rule.kind = "turn"    -> Turns(rule, seen)
      [] rule.kind = "change"  -> Changes(rule, seen)
      [] rule.kind = "cadence" -> CadenceDue(rule, at)

StateAfter(rule, seen, at) ==
    IF rule.kind = "cadence" THEN (IF CadenceDue(rule, at) THEN "a" ELSE "b") ELSE seen

Cooled(rule, at) == rule.last = 0 \/ at - rule.last >= Cooldown

\* evalUpdate: the edge memory always advances, the cooldown only with an event.
Update(rule, seen, at) ==
    [state |-> StateAfter(rule, seen, at),
     last |-> IF Fires(rule, seen, at) /\ Cooled(rule, at) THEN at ELSE rule.last]

Changed(rule, update) == update.state # rule.state \/ update.last # rule.last

\* The conditions that are off, as this pass saw it.
SeenOff(rule, seen) ==
    IF rule.kind = "change" THEN {t \in Values : rule.state # seen} ELSE Values \ {seen}

\* evalAll: the copy, the signals (one that cannot be read leaves its rule alone), the updates.
StartPass ==
    /\ pass = NoPass /\ passes < MaxPasses
    /\ passes' = passes + 1
    /\ \E seen \in [DOMAIN rules -> Signals] :
        LET judged == {id \in DOMAIN rules :
                          rules[id].active /\ (rules[id].kind = "cadence" \/ seen[id] # "unknown")}
            update == [id \in judged |-> Update(rules[id], seen[id], clock)]
            firing == {id \in judged : Fires(rules[id], seen[id], clock) /\ Cooled(rules[id], clock)}
        IN  /\ pass' = [phase |-> "save", at |-> clock, firing |-> firing,
                        targets |-> [id \in firing |-> rules[id].target],
                        updates |-> Restrict(update, {id \in judged : Changed(rules[id], update[id])
                                                                      \/ id \in firing})]
            /\ rearmed' = [id \in RuleIds |->
                             rearmed[id] \cup IF id \in judged THEN SeenOff(rules[id], seen[id]) ELSE {}]
    /\ UNCHANGED <<clock, events, lost, stops, userVars, markVars>>

-----------------------------------------------------------------------------
(* The store *)

\* persistRulesLocked: all rules at once; on an error memory goes back.
Persist(new) ==
    \/ rules' = new /\ saved' = new
    \/ "refuse" \in StorageFaults /\ UNCHANGED <<rules, saved>>
    \/ "lost" \in StorageFaults /\ saved' = new /\ UNCHANGED rules

Acknowledged(new) == rules' = new

\* ApplyEvalUpdates: by id, onto the rules as they are now.
Updated(updates) ==
    [id \in DOMAIN rules |->
        IF id \in DOMAIN updates
        THEN [rules[id] EXCEPT !.state = updates[id].state, !.last = updates[id].last]
        ELSE rules[id]]

\* The pass is saved before any event of it is appended; on an error it ends.
SavePass ==
    /\ pass.phase = "save"
    /\ LET new == Updated(pass.updates)
           onward == IF pass.firing = {} THEN NoPass
                     ELSE [phase |-> "append", at |-> pass.at, firing |-> pass.firing, targets |-> pass.targets,
                           armed |-> {id \in pass.firing : pass.targets[id] \in rearmed[id]}]
       IN  \/ new = rules /\ pass' = onward /\ UNCHANGED <<rules, saved, rearmed>>
           \/ /\ new # rules /\ Persist(new)
              /\ pass' = IF Acknowledged(new) THEN onward ELSE NoPass
              /\ rearmed' = IF Acknowledged(new)
                            THEN [id \in RuleIds |-> rearmed[id] \ IF id \in pass.firing THEN {pass.targets[id]} ELSE {}]
                            ELSE rearmed
    /\ UNCHANGED <<clock, events, passes, stops, lost, edit, edits, deleted, issued, markVars>>

EventOf(id) == [rule |-> id, ts |-> pass.at, target |-> pass.targets[id], rearmed |-> id \in pass.armed]

\* AppendEvent and Notify, in the order of the pass; one that fails is given up.
AppendFired ==
    /\ pass.phase = "append"
    /\ \E id \in pass.firing :
        /\ \/ events' = Append(events, EventOf(id)) /\ UNCHANGED lost
           \/ /\ "append" \in StorageFaults
              /\ lost' = lost \cup {<<id, pass.at>>}
              /\ UNCHANGED events
        /\ pass' = IF pass.firing = {id} THEN NoPass ELSE [pass EXCEPT !.firing = @ \ {id}]
    /\ UNCHANGED <<clock, passes, stops, rearmed, userVars, markVars>>

-----------------------------------------------------------------------------
(* Requests *)

NewRule(kind, target) ==
    [kind |-> kind, target |-> target, active |-> TRUE, state |-> NoState, last |-> 0, born |-> clock]

\* handleCreateRule, AddRule.
CreateRule ==
    /\ edits < MaxEdits /\ edits' = edits + 1
    /\ \E id \in RuleIds \ issued, kind \in Kinds, target \in Values :
        LET new == [i \in DOMAIN rules \cup {id} |-> IF i = id THEN NewRule(kind, target) ELSE rules[i]]
        IN  /\ Persist(new)
            /\ issued' = issued \cup {id}
    /\ UNCHANGED <<clock, events, pass, edit, passes, stops, rearmed, lost, deleted, markVars>>

\* handleUpdateRule reads the rule ...
ReadRule(c) ==
    /\ edit[c] = NoCopy /\ edits < MaxEdits
    /\ \E id \in DOMAIN rules : edit' = [edit EXCEPT ![c] = [id |-> id, rule |-> rules[id]]]
    /\ edits' = edits + 1
    /\ UNCHANGED <<clock, rules, saved, events, pass, passes, stops, rearmed, lost, deleted, issued, markVars>>

\* ... merges: new parameters re-baseline the edge memory, a toggle does not ...
Merged(rule) ==
    {[rule EXCEPT !.active = ~@]} \cup {[rule EXCEPT !.target = v, !.state = NoState] : v \in Values}

\* Mutant: the cooldown's start is the one that was read.
ReplacementAsRead(current, next) == next

\* ReplaceRule: what the server owns comes from the rule as it is now.
Replacement(current, next) == [next EXCEPT !.born = current.born, !.last = current.last]

\* ... and replaces it. A rule deleted in between is not found.
ReplaceRule(c) ==
    /\ edit[c] # NoCopy
    /\ edit' = [edit EXCEPT ![c] = NoCopy]
    /\ LET id == edit[c].id
       IN  IF id \notin DOMAIN rules
           THEN UNCHANGED <<rules, saved, rearmed>>
           ELSE \E next \in Merged(edit[c].rule) :
                  LET new == [rules EXCEPT ![id] = Replacement(rules[id], next)]
                  IN  /\ Persist(new)
                      /\ rearmed' = IF new[id].state # rules[id].state /\ saved' = new
                                    THEN [rearmed EXCEPT ![id] = Values] ELSE rearmed
    /\ UNCHANGED <<clock, events, pass, passes, edits, stops, lost, deleted, issued, markVars>>

\* handleDeleteRule, DeleteRule.
DeleteRule ==
    /\ edits < MaxEdits /\ edits' = edits + 1
    /\ \E id \in DOMAIN rules :
        LET new == Restrict(rules, DOMAIN rules \ {id})
        IN  /\ Persist(new)
            /\ deleted' = IF Acknowledged(new) THEN deleted \cup {id} ELSE deleted
    /\ UNCHANGED <<clock, events, pass, edit, passes, stops, rearmed, lost, issued, markVars>>

\* An event counts as read when it is at or below the watermark, or marked by itself.
IsRead(i) == events[i].ts =< marks.upTo \/ i \in marks.ids

\* Mutant: only the watermark is written.
SavedMarksOf(new) == [new EXCEPT !.ids = savedMarks.ids]

\* persistStateLocked.
MarksWritten(new) == new

PersistMarks(new) ==
    \/ marks' = new /\ savedMarks' = MarksWritten(new)
    \/ "refuse" \in StorageFaults /\ UNCHANGED <<marks, savedMarks>>
    \/ "lost" \in StorageFaults /\ savedMarks' = MarksWritten(new) /\ UNCHANGED marks

\* handleMarkRead: the watermark moves to now.
MarkEventsRead ==
    /\ \E i \in DOMAIN events : ~IsRead(i)
    /\ PersistMarks([marks EXCEPT !.upTo = clock])
    /\ UNCHANGED <<clock, events, pass, passes, stops, rearmed, lost, userVars>>

\* handleMarkEventRead.
MarkEventRead ==
    /\ \E i \in DOMAIN events : ~IsRead(i) /\ PersistMarks([marks EXCEPT !.ids = @ \cup {i}])
    /\ UNCHANGED <<clock, events, pass, passes, stops, rearmed, lost, userVars>>

-----------------------------------------------------------------------------
Advance ==
    /\ clock < MaxClock
    /\ clock' = clock + 1
    /\ UNCHANGED <<events, pass, passes, stops, rearmed, lost, userVars, markVars>>

\* The process stops; it starts again from what is written (loadPostgres, loadRules, loadState).
Restart ==
    /\ stops < MaxStops
    /\ stops' = stops + 1
    /\ rules' = saved /\ marks' = savedMarks
    /\ pass' = NoPass /\ edit' = [c \in Editors |-> NoCopy]
    /\ lost' = IF pass.phase = "append" THEN lost \cup {<<id, pass.at>> : id \in pass.firing}
               ELSE lost \cup {<<id, saved[id].last>> : id \in {i \in DOMAIN saved :
                                    i \notin DOMAIN rules \/ saved[i].last # rules[i].last}}
    /\ UNCHANGED <<clock, saved, events, savedMarks, passes, edits, rearmed, deleted, issued>>

RulesInit ==
    /\ clock = 1
    /\ rules = <<>> /\ saved = <<>> /\ events = <<>>
    /\ marks = [upTo |-> 0, ids |-> {}] /\ savedMarks = marks
    /\ pass = NoPass /\ edit = [c \in Editors |-> NoCopy]
    /\ passes = 0 /\ edits = 0 /\ stops = 0
    /\ rearmed = [id \in RuleIds |-> {}] /\ lost = {} /\ deleted = {} /\ issued = {}

RulesNext ==
    \/ StartPass \/ SavePass \/ AppendFired
    \/ CreateRule \/ DeleteRule
    \/ \E c \in Editors : ReadRule(c) \/ ReplaceRule(c)
    \/ MarkEventsRead \/ MarkEventRead
    \/ Advance \/ Restart

RulesSpec == RulesInit /\ [][RulesNext]_ruleVars

-----------------------------------------------------------------------------
(* Properties *)

(***************************************************************************)
(* Two alerts of one rule are at least its cooldown apart (eval.go:89),    *)
(* whatever edits, refused writes and restarts fall between them; and a    *)
(* cooldown that runs was started by an alert that was recorded, is about  *)
(* to be, or failed to be written: state is saved first (eval.go:101-111), *)
(* and nothing else starts it.                                             *)
(***************************************************************************)
CooldownHolds ==
    /\ \A i, j \in DOMAIN events :
          i < j /\ events[i].rule = events[j].rule => events[j].ts - events[i].ts >= Cooldown
    /\ \A id \in DOMAIN rules : rules[id].last > 0 =>
          \/ \E i \in DOMAIN events : events[i].rule = id /\ events[i].ts = rules[id].last
          \/ pass.phase = "append" /\ id \in pass.firing /\ pass.at = rules[id].last
          \/ <<id, rules[id].last>> \in lost

(***************************************************************************)
(* "A persistent condition fires ONCE, not every tick" (eval.go:18-20):    *)
(* between two alerts of a rule about one condition it was seen off, or an *)
(* edit re-baselined it or put back the edge memory that it had read.      *)
(***************************************************************************)
SameCondition(e, f) == e.rule = f.rule /\ e.target = f.target

FiresOnce ==
    \A j \in DOMAIN events :
        events[j].rule \in DOMAIN rules /\ rules[events[j].rule].kind # "cadence" =>
            \/ events[j].rearmed
            \/ \A i \in 1 .. j - 1 : ~SameCondition(events[i], events[j])

(***************************************************************************)
(* What was acknowledged stands, across failed writes, passes and          *)
(* restarts: a mark of reading is not lost (store.go:400-423), and a       *)
(* deleted rule does not come back from a pass that still has a copy or an *)
(* edit in flight (store.go:260).                                          *)
(***************************************************************************)
AcknowledgedStands ==
    [][/\ \A i \in DOMAIN events : IsRead(i) => IsRead(i)'
       /\ deleted' \cap (DOMAIN rules' \cup DOMAIN saved') = {}]_ruleVars

(***************************************************************************)
(* An alert is raised when it is due, and only then: once for a condition  *)
(* that persists, and never within its rule's cooldown.                    *)
(***************************************************************************)
AlertsAreDue == CooldownHolds /\ FiresOnce

=============================================================================
