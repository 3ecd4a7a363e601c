-------------------------- MODULE CombatStateMachine --------------------------
(***************************************************************************)
(* The rule engine of raspi/include/core/combat_state_machine.hpp: given   *)
(* this frame's targets and the pose of the turret, may it engage, whom,   *)
(* or must it be locked.  Distances are in units the rules compare with;   *)
(* angles are whole degrees.                                               *)
(***************************************************************************)
EXTENDS Integers, Sequences, SequencesExt

CONSTANTS RuleClasses,   \* core::TargetClass without Unknown
          ConfigRules,   \* the rules of ConfigManager, or the safe defaults
          DefaultRange   \* range of a rule that an ORDER adds: 0 to 50 m

VARIABLES target_rules, geofence

sm_vars == <<target_rules, geofence>>

Rules  == [min : Nat, max : Nat, priority : Int]
Fences == [pan_min : Int, pan_max : Int, tilt_min : Int, tilt_max : Int]

\* Rules for some of the classes.
IsRuleMap(rules) ==
    DOMAIN rules \subseteq RuleClasses /\ rules \in [DOMAIN rules -> Rules]

ASSUME RulesAssumption ==
    /\ RuleClasses \subseteq STRING \ {"Friendly", "Unknown"}
    /\ IsRuleMap(ConfigRules) /\ DefaultRange \in Nat

StateMachineTypeOK == IsRuleMap(target_rules) /\ geofence \in Fences

Inside(fence, p) == /\ fence.pan_min <= p.pan /\ p.pan <= fence.pan_max
                    /\ fence.tilt_min <= p.tilt /\ p.tilt <= fence.tilt_max

-----------------------------------------------------------------------------
setGeofence(fence) == geofence' = fence /\ UNCHANGED target_rules
setRules(rules)    == target_rules' = rules /\ UNCHANGED geofence

\* Faulty variant: an ORDER rebuilds the rule instead of changing its priority.
RuleRebuilt(rules, c) == [min |-> 0, max |-> DefaultRange, priority |-> 0]

RuleOf(rules, c) == IF c \in DOMAIN rules THEN rules[c]
                    ELSE [min |-> 0, max |-> DefaultRange, priority |-> 0]

WithRule(rules, c, rule) ==
    [d \in DOMAIN rules \union {c} |-> IF d = c THEN rule ELSE rules[d]]

\* One name of an ORDER: the next free priority goes to its class.
NameNext(acc, name) ==
    IF name \notin RuleClasses THEN acc
    ELSE [rules |-> WithRule(acc.rules, name,
                             [RuleOf(acc.rules, name) EXCEPT !.priority = acc.prio]),
          prio  |-> acc.prio + 1]

Configured == [rules |-> ConfigRules, prio |-> 0]

\* Faulty variant: only a class that had a rule uses up a priority.
OrderedKnown(names) ==
    LET after[n \in 0..Len(names)] ==
            IF n = 0 THEN Configured
            ELSE IF names[n] \in DOMAIN after[n - 1].rules THEN NameNext(after[n - 1], names[n])
            ELSE [after[n - 1] EXCEPT !.rules = NameNext(after[n - 1], names[n]).rules]
    IN  after[Len(names)].rules

\* The rules an ORDER command leaves: it starts from the configured ones each time.
Ordered(names) ==
    LET after[n \in 0..Len(names)] ==
            IF n = 0 THEN Configured ELSE NameNext(after[n - 1], names[n])
    IN  after[Len(names)].rules

-----------------------------------------------------------------------------
(***************************************************************************)
(* The targets of a frame are a function on positions (a vector): cls,     *)
(* aff, is_lost, distance.  A target's position stands for its id.         *)
(***************************************************************************)
Eligible(rules, t) ==
    /\ t.cls \in DOMAIN rules
    /\ rules[t.cls].min <= t.distance /\ t.distance <= rules[t.cls].max
    /\ t.aff # "Friend"

\* Faulty variant: the nearest target comes first.
BeforeNearest(rules, targets, i, j) ==
    LET p(k) == rules[targets[k].cls].priority
        d(k) == targets[k].distance
    IN  \/ d(i) < d(j)
        \/ d(i) = d(j) /\ p(i) < p(j)
        \/ d(i) = d(j) /\ p(i) = p(j) /\ i <= j

\* Before by priority, then by distance, then by position.
Before(rules, targets, i, j) ==
    LET p(k) == rules[targets[k].cls].priority
        d(k) == targets[k].distance
    IN  \/ p(i) < p(j)
        \/ p(i) = p(j) /\ d(i) < d(j)
        \/ p(i) = p(j) /\ d(i) = d(j) /\ i <= j

Candidates(rules, targets) == {i \in DOMAIN targets : Eligible(rules, targets[i])}

\* The eligible target that comes before all others: one, or none.
Foremost(rules, targets) ==
    LET eligible == Candidates(rules, targets)
    IN  {i \in eligible : \A j \in eligible : Before(rules, targets, i, j)}

Best(rules, targets) == CHOOSE i \in Foremost(rules, targets) : TRUE

NoTarget == 0

Priority(rules, t) == rules[t.cls].priority

\* Faulty variant: a nearer target of equal priority does not replace the best.
ReplacesByPriority(rules, t, best) == Priority(rules, t) < Priority(rules, best)

Replaces(rules, t, best) ==
    \/ Priority(rules, t) < Priority(rules, best)
    \/ Priority(rules, t) = Priority(rules, best) /\ t.distance < best.distance

\* The loop of update(): one pass with the best target so far.
Scan(rules, targets) ==
    LET best[n \in 0..Len(targets)] ==
            IF n = 0 THEN NoTarget
            ELSE IF /\ Eligible(rules, targets[n])
                    /\ \/ best[n - 1] = NoTarget
                       \/ Replaces(rules, targets[n], targets[best[n - 1]])
            THEN n ELSE best[n - 1]
    IN  best[Len(targets)]

\* update(): the state and, when engaging, the position of the target.
Decide(targets, p) ==
    LET best == Best(target_rules, targets)
    IN  IF ~Inside(geofence, p)
          THEN [state |-> "SafeLock", locked |-> NoTarget]
        ELSE IF /\ Foremost(target_rules, targets) # {}
                /\ ~targets[best].is_lost /\ targets[best].aff = "Foe"
          THEN [state |-> "Engaging", locked |-> best]
        ELSE [state |-> "Searching", locked |-> NoTarget]
=============================================================================
