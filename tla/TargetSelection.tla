--------------------------- MODULE TargetSelection ---------------------------
(***************************************************************************)
(* A frame's use of the rule engine: the frame loop pushes one target      *)
(* after another (combat_pipeline.cpp, stage 4), then asks for a decision; *)
(* between frames the operator may send an ORDER.                          *)
(***************************************************************************)
EXTENDS CombatStateMachine

CONSTANTS Targets,       \* what a target may look like
          MaxTargets,    \* bound on the targets of a frame
          OrderRequests, \* the ORDER commands, as sequences of names
          Everywhere     \* a geofence

ASSUME SelectionAssumption ==
    /\ Targets \subseteq [cls : STRING, aff : {"Friend", "Foe", "Unknown"},
                          is_lost : BOOLEAN, distance : Nat]
    /\ MaxTargets \in Nat /\ OrderRequests \subseteq Seq(STRING) /\ Everywhere \in Fences

VARIABLE sm_targets

selection_vars == <<sm_vars, sm_targets>>

SelectionTypeOK ==
    /\ StateMachineTypeOK
    /\ sm_targets \in Seq(Targets) /\ Len(sm_targets) <= MaxTargets

SelectionInit ==
    /\ target_rules = ConfigRules /\ geofence = Everywhere
    /\ sm_targets = <<>>

push_back(t) ==
    /\ Len(sm_targets) < MaxTargets
    /\ sm_targets' = Append(sm_targets, t)
    /\ UNCHANGED sm_vars

\* The decision is taken and the vector goes out of scope.
EndFrame == sm_targets # <<>> /\ sm_targets' = <<>> /\ UNCHANGED sm_vars

ORDER(names) ==
    /\ sm_targets = <<>>
    /\ setRules(Ordered(names))
    /\ UNCHANGED sm_targets

SelectionNext == \/ \E t \in Targets : push_back(t)
                 \/ EndFrame
                 \/ \E names \in OrderRequests : ORDER(names)

SelectionSpec == SelectionInit /\ [][SelectionNext]_selection_vars

-----------------------------------------------------------------------------
(***************************************************************************)
(* However many ORDERs arrive, each configured class keeps the engagement  *)
(* range it was configured with (an ORDER copies the rules, edits them and *)
(* replaces the state machine's), and the state stays well typed.          *)
(***************************************************************************)
RangesKept ==
    /\ SelectionTypeOK
    /\ \A c \in DOMAIN ConfigRules :
         /\ c \in DOMAIN target_rules
         /\ target_rules[c].min = ConfigRules[c].min
         /\ target_rules[c].max = ConfigRules[c].max

(***************************************************************************)
(* The one-pass loop with best_priority and best_distance returns what the *)
(* selection is meant to be: the least eligible target by priority, then   *)
(* distance, then position, or none.                                       *)
(***************************************************************************)
ScanFindsBest ==
    Scan(target_rules, sm_targets) =
        IF Candidates(target_rules, sm_targets) = {} THEN NoTarget
        ELSE Best(target_rules, sm_targets)

(***************************************************************************)
(* An ORDER that names classes without repetition is obeyed: after it, the *)
(* selected target's class is never named later than that of another       *)
(* eligible target, whatever the configured priorities were.               *)
(***************************************************************************)
Rank(names, c) == CHOOSE i \in DOMAIN names : names[i] = c

OrderIsObeyed ==
    LET eligible == Candidates(target_rules, sm_targets)
    IN  eligible # {} =>
          \A names \in {n \in OrderRequests : IsInjective(n) /\ RuleClasses \subseteq Range(n)} :
             target_rules = Ordered(names) =>
               LET chosen == sm_targets[Best(target_rules, sm_targets)].cls
               IN  \A i \in eligible : Rank(names, chosen) <= Rank(names, sm_targets[i].cls)
=============================================================================
