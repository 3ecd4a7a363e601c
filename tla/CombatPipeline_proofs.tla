------------------------ MODULE CombatPipeline_proofs ------------------------
(* What the frame loop promises for every fence, rule set, aim and duration, *)
(* with any number of tracks: TLC checks it for at most two.                 *)
EXTENDS CombatPipeline, CombatStateMachine_proofs, FiniteSetTheorems

-----------------------------------------------------------------------------
(* What TLC checks of the trigger for one setting of the durations, proved   *)
(* for every configuration.                                                  *)

\* The clamped durations are natural numbers that an age can reach.
LEMMA DurationsReachable ==
    /\ lock_duration \in 0..AgeMax /\ burst_duration \in 0..AgeMax
    /\ cooldown \in 0..AgeMax /\ AgeMax \in Nat
  BY DurationAssumption DEF lock_duration, burst_duration, cooldown, NonNegative

\* A stopped and a freshly started timer.
LEMMA TimerValues == Unset \in Ages /\ 0 \in Ages /\ Unset # 0
  BY DurationsReachable DEF Ages, Unset

\* The lock timer an update starts from is an age, and runs exactly on target.
LEMMA LockTimerIsAge ==
    ASSUME lock_age \in Ages, NEW within \in BOOLEAN
    PROVE  /\ LockTimer(within) \in Ages
           /\ within <=> LockTimer(within) # Unset
  BY DurationsReachable DEF LockTimer, Ages, Unset

\* Growing older keeps an age an age, and a running timer running.
LEMMA OlderIsAge ==
    ASSUME NEW age \in Ages
    PROVE  /\ Older(age) \in Ages
           /\ age = Unset <=> Older(age) = Unset
           /\ age # Unset => Older(age) \in {age, age + 1} /\ Older(age) >= age
  BY DurationsReachable DEF Older, Ages, Unset

(* Type correctness, the fire flag mirroring FIRING and the timers running    *)
(* when they are read hold in every state of trigger_controller.cpp.          *)
THEOREM TriggerInvariant == TriggerSpec => []TriggerInv
<1>1. TriggerInit => TriggerInv
  BY DurationsReachable
     DEF TriggerInit, TriggerInv, TriggerTypeOK, FlagIsFiring, TimersRun, Ages, Unset
<1>2. TriggerInv /\ [TriggerNext]_trg_vars => TriggerInv'
  <2> SUFFICES ASSUME TriggerInv, [TriggerNext]_trg_vars
               PROVE  TriggerInv'
    OBVIOUS
  <2> USE TimerValues DEF TriggerInv, TriggerTypeOK, FlagIsFiring, TimersRun
  <2>1. CASE reset
    BY <2>1 DEF reset
  <2>2. CASE TriggerTick
    BY <2>2, OlderIsAge DEF TriggerTick
  <2>3. ASSUME NEW within \in BOOLEAN, update(within)
        PROVE  TriggerInv'
    <3> LockTimer(within) \in Ages /\ (within <=> LockTimer(within) # Unset)
      BY LockTimerIsAge
    <3>1. CASE KeepFiring(within)
      BY <3>1 DEF KeepFiring
    <3>2. CASE EndBurst
      BY <3>2 DEF EndBurst
    <3>3. CASE CoolDown(within)
      BY <3>3 DEF CoolDown
    <3>4. CASE EndCooldown(within)
      BY <3>4 DEF EndCooldown
    <3>5. CASE TakeAim(within)
      BY <3>5 DEF TakeAim
    <3>6. CASE OpenFire(within)
      BY <3>6 DEF OpenFire
    <3> QED
      BY <2>3, <3>1, <3>2, <3>3, <3>4, <3>5, <3>6 DEF update
  <2>4. CASE UNCHANGED trg_vars
    BY <2>4 DEF trg_vars
  <2> QED
    BY <2>1, <2>2, <2>3, <2>4 DEF TriggerNext
<1> QED
  BY <1>1, <1>2, PTL DEF TriggerSpec

(* The trigger implements FireDiscipline: nobody watching the fire line sees  *)
(* a burst before its wait is over, or two bursts closer than cooldown plus   *)
(* lock unless the pipeline reset the trigger in between.                     *)
THEOREM TriggerKeepsDiscipline == TriggerSpec => KeepsDiscipline
<1>1. TriggerInit => Discipline!DisciplineInit
  BY DurationsReachable
     DEF TriggerInit, WaitLeft, Discipline!DisciplineInit, Discipline!Down
<1>2. TriggerInv /\ TriggerInv' /\ [TriggerNext]_trg_vars
         => [Discipline!DisciplineNext]_<<fire_flag, WaitLeft,
               IF trg_state = "FIRING" THEN state_age ELSE 0>>
  <2> DEFINE held == IF trg_state = "FIRING" THEN state_age ELSE 0
  <2> SUFFICES ASSUME TriggerInv, TriggerInv', [TriggerNext]_trg_vars
               PROVE  \/ Discipline!DisciplineNext
                      \/ UNCHANGED <<fire_flag, WaitLeft, held>>
    OBVIOUS
  <2> USE DurationsReachable
      DEF TriggerInv, TriggerTypeOK, FlagIsFiring, TimersRun, WaitLeft,
          NonNegative, Ages, Unset
  <2>1. CASE reset
    <3> Discipline!Abandon
      BY <2>1 DEF reset, Discipline!Abandon
    <3> QED
      BY DEF Discipline!DisciplineNext
  <2>2. CASE TriggerTick
    <3> Discipline!TimePasses
      BY <2>2 DEF TriggerTick, Older, Discipline!TimePasses
    <3> QED
      BY DEF Discipline!DisciplineNext
  <2>3. ASSUME NEW within \in BOOLEAN, update(within)
        PROVE  \/ Discipline!DisciplineNext
               \/ UNCHANGED <<fire_flag, WaitLeft, held>>
    <3>1. CASE KeepFiring(within)
      BY <3>1 DEF KeepFiring
    <3>2. CASE EndBurst
      <4> Discipline!BurstOver
        BY <3>2 DEF EndBurst, Discipline!BurstOver
      <4> QED
        BY DEF Discipline!DisciplineNext
    <3>3. CASE CoolDown(within)
      BY <3>3 DEF CoolDown
    <3>4. CASE EndCooldown(within)
      BY <3>4 DEF EndCooldown
    <3>5. CASE TakeAim(within)
      <4> Discipline!AimDisturbed
        BY <3>5 DEF TakeAim, LockTimer, Discipline!AimDisturbed, Discipline!Down
      <4> QED
        BY DEF Discipline!DisciplineNext
    <3>6. CASE OpenFire(within)
      <4> Discipline!LineUp
        BY <3>6 DEF OpenFire, Steady, LockTimer, Discipline!LineUp, Discipline!Down
      <4> QED
        BY DEF Discipline!DisciplineNext
    <3> QED
      BY <2>3, <3>1, <3>2, <3>3, <3>4, <3>5, <3>6 DEF update
  <2>4. CASE UNCHANGED trg_vars
    BY <2>4 DEF trg_vars
  <2> QED
    BY <2>1, <2>2, <2>3, <2>4 DEF TriggerNext
<1> QED
  BY <1>1, <1>2, TriggerInvariant, PTL
     DEF TriggerSpec, KeepsDiscipline, Discipline!DisciplineSpec

-----------------------------------------------------------------------------
(* The trigger, as the frame loop sees it.                                   *)

\* update() reports fire only by entering or staying in FIRING.
LEMMA FireMeansFiring ==
    ASSUME NEW within, update(within), fire_flag'
    PROVE  trg_state' = "FIRING"
  BY DEF update, KeepFiring, EndBurst, CoolDown, EndCooldown, TakeAim, OpenFire

LEMMA ResetIsQuiet ==
    ASSUME reset
    PROVE  trg_state' = "SEARCHING" /\ fire_flag' = FALSE
  BY DEF reset

-----------------------------------------------------------------------------
(* After DETECT:STOP nothing is left of an engagement, until detection is on *)
(* again (any fence, rules, aims, durations, number of tracks).              *)
THEOREM StopIsComplete == CombatSpec => []StopLeavesNothing
<1>1. CombatInit => StopLeavesNothing
  BY DEF CombatInit, StopLeavesNothing
<1>2. StopLeavesNothing /\ [CombatNext]_combat_vars => StopLeavesNothing'
  <2> SUFFICES ASSUME StopLeavesNothing, [CombatNext]_combat_vars
               PROVE  StopLeavesNothing'
    OBVIOUS
  <2> USE DEF StopLeavesNothing, trg_vars, turret_vars, mode_vars, SafeLock, Command
  <2>1. CASE DETECT_START \/ DETECT_STOP \/ MODE_FULL_AUTO \/ MODE_MANUAL
    BY <2>1 DEF DETECT_START, DETECT_STOP, MODE_FULL_AUTO, MODE_MANUAL, reset
  <2>2. ASSUME NEW by \in Moves, MOVE(by) PROVE StopLeavesNothing'
    BY <2>2 DEF MOVE
  <2>3. ASSUME NEW req \in FenceRequests, GEOFENCE(req) PROVE StopLeavesNothing'
    BY <2>3 DEF GEOFENCE
  <2>4. ASSUME NEW names \in OrderRequests, ORDER(names) PROVE StopLeavesNothing'
    BY <2>4 DEF ORDER
  <2>5. CASE ToggleAutonomous \/ CameraChanges
    BY <2>5 DEF ToggleAutonomous, CameraChanges
  <2>6. CASE WatchdogFrame \/ EmptyFrame
    BY <2>6 DEF WatchdogFrame, EmptyFrame, reset
  <2>7. CASE DetectionOffFrame \/ NothingSeenFrame
    BY <2>7 DEF DetectionOffFrame, NothingSeenFrame, reset
  <2>8. CASE SeenFrame
    BY <2>8 DEF SeenFrame
  <2>9. CASE Tick
    BY <2>9 DEF Tick, TriggerTick
  <2>10. CASE UNCHANGED combat_vars
    BY <2>10 DEF combat_vars
  <2> QED
    BY <2>1, <2>2, <2>3, <2>4, <2>5, <2>6, <2>7, <2>8, <2>9, <2>10
       DEF CombatNext, handleNetworkCommand, processFrame
<1> QED
  BY <1>1, <1>2, PTL DEF CombatSpec

-----------------------------------------------------------------------------
(* Tracks stay well formed through the tracker and the aim loop.             *)

\* A vector is a function on 1..n.
LEMMA VectorIsSeq ==
    ASSUME NEW S, NEW n \in Nat, NEW v \in [1..n -> S]
    PROVE  v \in Seq(S)
  BY SeqDef

LEMMA ObservedIsTrack ==
    ASSUME NEW t \in Track, NEW look \in Looks \union {Missed},
           Observed(t, look).lost <= max_lost
    PROVE  Observed(t, look) \in Track
<1>1. max_lost \in Nat /\ t.lost \in 0..max_lost
  BY CombatAssumption DEF Track
<1>2. CASE look = Missed
  <2>1. Observed(t, look) = [t EXCEPT !.lost = t.lost + 1]
    BY <1>2 DEF Observed
  <2>2. t.lost + 1 \in 0..max_lost
    BY <1>1, <2>1 DEF Track
  <2> QED
    BY <2>1, <2>2 DEF Track
<1>3. CASE look # Missed
  <2>1. Observed(t, look) = [[t EXCEPT !.look = look] EXCEPT !.lost = 0]
    BY <1>3 DEF Observed
  <2>2. look \in Looks /\ 0 \in 0..max_lost
    BY <1>1, <1>3
  <2>3. [t EXCEPT !.look = look] \in Track
    BY <2>2 DEF Track
  <2> QED
    BY <2>1, <2>2, <2>3 DEF Track
<1> QED
  BY <1>2, <1>3

LEMMA KeptIsSeq ==
    ASSUME tracks \in Seq(Track), NEW seen \in [DOMAIN tracks -> Looks \union {Missed}],
           NEW kept \in Kept(seen)
    PROVE  kept \in Seq(Track)
<1> DEFINE observed == [i \in DOMAIN tracks |-> Observed(tracks[i], seen[i])]
           S == Alive(observed)
<1>1. PICK f \in [1..Cardinality(S) -> S] :
        kept = [k \in DOMAIN f |-> observed[f[k]]]
  BY DEF Kept, InOrder
<1>2. DOMAIN tracks = 1..Len(tracks) /\ Len(tracks) \in Nat
  OBVIOUS
<1>3. ASSUME NEW i \in S
      PROVE  observed[i] \in Track
  <2>1. i \in DOMAIN tracks /\ observed[i].lost <= max_lost
    BY <1>3 DEF Alive
  <2>2. /\ observed[i] = Observed(tracks[i], seen[i])
        /\ tracks[i] \in Track /\ seen[i] \in Looks \union {Missed}
    BY <2>1, <1>2
  <2> QED
    BY <2>1, <2>2, ObservedIsTrack
<1>4. Cardinality(S) \in Nat
  <2>1. IsFiniteSet(1..Len(tracks))
    BY <1>2, FS_Interval
  <2>2. S \subseteq 1..Len(tracks)
    BY <1>2 DEF Alive
  <2> QED
    BY <2>1, <2>2, FS_Subset, FS_CardinalityType
<1> HIDE DEF S, observed
<1>5. kept \in [1..Cardinality(S) -> Track]
  BY <1>1, <1>3
<1> QED
  BY <1>4, <1>5, VectorIsSeq

LEMMA TrackerKeepsType ==
    ASSUME tracks \in Seq(Track), NEW seen \in [DOMAIN tracks -> Looks \union {Missed}],
           NEW now \in Updated(seen)
    PROVE  now \in Seq(Track)
<1>1. PICK kept \in Kept(seen), looks \in Unmatched(seen) : now = kept \o Begun(looks)
  BY DEF Updated
<1>2. Begun(looks) \in Seq(Track)
  <2>1. PICK m \in 0..MaxTracks : looks \in [1..m -> Looks]
    BY <1>1 DEF Unmatched, BoundedSeq, SeqOf
  <2>2. \A look \in Looks : Fresh(look) \in Track
    BY CombatAssumption DEF Fresh, Track
  <2>3. m \in Nat
    BY <2>1, CombatAssumption
  <2>4. Begun(looks) \in [1..m -> Track]
    BY <2>1, <2>2 DEF Begun
  <2> QED
    BY <2>3, <2>4, VectorIsSeq
<1>3. kept \in Seq(Track)
  BY KeptIsSeq
<1> QED
  BY <1>1, <1>2, <1>3

LEMMA AimPassKeepsType ==
    ASSUME NEW ts \in Seq(Track), NEW aimed \in AimPass(ts)
    PROVE  aimed \in Seq(Track)
<1>1. PICK found \in [DOMAIN ts -> Aims \union {NoAim}] :
        aimed = [i \in DOMAIN ts |-> Segmented(ts[i], found[i])]
  BY DEF AimPass
<1>2. ASSUME NEW t \in Track, NEW aim \in Aims \union {NoAim}
      PROVE  Segmented(t, aim) \in Track
  BY <1>2 DEF Segmented, Track
<1>3. DOMAIN ts = 1..Len(ts) /\ Len(ts) \in Nat
  OBVIOUS
<1>4. aimed \in [1..Len(ts) -> Track]
  BY <1>1, <1>2, <1>3
<1> QED
  BY <1>3, <1>4, VectorIsSeq

LEMMA SeenFrameKeepsTracks ==
    ASSUME tracks \in Seq(Track), SeenFrame
    PROVE  tracks' \in Seq(Track)
  BY TrackerKeepsType, AimPassKeepsType DEF SeenFrame

\* What a frame with detections can do to the turret.
LEMMA SeenFrameCases ==
    ASSUME SeenFrame
    PROVE  \/ reset /\ SafeLock /\ UNCHANGED pose
           \/ reset /\ Command(pose, FALSE) /\ UNCHANGED pose
           \/ \E i \in Foremost(target_rules, Shown(tracks')) :
                 /\ i \in DOMAIN Shown(tracks')
                 /\ Shown(tracks')[i].aff = "Foe" /\ ~Shown(tracks')[i].is_lost
                 /\ Reachable(tracks'[i].aim)
                 /\ Engage(tracks'[i].aim)
<1> DEFINE decision == Decide(Shown(tracks'), pose)
<1>1. Act(decision)
  BY DEF SeenFrame
<1>2. decision.state \in {"SafeLock", "Searching", "Engaging"}
  BY DEF Decide
<1>3. decision.state = "Engaging" =>
        LET i == decision.locked
        IN  /\ i \in Foremost(target_rules, Shown(tracks')) /\ i \in DOMAIN Shown(tracks')
            /\ Shown(tracks')[i].aff = "Foe" /\ ~Shown(tracks')[i].is_lost
  BY EngagesForemost DEF Foremost, Candidates
<1> HIDE DEF decision
<1> QED
  BY <1>1, <1>2, <1>3 DEF Act

-----------------------------------------------------------------------------
(* Clamping.                                                                 *)

Proper(f) == f \in Fences /\ f.pan_min <= f.pan_max /\ f.tilt_min <= f.tilt_max

LEMMA SortedIsProper == \A f \in Fences : Proper(Sorted(f))
  BY DEF Proper, Fences, Sorted, Ordered2

LEMMA ClampedIsInside ==
    ASSUME NEW f, Proper(f), NEW p \in Pose
    PROVE  Clamped(f, p) \in Pose /\ Inside(f, Clamped(f, p))
  BY DEF Proper, Fences, Pose, Clamped, Clip, Inside

LEMMA TurnedIsPose ==
    ASSUME NEW p \in Pose, NEW by, by.pan \in Int, by.tilt \in Int
    PROVE  Turned(p, by) \in Pose
  BY DEF Pose, Turned

LEMMA AimIsTurn ==
    ASSUME NEW t \in Track
    PROVE  t.aim.pan \in Int /\ t.aim.tilt \in Int
  BY CombatAssumption DEF Track, NoAim

-----------------------------------------------------------------------------
(* Every step keeps the steering invariant and turns only inside the fence:  *)
(* both are shown together, step by step.                                    *)

TurnIsInside == lastPose' # lastPose => Inside(fence', lastPose')

\* What a step that leaves fence and tracks alone must do about the pose.
LEMMA HoldPose ==
    ASSUME SteeringInv, UNCHANGED <<fence, geofence, pose>>, tracks' \in Seq(Track),
           lastPose' = pose \/ lastPose' = lastPose
    PROVE  SteeringInv' /\ TurnIsInside
  BY DEF SteeringInv, FenceInForce, TurnIsInside, Inside

\* A step that turns to a pose inside the fence.
LEMMA TurnPose ==
    ASSUME SteeringInv, UNCHANGED <<fence, geofence>>, tracks' \in Seq(Track),
           pose' \in Pose, Inside(fence, pose'), lastPose' = pose'
    PROVE  SteeringInv' /\ TurnIsInside
  BY DEF SteeringInv, FenceInForce, TurnIsInside, Inside

LEMMA SteeringStep ==
    ASSUME SteeringInv, [CombatNext]_combat_vars
    PROVE  SteeringInv' /\ TurnIsInside
<1> tracks \in Seq(Track) /\ <<>> \in Seq(Track) /\ pose \in Pose /\ Proper(fence)
  BY DEF SteeringInv, FenceInForce, Proper
<1> USE DEF turret_vars, sm_vars, SafeLock, Command
<1>1. CASE DETECT_START \/ DETECT_STOP \/ MODE_FULL_AUTO \/ MODE_MANUAL
  BY <1>1, HoldPose DEF DETECT_START, DETECT_STOP, MODE_FULL_AUTO, MODE_MANUAL
<1>2. ASSUME NEW by \in Moves, MOVE(by)
      PROVE  SteeringInv' /\ TurnIsInside
  <2>1. Turned(pose, by) \in Pose
    BY CombatAssumption, TurnedIsPose
  <2>2. pose' \in Pose /\ Inside(fence, pose')
    BY <1>2, <2>1, ClampedIsInside DEF MOVE
  <2> QED
    BY <1>2, <2>2, TurnPose DEF MOVE
<1>3. ASSUME NEW req \in FenceRequests, GEOFENCE(req)
      PROVE  SteeringInv' /\ TurnIsInside
  <2>1. Proper(fence') /\ geofence' = fence'
    BY <1>3, CombatAssumption, SortedIsProper DEF GEOFENCE, setGeofence
  <2>2. pose' \in Pose /\ Inside(fence', pose')
    BY <1>3, <2>1, ClampedIsInside DEF GEOFENCE
  <2>3. lastPose' = lastPose /\ tracks' = tracks
    BY <1>3 DEF GEOFENCE
  <2> QED
    BY <2>1, <2>2, <2>3 DEF SteeringInv, FenceInForce, TurnIsInside, Proper
<1>4. ASSUME NEW names \in OrderRequests, ORDER(names)
      PROVE  SteeringInv' /\ TurnIsInside
  BY <1>4, HoldPose DEF ORDER, setRules
<1>5. CASE ToggleAutonomous \/ CameraChanges \/ Tick
  BY <1>5, HoldPose DEF ToggleAutonomous, CameraChanges, Tick
<1>6. CASE WatchdogFrame \/ EmptyFrame \/ DetectionOffFrame \/ NothingSeenFrame
  BY <1>6, HoldPose DEF WatchdogFrame, EmptyFrame, DetectionOffFrame, NothingSeenFrame
<1>7. CASE SeenFrame
  <2>1. tracks' \in Seq(Track) /\ UNCHANGED <<fence, geofence>>
    BY <1>7, SeenFrameKeepsTracks DEF SeenFrame
  <2>2. CASE UNCHANGED pose /\ lastPose' = pose
    BY <2>1, <2>2, HoldPose
  <2>3. ASSUME NEW i \in DOMAIN tracks',
               Reachable(tracks'[i].aim), Engage(tracks'[i].aim)
        PROVE  SteeringInv' /\ TurnIsInside
    <3>1. tracks'[i] \in Track
      BY <2>1
    <3>2. pose' \in Pose /\ Inside(fence, pose') /\ lastPose' = pose'
      BY <2>3, <3>1, AimIsTurn, TurnedIsPose DEF Reachable, Engage
    <3> QED
      BY <2>1, <3>2, TurnPose
  <2>4. DOMAIN Shown(tracks') \subseteq DOMAIN tracks'
    BY DEF Shown
  <2> QED
    BY <1>7, <2>2, <2>3, <2>4, SeenFrameCases
<1>8. CASE UNCHANGED combat_vars
  BY <1>8, HoldPose DEF combat_vars
<1> QED
  BY <1>1, <1>2, <1>3, <1>4, <1>5, <1>6, <1>7, <1>8
     DEF CombatNext, handleNetworkCommand, processFrame

LEMMA SteeringInitially == CombatInit => SteeringInv
<1> SUFFICES ASSUME CombatInit PROVE SteeringInv
  OBVIOUS
<1>1. Proper(fence)
  BY CombatAssumption, SortedIsProper DEF CombatInit
<1>2. pose \in Pose /\ tracks \in Seq(Track) /\ geofence = fence
  BY DEF CombatInit, Pose, Origin
<1>3. pose = Origin /\ lastPose = Origin
  BY DEF CombatInit
<1> QED
  BY <1>1, <1>2, <1>3 DEF SteeringInv, FenceInForce, Proper

(* The fence and the state machine's copy agree, and the pose the pipeline   *)
(* steers from is inside unless nothing ever moved the turret.               *)
THEOREM SteeringInvariant == CombatSpec => []SteeringInv
<1>1. SteeringInv /\ [CombatNext]_combat_vars => SteeringInv'
  BY SteeringStep
<1> QED
  BY <1>1, SteeringInitially, PTL DEF CombatSpec

(* No command, aim or frame turns the turret to a pose outside the geofence  *)
(* in force, for every fence, step and aim.                                  *)
THEOREM TurnsStayInside == CombatSpec => TurnsInsideFence
<1>1. SteeringInv /\ [CombatNext]_combat_vars => [TurnIsInside]_combat_vars
  BY SteeringStep
<1> QED
  BY <1>1, SteeringInvariant, PTL DEF CombatSpec, TurnsInsideFence, TurnIsInside

-----------------------------------------------------------------------------
\* A step after which no fire order is in force.
LEMMA NoFireNoReason ==
    ASSUME ~lastFire'
    PROVE  FireHasReason'
  BY DEF FireHasReason

\* A step that does not touch what a fire order rests on.
LEMMA SameReason ==
    ASSUME FireHasReason, UNCHANGED <<lastFire, trg_state, fire_flag, tracks>>,
           detection_enabled' = detection_enabled \/ detection_enabled' = TRUE
    PROVE  FireHasReason'
  BY DEF FireHasReason

LEMMA FireStep ==
    ASSUME SteeringInv, FireHasReason, [CombatNext]_combat_vars
    PROVE  FireHasReason'
<1> USE DEF trg_vars, turret_vars, mode_vars, SafeLock, Command
<1>1. CASE DETECT_START \/ MODE_FULL_AUTO \/ MODE_MANUAL
  BY <1>1, SameReason DEF DETECT_START, MODE_FULL_AUTO, MODE_MANUAL
<1>2. CASE DETECT_STOP \/ \E by \in Moves : MOVE(by)
  BY <1>2, NoFireNoReason DEF DETECT_STOP, MOVE
<1>3. CASE (\E req \in FenceRequests : GEOFENCE(req))
           \/ \E names \in OrderRequests : ORDER(names)
  BY <1>3, SameReason DEF GEOFENCE, ORDER
<1>4. CASE ToggleAutonomous \/ CameraChanges \/ Tick
  BY <1>4, SameReason DEF ToggleAutonomous, CameraChanges, Tick, TriggerTick
<1>5. CASE WatchdogFrame \/ EmptyFrame \/ DetectionOffFrame \/ NothingSeenFrame
  BY <1>5, NoFireNoReason DEF WatchdogFrame, EmptyFrame, DetectionOffFrame,
     NothingSeenFrame
<1>6. CASE SeenFrame
  <2>1. CASE ~lastFire'
    BY <2>1, NoFireNoReason
  <2>2. CASE lastFire'
    <3>1. PICK i \in DOMAIN Shown(tracks') :
             /\ Shown(tracks')[i].aff = "Foe" /\ ~Shown(tracks')[i].is_lost
             /\ Engage(tracks'[i].aim)
      BY <1>6, <2>2, SeenFrameCases
    <3>2. fire_flag' /\ trg_state' = "FIRING"
      <4>1. fire_flag'
        BY <2>2, <3>1 DEF Engage
      <4>2. update(tracks'[i].aim.within)
        BY <3>1, <4>1, ResetIsQuiet DEF Engage
      <4> QED
        BY <4>1, <4>2, FireMeansFiring
    <3>3. i \in DOMAIN tracks' /\ Engageable(tracks'[i])
      <4>1. /\ i \in DOMAIN tracks' /\ tracks'[i].look.aff = "Foe"
            /\ ~(tracks'[i].lost > 0) /\ tracks'[i].aim # NoAim
        BY <3>1 DEF Shown
      <4>2. tracks'[i].lost \in Nat
        <5>1. tracks' \in Seq(Track)
          BY <1>6, SeenFrameKeepsTracks DEF SteeringInv
        <5>2. tracks'[i] \in Track
          BY <4>1, <5>1
        <5>3. tracks'[i].lost \in 0 .. max_lost
          BY <5>2 DEF Track
        <5> QED
          BY <5>3
      <4> QED
        BY <4>1, <4>2 DEF Engageable
    <3>4. detection_enabled'
      BY <1>6 DEF SeenFrame
    <3> QED
      BY <3>2, <3>3, <3>4 DEF FireHasReason
  <2> QED
    BY <2>1, <2>2
<1>7. CASE UNCHANGED combat_vars
  BY <1>7, SameReason DEF combat_vars
<1> QED
  BY <1>1, <1>2, <1>3, <1>4, <1>5, <1>6, <1>7
     DEF CombatNext, handleNetworkCommand, processFrame

(* A fire order in force has a reason at every moment: detection on, the     *)
(* trigger in a burst, and a foe in sight that was aimed at.                 *)
THEOREM FireIsJustified == CombatSpec => []FireHasReason
<1>1. CombatInit => FireHasReason
  BY DEF CombatInit, FireHasReason
<1>2. SteeringInv /\ FireHasReason /\ [CombatNext]_combat_vars => FireHasReason'
  BY FireStep
<1> QED
  BY <1>1, <1>2, SteeringInvariant, PTL DEF CombatSpec

-----------------------------------------------------------------------------
\* update() reports fire only in a burst or after the lock duration.
LEMMA FireNeedsLock ==
    ASSUME NEW within, update(within), fire_flag'
    PROVE  trg_state = "FIRING" \/ lock_age >= lock_duration \/ lock_duration = 0
<1>1. KeepFiring(within) \/ OpenFire(within)
  BY DEF update, EndBurst, CoolDown, EndCooldown, TakeAim
<1>2. CASE KeepFiring(within)
  BY <1>2 DEF KeepFiring
<1>3. CASE OpenFire(within)
  <2>1. LockTimer(within) >= lock_duration /\ within
    BY <1>3 DEF OpenFire, Steady
  <2>2. CASE lock_age = Unset
    <3>1. 0 >= lock_duration
      BY <2>1, <2>2 DEF LockTimer
    <3>2. lock_duration \in Nat
      BY DurationAssumption DEF lock_duration, NonNegative
    <3> QED
      BY <3>1, <3>2
  <2>3. CASE lock_age # Unset
    BY <2>1, <2>3 DEF LockTimer
  <2> QED
    BY <2>2, <2>3
<1> QED
  BY <1>1, <1>2, <1>3

FireIsOpened ==
    ~lastFire /\ lastFire' =>
        /\ autonomous /\ detection_enabled /\ camera
        /\ Inside(fence, lastPose')
        /\ trg_state = "FIRING" \/ lock_age >= lock_duration \/ lock_duration = 0

\* Of all steps only a frame with detections raises the fire order.
LEMMA OnlySeenFrameOpens ==
    ASSUME ~lastFire, lastFire', CombatNext
    PROVE  SeenFrame
  BY DEF CombatNext, handleNetworkCommand, processFrame, turret_vars, mode_vars, SafeLock,
         Command, DETECT_START, DETECT_STOP, MODE_FULL_AUTO, MODE_MANUAL, MOVE, GEOFENCE,
         ORDER, ToggleAutonomous, CameraChanges, Tick, WatchdogFrame, EmptyFrame,
         DetectionOffFrame, NothingSeenFrame

LEMMA OpeningStep ==
    ASSUME [CombatNext]_combat_vars
    PROVE  [FireIsOpened]_combat_vars
<1> SUFFICES ASSUME ~lastFire, lastFire', CombatNext
             PROVE  FireIsOpened
  BY DEF combat_vars, turret_vars, FireIsOpened
<1>1. SeenFrame
  BY OnlySeenFrameOpens
<1>2. PICK i \in DOMAIN Shown(tracks') : Reachable(tracks'[i].aim) /\ Engage(tracks'[i].aim)
  BY <1>1, SeenFrameCases DEF SafeLock, Command
<1>3. fire_flag' /\ lastPose' = Turned(pose, tracks'[i].aim)
  BY <1>2 DEF Engage, Command
<1>4. autonomous /\ update(tracks'[i].aim.within)
  BY <1>2, <1>3, ResetIsQuiet DEF Engage
<1>5. trg_state = "FIRING" \/ lock_age >= lock_duration \/ lock_duration = 0
  BY <1>3, <1>4, FireNeedsLock
<1>6. camera /\ detection_enabled
  BY <1>1 DEF SeenFrame, FrameArrives
<1> QED
  BY <1>2, <1>3, <1>4, <1>5, <1>6 DEF FireIsOpened, Reachable

(* Fire is opened only in autonomous mode, by a frame the camera delivered,  *)
(* towards a pose inside the fence, and after the lock duration.             *)
THEOREM FireIsOpenedWithReason == CombatSpec => FireIsAuthorised
<1>1. [CombatNext]_combat_vars => [FireIsOpened]_combat_vars
  BY OpeningStep
<1> QED
  BY <1>1, PTL DEF CombatSpec, FireIsAuthorised, FireIsOpened

-----------------------------------------------------------------------------
\* The rules in force are rules of the configured kind, whatever ORDERs came.
RulesTypeOK == target_rules \in RuleMaps

LEMMA RulesStayRules == CombatSpec => []RulesTypeOK
<1>1. CombatInit => RulesTypeOK
  BY ConfiguredIsMap DEF CombatInit, RulesTypeOK
<1>2. RulesTypeOK /\ [CombatNext]_combat_vars => RulesTypeOK'
  <2> SUFFICES ASSUME target_rules \in RuleMaps, [CombatNext]_combat_vars
               PROVE  target_rules' \in RuleMaps
    BY DEF RulesTypeOK
  <2>1. ASSUME NEW names \in OrderRequests, ORDER(names)
        PROVE  target_rules' \in RuleMaps
    <3>1. names \in Seq(STRING)
      BY CombatAssumption
    <3> QED
      BY <2>1, <3>1, OrderedIsMap DEF ORDER, setRules
  <2>2. CASE \E req \in FenceRequests : GEOFENCE(req)
    BY <2>2 DEF GEOFENCE, setGeofence
  <2>3. CASE UNCHANGED sm_vars
    BY <2>3 DEF sm_vars
  <2> QED
    BY <2>1, <2>2, <2>3
       DEF CombatNext, handleNetworkCommand, processFrame, combat_vars, DETECT_START,
           DETECT_STOP, MODE_FULL_AUTO, MODE_MANUAL, MOVE, ToggleAutonomous, CameraChanges,
           Tick, WatchdogFrame, EmptyFrame, DetectionOffFrame, NothingSeenFrame, SeenFrame
<1> QED
  BY <1>1, <1>2, PTL DEF CombatSpec

\* The targets shown to the rule engine that it may choose from are the tracks
\* that compete.
LEMMA CandidatesCompete ==
    ASSUME target_rules \in RuleMaps, NEW ts \in Seq(Track)
    PROVE  /\ Candidates(target_rules, Shown(ts)) = {i \in DOMAIN ts : Competes(ts[i])}
           /\ \A i \in Candidates(target_rules, Shown(ts)) :
                /\ Shown(ts)[i].cls = ts[i].look.cls /\ Shown(ts)[i].aff = ts[i].look.aff
                /\ Shown(ts)[i].distance = ts[i].aim.distance
                /\ Shown(ts)[i].is_lost = (ts[i].lost > 0)
<1> DEFINE S == {i \in DOMAIN ts : Enemy(ts[i].look) /\ ts[i].aim # NoAim}
<1>1. DOMAIN Shown(ts) = S
  BY DEF Shown
<1>2. ASSUME NEW i \in S
      PROVE  /\ Shown(ts)[i].cls = ts[i].look.cls /\ Shown(ts)[i].aff = ts[i].look.aff
             /\ Shown(ts)[i].distance = ts[i].aim.distance
             /\ Shown(ts)[i].is_lost = (ts[i].lost > 0)
  BY DEF Shown
<1>3. ASSUME NEW i \in DOMAIN ts
      PROVE  i \in S /\ Eligible(target_rules, Shown(ts)[i]) <=> Competes(ts[i])
  <2> DEFINE t == ts[i]
  <2>1. t \in Track
    OBVIOUS
  <2>2. t.look.aff \in {"Friend", "Foe", "Unknown"} /\ t.aim.distance \in Int
    <3>1. t.look \in Looks /\ t.aim \in Aims \union {NoAim}
      BY <2>1 DEF Track
    <3> HIDE DEF t
    <3> QED
      BY <3>1, CombatAssumption DEF NoAim
  <2>3. ASSUME t.look.cls \in DOMAIN target_rules
        PROVE  /\ t.look.cls \notin {"Friendly", "Unknown"}
               /\ target_rules[t.look.cls].min \in Int /\ target_rules[t.look.cls].max \in Int
    <3>1. t.look.cls \in RuleClasses /\ target_rules[t.look.cls] \in Rules
      BY <2>3, RulesOfMap
    <3> QED
      BY <3>1, RulesAssumption DEF Rules
  <2>4. CASE i \in S
    <3>1. Eligible(target_rules, Shown(ts)[i]) <=>
             /\ t.look.cls \in DOMAIN target_rules
             /\ target_rules[t.look.cls].min <= t.aim.distance
             /\ t.aim.distance <= target_rules[t.look.cls].max
             /\ t.look.aff # "Friend"
      BY <1>2, <2>4, Zenon DEF Eligible
    <3>2. t.aim # NoAim
      BY <2>4
    <3> HIDE DEF S, t
    <3>3. Competes(t) <=>
             /\ t.look.cls \in DOMAIN target_rules
             /\ target_rules[t.look.cls].min <= t.aim.distance
             /\ t.aim.distance <= target_rules[t.look.cls].max
             /\ t.look.aff # "Friend"
      BY <2>2, <2>3, <3>2 DEF Competes
    <3> QED
      BY <2>4, <3>1, <3>3 DEF t
  <2>5. CASE i \notin S
    <3>1. ~Enemy(t.look) \/ t.aim = NoAim
      BY <2>5
    <3>2. ~Competes(t)
      <4> HIDE DEF t
      <4> QED
        BY <2>2, <2>3, <3>1 DEF Competes, Enemy
    <3> QED
      BY <2>5, <3>2
  <2> QED
    BY <2>4, <2>5
<1>4. Candidates(target_rules, Shown(ts)) = {i \in S : Eligible(target_rules, Shown(ts)[i])}
  BY <1>1 DEF Candidates
<1> QED
  BY <1>2, <1>3, <1>4

\* Who comes before another is not outranked by it.
LEMMA BeforeIsNotOutranked ==
    ASSUME target_rules \in RuleMaps, NEW ts \in Seq(Track),
           NEW i \in Candidates(target_rules, Shown(ts)),
           NEW j \in Candidates(target_rules, Shown(ts)),
           Before(target_rules, Shown(ts), i, j)
    PROVE  ~Outranks(ts[j], ts[i])
<1> DEFINE p(x) == target_rules[Shown(ts)[x].cls].priority
           d(x) == Shown(ts)[x].distance
<1>1. p(i) \in Int /\ p(j) \in Int
  BY KeysAreNumbers
<1>2. /\ Shown(ts)[i].cls = ts[i].look.cls /\ d(i) = ts[i].aim.distance
      /\ Shown(ts)[j].cls = ts[j].look.cls /\ d(j) = ts[j].aim.distance
  BY CandidatesCompete
<1>3. i \in DOMAIN ts /\ j \in DOMAIN ts
  BY DEF Candidates, Shown
<1>4. ts[i].aim.distance \in Int /\ ts[j].aim.distance \in Int
  <2>1. ts[i] \in Track /\ ts[j] \in Track
    BY <1>3
  <2>2. \A t \in Track : t.aim.distance \in Int
    BY CombatAssumption DEF Track, NoAim
  <2> QED
    BY <2>1, <2>2
<1>5. p(i) < p(j) \/ (p(i) = p(j) /\ (d(i) < d(j) \/ (d(i) = d(j) /\ i <= j)))
  BY Zenon DEF Before
<1>6. Outranks(ts[j], ts[i]) <=> p(j) < p(i) \/ (p(j) = p(i) /\ d(j) < d(i))
  BY <1>2, Zenon DEF Outranks
<1>7. d(i) \in Int /\ d(j) \in Int
  BY <1>2, <1>4
<1> HIDE DEF p, d
<1> QED
  BY <1>1, <1>5, <1>6, <1>7

OpensOnBest ==
    ~lastFire /\ lastFire' =>
        \E i \in DOMAIN tracks' :
           /\ Engageable(tracks'[i]) /\ Competes(tracks'[i])
           /\ \A j \in DOMAIN tracks' :
                 Competes(tracks'[j]) => ~Outranks(tracks'[j], tracks'[i])

LEMMA BestStep ==
    ASSUME SteeringInv, target_rules \in RuleMaps, [CombatNext]_combat_vars
    PROVE  [OpensOnBest]_combat_vars
<1> SUFFICES ASSUME ~lastFire, lastFire', CombatNext
             PROVE  OpensOnBest
  BY DEF combat_vars, turret_vars, OpensOnBest
<1>1. SeenFrame
  BY OnlySeenFrameOpens
<1> DEFINE targets == Shown(tracks')
<1>2. PICK i \in Foremost(target_rules, targets) :
         targets[i].aff = "Foe" /\ ~targets[i].is_lost /\ i \in DOMAIN targets
  BY <1>1, SeenFrameCases DEF SafeLock, Command
<1>3. tracks' \in Seq(Track)
  BY <1>1, SeenFrameKeepsTracks DEF SteeringInv
<1>4. i \in Candidates(target_rules, targets)
      /\ \A j \in Candidates(target_rules, targets) : Before(target_rules, targets, i, j)
  BY <1>2 DEF Foremost
<1>5. i \in DOMAIN tracks' /\ tracks'[i].aim # NoAim
  BY <1>2 DEF Shown
<1>6. /\ tracks'[i].look.aff = "Foe" /\ ~(tracks'[i].lost > 0)
      /\ Competes(tracks'[i])
  BY <1>2, <1>3, <1>4, CandidatesCompete
<1>7. tracks'[i].lost \in Nat
  <2>1. tracks'[i] \in Track
    BY <1>3, <1>5
  <2>2. tracks'[i].lost \in 0..max_lost
    BY <2>1 DEF Track
  <2> QED
    BY <2>2
<1>8. ASSUME NEW j \in DOMAIN tracks', Competes(tracks'[j])
      PROVE  ~Outranks(tracks'[j], tracks'[i])
  <2>1. j \in Candidates(target_rules, targets)
    BY <1>3, <1>8, CandidatesCompete
  <2> QED
    BY <1>3, <1>4, <2>1, BeforeIsNotOutranked
<1> QED
  BY <1>5, <1>6, <1>7, <1>8 DEF OpensOnBest, Engageable

(* Fire opens on a foe in sight that no target of a better priority, or as   *)
(* good and nearer, competes with: for any number of tracks, any rules and   *)
(* whatever ORDERs have rearranged them.                                     *)
THEOREM FireOpensOnTheBest == CombatSpec => FireOpensOnBest
<1>1. SteeringInv /\ RulesTypeOK /\ [CombatNext]_combat_vars => [OpensOnBest]_combat_vars
  BY BestStep DEF RulesTypeOK
<1> QED
  BY <1>1, SteeringInvariant, RulesStayRules, PTL
     DEF CombatSpec, FireOpensOnBest, OpensOnBest
=============================================================================
