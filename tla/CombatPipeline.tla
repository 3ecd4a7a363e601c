---------------------------- MODULE CombatPipeline ----------------------------
(***************************************************************************)
(* The frame loop of raspi/src/sancak/combat_pipeline.cpp: operator        *)
(* commands, the fail-safe branches of processFrame, the decision, the     *)
(* trigger and what it all tells the turret driver.                        *)
(*                                                                         *)
(* One thread does all of it: a frame is "any commands that have arrived,  *)
(* then the body", so commands and bodies are actions in any order.        *)
(*                                                                         *)
(* The turret driver appears as its latches lastPose and lastFire, which   *)
(* TurretController shows to be what the turret board will believe.  What  *)
(* YOLO, IFF, the tracker's matching, the balloon segmentation and the aim *)
(* solver find in an image is chosen freely; what they keep from frame to  *)
(* frame is not.  Angles are whole degrees, below the deadzone they are 0. *)
(***************************************************************************)
EXTENDS TriggerController, CombatStateMachine

CONSTANTS
    Looks,         \* class and affiliation a track may be given: [cls, aff]
    Aims,          \* solutions: [pan, tilt (degrees to turn), within, distance]
    MaxTracks,     \* bound on the tracks of a frame
    max_lost,      \* config_.tracking.max_lost_frames
    WatchdogLimit, \* 500 ms
    FenceRequests, \* arguments of GEOFENCE, in any order
    OrderRequests, \* arguments of ORDER
    Moves          \* arguments of MOVE: [pan, tilt] steps of one degree

VARIABLES
    autonomous,        \* config_.autonomous
    detection_enabled,
    fence,             \* config_.geofence
    pose,              \* current_pan_deg_, current_tilt_deg_
    tracks,            \* tracker_.tracks_
    camera,            \* camera_.read() delivers frames
    frame_age,         \* now - last_valid_frame_time_, saturating
    lastPose, lastFire,\* the driver's latches
    safe               \* the last frame (or DETECT:STOP) asked for a safe lock

turret_vars == <<lastPose, lastFire, safe>>
mode_vars   == <<autonomous, detection_enabled>>
camera_vars == <<camera, frame_age>>
combat_vars == <<trg_vars, sm_vars, mode_vars, camera_vars, turret_vars,
                 fence, pose, tracks>>

NoAim == [pan |-> 0, tilt |-> 0, within |-> FALSE, distance |-> -1]

ASSUME CombatAssumption ==
    /\ Looks \subseteq [cls : STRING, aff : {"Friend", "Foe", "Unknown"}]
    /\ Aims \subseteq [pan : Int, tilt : Int, within : BOOLEAN, distance : Nat]
    /\ MaxTracks \in Nat /\ max_lost \in Nat /\ WatchdogLimit \in Nat
    /\ FenceRequests \subseteq Fences /\ OrderRequests \subseteq Seq(STRING)
    /\ Moves \subseteq [pan : Int, tilt : Int]

\* balloon: found by the last segmentation of this track; aim: its last solution.
Track == [look : Looks, lost : 0..max_lost, balloon : BOOLEAN, aim : Aims \union {NoAim}]
Pose  == [pan : Int, tilt : Int]

-----------------------------------------------------------------------------
Origin == [pan |-> 0, tilt |-> 0]

Ordered2(a, b) == IF a > b THEN <<b, a>> ELSE <<a, b>>

\* GEOFENCE swaps limits given the wrong way round.
Sorted(f) == LET p == Ordered2(f.pan_min, f.pan_max)
                 t == Ordered2(f.tilt_min, f.tilt_max)
             IN  [pan_min |-> p[1], pan_max |-> p[2], tilt_min |-> t[1], tilt_max |-> t[2]]

Clip(x, lo, hi) == IF x < lo THEN lo ELSE IF x > hi THEN hi ELSE x

Clamped(f, p) == [pan  |-> Clip(p.pan, f.pan_min, f.pan_max),
                  tilt |-> Clip(p.tilt, f.tilt_min, f.tilt_max)]

Turned(p, by) == [pan |-> p.pan + by.pan, tilt |-> p.tilt + by.tilt]

\* initialize(), with any configured fence; config_.autonomous is a setting too.
CombatInit ==
    /\ TriggerInit
    /\ target_rules = ConfigRules
    /\ fence \in {Sorted(f) : f \in FenceRequests} /\ geofence = fence
    /\ autonomous \in BOOLEAN /\ detection_enabled = TRUE
    /\ pose = Origin /\ tracks = <<>>
    /\ camera \in BOOLEAN /\ frame_age = 0
    /\ lastPose = Origin /\ lastFire = FALSE /\ safe = FALSE

\* sendCommand(pan, tilt, on) alone, and after sendSafeLock().
Command(p, on) == lastPose' = p /\ lastFire' = on /\ safe' = FALSE
SafeLock       == lastPose' = pose /\ lastFire' = FALSE /\ safe' = TRUE

-----------------------------------------------------------------------------
(* handleNetworkCommand: OVERLAY, SET and FP16 change how images are         *)
(* processed and drawn, and none of the state above.                         *)

DETECT_START ==
    /\ detection_enabled' = TRUE
    /\ UNCHANGED <<autonomous, trg_vars, sm_vars, camera_vars, turret_vars, fence,
                   pose, tracks>>

\* Faulty variant: the tracks survive a stop.
DETECT_STOP_KeepTracks ==
    /\ detection_enabled' = FALSE
    /\ reset /\ SafeLock
    /\ UNCHANGED <<autonomous, sm_vars, camera_vars, fence, pose, tracks>>

DETECT_STOP ==
    /\ detection_enabled' = FALSE
    /\ tracks' = <<>> /\ reset
    /\ SafeLock
    /\ UNCHANGED <<autonomous, sm_vars, camera_vars, fence, pose>>

MODE_FULL_AUTO ==
    /\ autonomous' = TRUE /\ detection_enabled' = TRUE
    /\ UNCHANGED <<trg_vars, sm_vars, camera_vars, turret_vars, fence, pose, tracks>>

MODE_MANUAL ==
    /\ autonomous' = FALSE
    /\ UNCHANGED <<detection_enabled, trg_vars, sm_vars, camera_vars, turret_vars,
                   fence, pose, tracks>>

\* The trigger keeps its state: only this one order says "cease fire".
MOVE(by) ==
    /\ pose' = Clamped(fence, Turned(pose, by))
    /\ lastPose' = pose' /\ lastFire' = FALSE
    /\ UNCHANGED <<safe, mode_vars, trg_vars, sm_vars, camera_vars, fence, tracks>>

\* Faulty variant: the pose is left where it was.
GEOFENCE_Unclamped(req) ==
    /\ fence' = Sorted(req)
    /\ setGeofence(fence')
    /\ UNCHANGED <<pose, mode_vars, trg_vars, camera_vars, turret_vars, tracks>>

\* Nothing is sent: the clamped pose reaches the turret with the next frame.
GEOFENCE(req) ==
    /\ fence' = Sorted(req)
    /\ setGeofence(fence')
    /\ pose' = Clamped(fence', pose)
    /\ UNCHANGED <<mode_vars, trg_vars, camera_vars, turret_vars, tracks>>

ORDER(names) ==
    /\ setRules(Ordered(names))
    /\ UNCHANGED <<mode_vars, trg_vars, camera_vars, turret_vars, fence, pose, tracks>>

handleNetworkCommand ==
    \/ DETECT_START \/ DETECT_STOP \/ MODE_FULL_AUTO \/ MODE_MANUAL
    \/ \E by \in Moves : MOVE(by)
    \/ \E req \in FenceRequests : GEOFENCE(req)
    \/ \E names \in OrderRequests : ORDER(names)

\* The 'a' key, read after a frame is shown.
ToggleAutonomous ==
    /\ camera
    /\ autonomous' = ~autonomous
    /\ UNCHANGED <<detection_enabled, trg_vars, sm_vars, camera_vars, turret_vars,
                   fence, pose, tracks>>

-----------------------------------------------------------------------------
(* The early returns of processFrame.                                        *)

\* Faulty variant: the watchdog locks the turret but does not cease fire.
WatchdogFrameStillFiring ==
    /\ ~camera /\ frame_age > WatchdogLimit
    /\ tracks' = <<>> /\ reset
    /\ safe' = TRUE
    /\ UNCHANGED <<lastPose, lastFire, mode_vars, sm_vars, camera_vars, fence, pose>>

WatchdogFrame ==
    /\ ~camera /\ frame_age > WatchdogLimit
    /\ tracks' = <<>> /\ reset
    /\ SafeLock
    /\ UNCHANGED <<mode_vars, sm_vars, camera_vars, fence, pose>>

EmptyFrame ==
    /\ ~camera /\ frame_age <= WatchdogLimit
    /\ reset
    /\ Command(pose, FALSE)
    /\ UNCHANGED <<mode_vars, sm_vars, camera_vars, fence, pose, tracks>>

FrameArrives == camera /\ frame_age' = 0 /\ UNCHANGED camera

DetectionOffFrame ==
    /\ FrameArrives /\ ~detection_enabled
    /\ tracks' = <<>> /\ reset
    /\ SafeLock
    /\ UNCHANGED <<mode_vars, sm_vars, fence, pose>>

\* Faulty variant: a frame without detections sends nothing while it holds fire.
NothingSeenFrameSilent ==
    /\ FrameArrives /\ detection_enabled
    /\ reset
    /\ IF lastFire THEN Command(pose, FALSE) ELSE UNCHANGED turret_vars
    /\ UNCHANGED <<mode_vars, sm_vars, fence, pose, tracks>>

\* Without detections the tracker is not even called: its tracks do not age.
NothingSeenFrame ==
    /\ FrameArrives /\ detection_enabled
    /\ reset
    /\ Command(pose, FALSE)
    /\ UNCHANGED <<mode_vars, sm_vars, fence, pose, tracks>>

-----------------------------------------------------------------------------
(* A frame with detections.                                                  *)

Missed == [cls |-> "none", aff |-> "Unknown"]

\* TargetTracker::update of one track; its aim and balloon stay.
Observed(t, look) == IF look = Missed THEN [t EXCEPT !.lost = @ + 1]
                     ELSE [t EXCEPT !.look = look, !.lost = 0]

Fresh(look) == [look |-> look, lost |-> 0, balloon |-> FALSE, aim |-> NoAim]

Alive(ts) == {i \in DOMAIN ts : ts[i].lost <= max_lost}

\* The positions of S in increasing order, as erase(remove_if) keeps them.
InOrder(S) == {f \in [1..Cardinality(S) -> S] :
                  \A i, j \in DOMAIN f : i < j => f[i] < f[j]}

\* The tracks left of those there were; seen says what each was matched with.
Kept(seen) ==
    LET observed == [i \in DOMAIN tracks |-> Observed(tracks[i], seen[i])]
    IN  {[k \in DOMAIN f |-> observed[f[k]]] : f \in InOrder(Alive(observed))}

\* The detections that matched no track; one detection in all, at least.
Unmatched(seen) == {looks \in BoundedSeq(Looks, MaxTracks) :
                      looks # <<>> \/ \E i \in DOMAIN seen : seen[i] # Missed}

Begun(looks) == [i \in DOMAIN looks |-> Fresh(looks[i])]

\* TargetTracker::update; a new track is not lost, so it outlives the cleaning.
Updated(seen) ==
    {kept \o Begun(looks) : kept \in Kept(seen), looks \in Unmatched(seen)}

\* shouldTreatAsEnemy
Enemy(look) == \/ look.aff = "Foe"
               \/ look.aff = "Unknown" /\ look.cls \notin {"Friendly", "Unknown"}

\* Segmentation and aim of one track: a balloon not found leaves the old aim.
Segmented(t, aim) ==
    IF ~Enemy(t.look) THEN t
    ELSE IF aim = NoAim THEN [t EXCEPT !.balloon = FALSE]
    ELSE [t EXCEPT !.balloon = TRUE, !.aim = aim]

\* The aim loop over all tracks.
AimPass(ts) ==
    {[i \in DOMAIN ts |-> Segmented(ts[i], found[i])] :
        found \in [DOMAIN ts -> Aims \union {NoAim}]}

\* Faulty variant: a track that YOLO did not see this frame counts as seen.
ShownNeverLost(ts) ==
    [i \in {i \in DOMAIN ts : Enemy(ts[i].look) /\ ts[i].aim # NoAim} |->
        [cls |-> ts[i].look.cls, aff |-> ts[i].look.aff,
         is_lost |-> FALSE, distance |-> ts[i].aim.distance]]

\* sm_targets
Shown(ts) ==
    [i \in {i \in DOMAIN ts : Enemy(ts[i].look) /\ ts[i].aim # NoAim} |->
        [cls |-> ts[i].look.cls, aff |-> ts[i].look.aff,
         is_lost |-> ts[i].lost > 0, distance |-> ts[i].aim.distance]]

\* Faulty variant: the trigger also runs while the operator is in control.
EngageAlways(aim) ==
    /\ pose' = Turned(pose, aim)
    /\ update(aim.within)
    /\ Command(pose', fire_flag')

\* Inside the fence: turn, and let the trigger decide if the system may fire.
Engage(aim) ==
    /\ pose' = Turned(pose, aim)
    /\ IF autonomous THEN update(aim.within) ELSE reset
    /\ Command(pose', fire_flag')

\* Faulty variant: the fence is checked against the pose before the turn.
ReachableBefore(aim) == Inside(fence, pose)

Reachable(aim) == Inside(fence, Turned(pose, aim))

Act(decision) ==
    CASE decision.state = "SafeLock" -> reset /\ SafeLock /\ UNCHANGED pose
      [] decision.state = "Searching" -> reset /\ Command(pose, FALSE) /\ UNCHANGED pose
      [] decision.state = "Engaging" ->
            LET aim == tracks'[decision.locked].aim
            IN  IF Reachable(aim) THEN Engage(aim)
                ELSE reset /\ SafeLock /\ UNCHANGED pose

SeenFrame ==
    /\ FrameArrives /\ detection_enabled
    /\ \E seen \in [DOMAIN tracks -> Looks \union {Missed}] : \E now \in Updated(seen) :
          Len(now) <= MaxTracks /\ tracks' \in AimPass(now)
    \* (bound to singletons, so that TLC evaluates each of them once)
    /\ \E sm_targets \in {Shown(tracks')} :
          \E decision \in {Decide(sm_targets, pose)} : Act(decision)
    /\ UNCHANGED <<mode_vars, sm_vars, fence>>

processFrame ==
    \/ WatchdogFrame \/ EmptyFrame
    \/ DetectionOffFrame \/ NothingSeenFrame \/ SeenFrame

-----------------------------------------------------------------------------
CameraChanges ==
    /\ camera' = ~camera
    /\ UNCHANGED <<frame_age, trg_vars, sm_vars, mode_vars, turret_vars, fence, pose,
                   tracks>>

Tick ==
    /\ TriggerTick
    /\ frame_age' = IF frame_age > WatchdogLimit THEN frame_age ELSE frame_age + 1
    /\ UNCHANGED <<camera, sm_vars, mode_vars, turret_vars, fence, pose, tracks>>

CombatNext ==
    \/ handleNetworkCommand \/ ToggleAutonomous
    \/ processFrame
    \/ CameraChanges \/ Tick

CombatSpec == CombatInit /\ [][CombatNext]_combat_vars

\* The main loop keeps processing frames (run() hands in an empty one when the
\* camera delivers none, and a frame consumes at most 64 commands); time goes on.
FairCombatSpec ==
    /\ CombatSpec
    /\ WF_combat_vars(processFrame)
    /\ WF_combat_vars(Tick)

-----------------------------------------------------------------------------
(***************************************************************************)
(* A fire order in force has a reason, between any two commands and frames *)
(* of any history: detection is on, the trigger is in a burst, and some    *)
(* track is a foe that YOLO saw in the last frame with detections and that *)
(* has been aimed at.  (MOVE drops the order without the trigger knowing,  *)
(* so the converse does not hold.)                                         *)
(***************************************************************************)
Engageable(t) == t.look.aff = "Foe" /\ t.lost = 0 /\ t.aim # NoAim

FireHasReason ==
    lastFire => /\ detection_enabled
                /\ trg_state = "FIRING" /\ fire_flag
                /\ \E i \in DOMAIN tracks : Engageable(tracks[i])

(***************************************************************************)
(* While detection is off nothing of an engagement is left to resume from: *)
(* no track, no lock or burst in progress, no fire order, whatever arrived *)
(* between the stop and now.                                               *)
(***************************************************************************)
StopLeavesNothing ==
    ~detection_enabled => tracks = <<>> /\ trg_state = "SEARCHING" /\ ~lastFire

(***************************************************************************)
(* The two copies of the geofence agree, it is never empty (std::clamp     *)
(* needs that), and the pose the pipeline steers from is inside it, unless *)
(* nothing ever moved the turret from its start.                           *)
(***************************************************************************)
FenceInForce ==
    /\ geofence = fence
    /\ fence.pan_min <= fence.pan_max /\ fence.tilt_min <= fence.tilt_max
    /\ ~Inside(fence, pose) => pose = Origin /\ lastPose = Origin

\* The inductive invariant behind the theorems of CombatPipeline_proofs: the
\* types of what the turret is steered by, and the fence.
SteeringInv ==
    /\ fence \in Fences /\ pose \in Pose /\ tracks \in Seq(Track)
    /\ FenceInForce

(***************************************************************************)
(* No step turns the turret to a pose outside the geofence in force, be it *)
(* an aim, an operator step or the aftermath of a new geofence.            *)
(***************************************************************************)
TurnsInsideFence == [][lastPose' # lastPose => Inside(fence', lastPose')]_combat_vars

(***************************************************************************)
(* Fire is only ever opened in autonomous mode, by a frame the camera      *)
(* delivered, with the turret inside the geofence and after the aim stayed *)
(* on target for the lock duration or in the burst that followed.          *)
(***************************************************************************)
FireIsAuthorised ==
    [][~lastFire /\ lastFire' =>
          /\ autonomous /\ detection_enabled /\ camera
          /\ Inside(fence, lastPose')
          /\ trg_state = "FIRING" \/ lock_age >= lock_duration \/ lock_duration = 0]_combat_vars

(***************************************************************************)
(* Fire opens on a foe in sight that no target of a better priority, or of *)
(* the same priority and nearer, competes with (a wrong order costs points,*)
(* combat_rules of raspi/config): tracks left over from earlier frames,    *)
(* their old aims and an ORDER since then included.                        *)
(***************************************************************************)
Competes(t) ==
    /\ t.look.aff # "Friend" /\ t.aim # NoAim
    /\ t.look.cls \in DOMAIN target_rules
    /\ t.aim.distance \in target_rules[t.look.cls].min..target_rules[t.look.cls].max

Outranks(t, u) ==
    LET p(v) == target_rules[v.look.cls].priority
    IN  \/ p(t) < p(u)
        \/ p(t) = p(u) /\ t.aim.distance < u.aim.distance

FireOpensOnBest ==
    [][~lastFire /\ lastFire' =>
          \E i \in DOMAIN tracks' :
             /\ Engageable(tracks'[i]) /\ Competes(tracks'[i])
             /\ \A j \in DOMAIN tracks' :
                   Competes(tracks'[j]) => ~Outranks(tracks'[j], tracks'[i])]_combat_vars

(***************************************************************************)
(* A turret left outside a new geofence is brought back inside, without    *)
(* any further command (a GEOFENCE sends nothing itself).                  *)
(***************************************************************************)
TurretReturns ==
    Inside(fence, pose) /\ ~Inside(fence, lastPose) ~> Inside(fence, lastPose)

(***************************************************************************)
(* If the camera fails for good, the turret ends up with no fire order and *)
(* a safe lock, whatever the operator commands in the meantime.            *)
(***************************************************************************)
CameraLossIsSafe == []<>camera \/ <>[](~lastFire /\ safe)

(***************************************************************************)
(* A fire order never stays in force for ever: every burst ends, however   *)
(* commands and frames of any kind are interleaved with it.                *)
(***************************************************************************)
FireEnds == lastFire ~> ~lastFire

(***************************************************************************)
(* What _extra/TEKNIK_DOKUMAN.md (scenario 2) expects of a lost balloon:   *)
(* the fire order is cut, so one in force sees a balloon.                  *)
(***************************************************************************)
FireSeesBalloon == lastFire => \E i \in DOMAIN tracks : tracks[i].balloon
=============================================================================
