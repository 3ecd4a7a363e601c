--------------------------- MODULE TrackingPipeline ---------------------------
(***************************************************************************)
(* The earlier tracker: motion opens a region of interest, a target found  *)
(* in it by colour is followed and looked for again every few frames.      *)
(* The scene is where the target stands on a line, or NoOne; a motion   *)
(* region covers what changed between two frames.                          *)
(***************************************************************************)
EXTENDS Integers

CONSTANTS
    Positions,                  \* places in the frame, a range of integers
    roiExpansion_, trackReconfirmInterval_,
    LocalReach,                 \* 60 pixels around the last target
    RoiTimeout                  \* 2000 ms, in ticks

ASSUME TrackingAssumption ==
    /\ Positions \subseteq Nat
    /\ roiExpansion_ \in Nat /\ trackReconfirmInterval_ \in Nat \ {0}
    /\ LocalReach \in Nat /\ RoiTimeout \in Nat

NoOne == -1
NoRoi    == [from |-> 0, to |-> -1]

VARIABLES
    state_, roi_, lastTarget_,
    previousGray_,      \* the motion detector's frame, or NoFrame
    roiTimestamp_,      \* ticks since the ROI was opened, RoiTimeout + 1 at most
    frameCount_,        \* modulo trackReconfirmInterval_
    target,             \* what the last process() returned
    unseen              \* history: frames since lastTarget_ was found

tracking_vars ==
    <<state_, roi_, lastTarget_, previousGray_, roiTimestamp_, frameCount_, target, unseen>>

NoFrame == -2
Scenes_ == Positions \union {NoOne}

TrackingInit ==
    /\ state_ = "IDLE" /\ roi_ = NoRoi /\ lastTarget_ = NoOne
    /\ previousGray_ = NoFrame /\ roiTimestamp_ = 0 /\ frameCount_ = 0
    /\ target = NoOne /\ unseen = 0

-----------------------------------------------------------------------------
\* detectMotionRegion: the first frame is only remembered, and noise or a small
\* change goes unseen.
Changed(scene) == {previousGray_, scene} \ {NoOne}
MotionRegions(scene) ==
    IF previousGray_ \in {NoFrame, scene} THEN {NoRoi}
    ELSE {NoRoi} \union
         {[from |-> CHOOSE a \in Changed(scene) : \A b \in Changed(scene) : a <= b,
           to   |-> CHOOSE a \in Changed(scene) : \A b \in Changed(scene) : a >= b]}

\* The colour filter may miss a target that is there; it invents none.
searchTarget(scene, region) ==
    IF region.from <= scene /\ scene <= region.to /\ scene # NoOne
    THEN {scene, NoOne} ELSE {NoOne}

Around(region, reach) == [from |-> region.from - reach, to |-> region.to + reach]

ManualMode ==
    /\ state_' = "IDLE" /\ roi_' = NoRoi /\ lastTarget_' = NoOne
    /\ previousGray_' = NoFrame /\ roiTimestamp_' = RoiTimeout + 1
    /\ target' = NoOne /\ unseen' = 0

Idle(scene) ==
    /\ state_ = "IDLE"
    /\ \E region \in MotionRegions(scene) :
          IF region = NoRoi THEN UNCHANGED <<state_, roi_, roiTimestamp_>>
          ELSE /\ state_' = "ROI" /\ roi_' = Around(region, roiExpansion_)
               /\ roiTimestamp_' = 0
    /\ previousGray_' = scene
    /\ target' = NoOne /\ UNCHANGED <<lastTarget_, unseen>>

Roi(scene) ==
    /\ state_ = "ROI"
    /\ \E found \in searchTarget(scene, roi_) :
          /\ target' = found
          /\ IF found # NoOne
             THEN /\ lastTarget_' = found /\ unseen' = 0 /\ state_' = "TRACK"
                  /\ UNCHANGED roi_
             ELSE /\ UNCHANGED <<lastTarget_, unseen>>
                  /\ IF roiTimestamp_ > RoiTimeout THEN state_' = "IDLE" /\ roi_' = NoRoi
                     ELSE UNCHANGED <<state_, roi_>>
    /\ UNCHANGED <<previousGray_, roiTimestamp_>>

\* When a search for the followed target fails.
TargetLost(region) == state_' = "ROI" /\ roi_' = region /\ roiTimestamp_' = 0
LostButKept(region) == roi_' = region /\ roiTimestamp_' = 0 /\ UNCHANGED state_
OnLoss(region) == TargetLost(region)

\* A lost target is reported once more.
Track(scene) ==
    LET region == Around([from |-> lastTarget_, to |-> lastTarget_], LocalReach)
    IN  /\ state_ = "TRACK"
        /\ IF frameCount_' = 0
           THEN \E found \in searchTarget(scene, region) :
                   IF found # NoOne
                   THEN /\ lastTarget_' = found /\ unseen' = 0
                        /\ UNCHANGED <<state_, roi_, roiTimestamp_>>
                   ELSE /\ OnLoss(region) /\ unseen' = unseen + 1
                        /\ UNCHANGED lastTarget_
           ELSE /\ unseen' = unseen + 1
                /\ UNCHANGED <<state_, roi_, lastTarget_, roiTimestamp_>>
        /\ target' = lastTarget_'
        /\ UNCHANGED previousGray_

process(scene, autonomous) ==
    /\ frameCount_' = (frameCount_ + 1) % trackReconfirmInterval_
    /\ IF ~autonomous THEN ManualMode ELSE Idle(scene) \/ Roi(scene) \/ Track(scene)

Tick ==
    /\ roiTimestamp_ <= RoiTimeout /\ roiTimestamp_' = roiTimestamp_ + 1
    /\ UNCHANGED <<state_, roi_, lastTarget_, previousGray_, frameCount_, target, unseen>>

TrackingNext ==
    Tick \/ \E scene \in Scenes_, autonomous \in BOOLEAN : process(scene, autonomous)

TrackingSpec == TrackingInit /\ [][TrackingNext]_tracking_vars

-----------------------------------------------------------------------------
(***************************************************************************)
(* A reported target was seen within the last reconfirmation interval,     *)
(* however the confirmations fall, through losses, time-outs and changes   *)
(* of mode.                                                                *)
(***************************************************************************)
ReportIsFresh ==
    /\ state_ = "TRACK" => lastTarget_ # NoOne
    /\ target # NoOne => target = lastTarget_ /\ unseen <= trackReconfirmInterval_
=============================================================================
