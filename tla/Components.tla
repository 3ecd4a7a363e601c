------------------------------ MODULE Components ------------------------------
(***************************************************************************)
(* The parts that CombatPipeline only uses, side by side: the trigger, the *)
(* rule engine, the turret driver, the tracker, the configuration store,   *)
(* the detector's model and geometry, the aim solver and the earlier       *)
(* tracker.  They share nothing; a behaviour follows one of them.          *)
(***************************************************************************)
EXTENDS TriggerController, TargetSelection, TurretController, TargetTracker,
        ConfigManager, YoloDetector, DetectionGeometry, AimSolver, TrackingPipeline

VARIABLE part

components_vars ==
    <<trg_vars, selection_vars, turret_vars, tracker_vars, config_vars, detector_vars,
      geometry_vars, aim_vars, tracking_vars, part>>

\* The device may be missing at the start; of a part that is not followed one
\* initial state is enough.
ComponentsInit ==
    /\ part \in {"trigger", "selection", "turret", "tracker", "config", "detector",
                 "geometry", "aim", "tracking"}
    /\ TriggerInit /\ SelectionInit /\ TurretInit /\ TrackerInit /\ ConfigInit
    /\ DetectorInit /\ GeometryInit /\ AimInit /\ TrackingInit
    /\ part # "turret" => plugged

\* A step of the part followed.
Trigger(A)   == part = "trigger" /\ A /\ UNCHANGED
    <<selection_vars, turret_vars, tracker_vars, config_vars, detector_vars,
      geometry_vars, aim_vars, tracking_vars, part>>
Selection(A) == part = "selection" /\ A /\ UNCHANGED
    <<trg_vars, turret_vars, tracker_vars, config_vars, detector_vars,
      geometry_vars, aim_vars, tracking_vars, part>>
Turret(A)    == part = "turret" /\ A /\ UNCHANGED
    <<trg_vars, selection_vars, tracker_vars, config_vars, detector_vars,
      geometry_vars, aim_vars, tracking_vars, part>>
Tracker(A)   == part = "tracker" /\ A /\ UNCHANGED
    <<trg_vars, selection_vars, turret_vars, config_vars, detector_vars,
      geometry_vars, aim_vars, tracking_vars, part>>
Config(A)    == part = "config" /\ A /\ UNCHANGED
    <<trg_vars, selection_vars, turret_vars, tracker_vars, detector_vars,
      geometry_vars, aim_vars, tracking_vars, part>>
Detector(A)  == part = "detector" /\ A /\ UNCHANGED
    <<trg_vars, selection_vars, turret_vars, tracker_vars, config_vars,
      geometry_vars, aim_vars, tracking_vars, part>>
Geometry(A)  == part = "geometry" /\ A /\ UNCHANGED
    <<trg_vars, selection_vars, turret_vars, tracker_vars, config_vars, detector_vars,
      aim_vars, tracking_vars, part>>
Aiming(A)    == part = "aim" /\ A /\ UNCHANGED
    <<trg_vars, selection_vars, turret_vars, tracker_vars, config_vars, detector_vars,
      geometry_vars, tracking_vars, part>>
Tracking(A)  == part = "tracking" /\ A /\ UNCHANGED
    <<trg_vars, selection_vars, turret_vars, tracker_vars, config_vars, detector_vars,
      geometry_vars, aim_vars, part>>

ComponentsNext ==
    \/ Trigger(TriggerNext) \/ Selection(SelectionNext) \/ Turret(TurretNext)
    \/ Tracker(TrackerNext) \/ Config(ConfigNext) \/ Detector(DetectorNext)
    \/ Geometry(GeometryNext) \/ Aiming(AimNext) \/ Tracking(TrackingNext)

ComponentsSpec == ComponentsInit /\ [][ComponentsNext]_components_vars

\* The turret driver's worker is scheduled, and a destructor that can return does.
FairComponentsSpec ==
    /\ ComponentsSpec
    /\ WF_components_vars(Turret(Worker)) /\ WF_components_vars(Turret(Join))
=============================================================================
