---------------------------- MODULE ConfigManager ----------------------------
(***************************************************************************)
(* The configuration store: what loadFromFile takes from a file, what      *)
(* saveToFile writes, and the changes main.cpp and the frame thread make.  *)
(*                                                                         *)
(* A key is a pair <<section, name>>; a file maps the keys it has to       *)
(* numbers and has the sections its keys name.  0 is what OpenCV's         *)
(* `node[key] >> value' stores when the key is missing.  The keys of the   *)
(* nested sections carry the inner section in their name, those outside of *)
(* any section the name "root".                                            *)
(***************************************************************************)
EXTENDS Naturals

CONSTANTS
    Files,      \* what the configuration file may hold
    Edits       \* the values the program and the command line set

VARIABLES
    config_,        \* key -> value
    target_rules_,  \* the rules are those of the file (TRUE) or there are none
    disk,           \* the file: whether it can be read, and its keys
    program         \* "off"; "loaded" when main has read the file; then "running"

config_vars == <<config_, target_rules_, disk, program>>

Keys(section, names) == {<<section, n>> : n \in names}

-----------------------------------------------------------------------------
\* The sections: Required keys are read whenever the section is there, the
\* Guarded ones only if they are there too.
CameraRequired == Keys("camera", {"device_index", "frame_width", "frame_height", "fps_target"})
CameraGuarded  == Keys("camera", {"h_fov_deg", "v_fov_deg"})

GeofenceGuarded == Keys("geofence", {"pan_min", "pan_max", "tilt_min", "tilt_max"})

\* lock_frames_required, its older name, counts frames of 33 ms.
TriggerGuarded ==
    Keys("trigger", {"aim_tolerance_px", "lock_duration_ms", "burst_duration_ms", "cooldown_ms"})
LockDuration == <<"trigger", "lock_duration_ms">>
LockFrames == <<"trigger", "lock_frames_required">>

HsvNames == {"h_min", "h_max", "s_min", "s_max", "v_min", "v_max"}
IffGuarded == Keys("iff.foe_red", HsvNames) \union Keys("iff.friend_blue", HsvNames)

YoloRequired ==
    Keys("yolo", {"model_path", "input_size", "conf_threshold", "nms_threshold", "use_cuda"})
YoloGuarded == Keys("yolo", {"class_names"})

BalloonRequired ==
    Keys("balloon", HsvNames \union {"min_radius_px", "max_radius_px", "min_circularity"})

DistanceRequired ==
    Keys("distance", {"known_balloon_diameter_m", "focal_length_px",
                      "min_distance_m", "max_distance_m"})

BallisticsRequired ==
    Keys("ballistics", {"camera_barrel_offset_x_m", "camera_barrel_offset_y_m",
                        "muzzle_velocity_mps", "zeroing_distance_m",
                        "manual_offset_x_px", "manual_offset_y_px"})
BallisticsGuarded == Keys("ballistics", {"lookup_table"})

TrackingRequired ==
    Keys("tracking", {"iou_threshold", "max_lost_frames", "min_confirm_frames",
                      "velocity_smoothing"})
TrackingGuarded == Keys("tracking", {"max_center_distance_px"})

SerialRequired == Keys("serial", {"port", "baud_rate", "timeout_ms", "enabled"})
SerialGuarded  == Keys("serial", {"protocol"})

NetworkGuarded ==
    Keys("network", {"video_enabled", "telemetry_enabled", "gcs_host", "video_udp_port",
                     "telemetry_tcp_port", "telemetry_push_port", "jpeg_quality",
                     "udp_mtu_bytes"})

LidarGuarded ==
    Keys("lidar", {"enabled", "use_mock", "mock_fixed_distance_m", "mock_min_distance_m",
                   "mock_max_distance_m", "mock_update_hz",
                   "offset_x_m", "offset_y_m", "offset_z_m"})

GeneralGuarded == Keys("root", {"headless", "autonomous", "log_level"})

Required ==
    UNION {CameraRequired, YoloRequired, BalloonRequired, DistanceRequired,
           BallisticsRequired, TrackingRequired, SerialRequired}
Guarded ==
    UNION {CameraGuarded, GeofenceGuarded, TriggerGuarded, IffGuarded, YoloGuarded,
           BallisticsGuarded, TrackingGuarded, SerialGuarded, LidarGuarded, GeneralGuarded}
SystemConfig == Required \union Guarded \union NetworkGuarded

\* Read as an int and stored as a bool.
Flags ==
    {<<"yolo", "use_cuda">>, <<"serial", "enabled">>,
     <<"network", "video_enabled">>, <<"network", "telemetry_enabled">>,
     <<"lidar", "enabled">>, <<"lidar", "use_mock">>, <<"root", "headless">>, <<"root", "autonomous">>}
Stored(key, value) == IF key \in Flags /\ value # 0 THEN 1 ELSE value

-----------------------------------------------------------------------------
\* The section "networking" hides "network"; its newer names win over the others.
NewerName ==
    [gcs_host |-> "target_pc_ip", video_udp_port |-> "video_port",
     telemetry_tcp_port |-> "telemetry_port"]
NetSection(file) ==
    IF \E key \in DOMAIN file : key[1] = "networking" THEN "networking" ELSE "network"
NetValue(file, old, key) ==
    LET plain == <<NetSection(file), key[2]>>
        newer == IF key[2] \in DOMAIN NewerName
                 THEN <<NetSection(file), NewerName[key[2]]>> ELSE plain
    IN  IF newer \in DOMAIN file THEN file[newer]
        ELSE IF plain \in DOMAIN file THEN file[plain] ELSE old

ReadRequired(file, old, key) ==
    IF key \in DOMAIN file THEN file[key]
    ELSE IF \E other \in DOMAIN file : other[1] = key[1] THEN 0 ELSE old

ReadGuarded(file, old, key) ==
    IF key \in DOMAIN file THEN file[key]
    ELSE IF key = LockDuration /\ LockFrames \in DOMAIN file THEN 33 * file[LockFrames]
    ELSE old

Loaded(config, file) ==
    [key \in SystemConfig |->
       Stored(key, IF key \in Required THEN ReadRequired(file, config[key], key)
                   ELSE IF key \in Guarded THEN ReadGuarded(file, config[key], key)
                   ELSE NetValue(file, config[key], key))]

-----------------------------------------------------------------------------
\* What saveToFile writes, section after section.
SavedVision ==
    UNION {Keys("camera", {"device_index", "frame_width", "frame_height", "fps_target",
                           "h_fov_deg", "v_fov_deg"}),
           Keys("geofence", {"pan_min", "pan_max", "tilt_min", "tilt_max"}),
           Keys("trigger", {"aim_tolerance_px", "lock_duration_ms", "burst_duration_ms",
                            "cooldown_ms"}),
           Keys("iff.foe_red", HsvNames), Keys("iff.friend_blue", HsvNames),
           Keys("yolo", {"model_path", "input_size", "conf_threshold", "nms_threshold",
                         "use_cuda", "class_names"})}
SavedAiming ==
    UNION {Keys("balloon", HsvNames
                  \union {"min_radius_px", "max_radius_px", "min_circularity"}),
           Keys("distance", {"known_balloon_diameter_m", "focal_length_px",
                             "min_distance_m", "max_distance_m"}),
           Keys("ballistics", {"camera_barrel_offset_x_m", "camera_barrel_offset_y_m",
                               "muzzle_velocity_mps", "zeroing_distance_m",
                               "manual_offset_x_px", "manual_offset_y_px", "lookup_table"}),
           Keys("tracking", {"iou_threshold", "max_center_distance_px", "max_lost_frames",
                             "min_confirm_frames", "velocity_smoothing"}),
           Keys("serial", {"port", "baud_rate", "timeout_ms", "enabled", "protocol"})}
SavedLinks ==
    UNION {Keys("networking", {"video_enabled", "telemetry_enabled", "target_pc_ip",
                               "video_port", "telemetry_port", "telemetry_push_port",
                               "jpeg_quality", "udp_mtu_bytes"}),
           Keys("lidar", {"enabled", "use_mock", "mock_fixed_distance_m",
                          "mock_min_distance_m", "mock_max_distance_m", "mock_update_hz",
                          "offset_x_m", "offset_y_m", "offset_z_m"}),
           Keys("root", {"headless", "autonomous", "log_level"})}

\* The member a written key comes from.
Member(key) ==
    IF key[1] # "networking" THEN key
    ELSE <<"network", IF \E old \in DOMAIN NewerName : NewerName[old] = key[2]
                      THEN CHOOSE old \in DOMAIN NewerName : NewerName[old] = key[2]
                      ELSE key[2]>>

\* A writer that forgets the key that was added last.
SavedBefore(config) ==
    [key \in (SavedVision \union SavedAiming \union SavedLinks)
               \ {<<"networking", "telemetry_push_port">>} |-> config[Member(key)]]
Saved(config) == [key \in SavedVision \union SavedAiming \union SavedLinks |->
                    config[Member(key)]]

-----------------------------------------------------------------------------
\* Every default is 1, so that a default, a missing key and a file's value differ.
Defaults == [key \in SystemConfig |-> 1]
Nothing == [key \in {} |-> 0]
Unreadable == [readable |-> FALSE, keys |-> Nothing]

\* The program does not run yet.
ConfigInit ==
    /\ config_ = Nothing /\ target_rules_ = FALSE /\ program = "off"
    /\ disk = Unreadable

\* A file that cannot be opened or parsed changes nothing, not even the rules.
loadFromFile(config) ==
    IF ~disk.readable THEN config_' = config /\ UNCHANGED target_rules_
    ELSE /\ config_' = Loaded(config, disk.keys)
         /\ target_rules_' = \E key \in DOMAIN disk.keys : key[1] = "targets"

\* Between two runs of the program somebody writes the file, or loses it.
FileChanges ==
    /\ program = "off"
    /\ disk' \in [readable : {TRUE}, keys : Files] \union {Unreadable}
    /\ UNCHANGED <<config_, target_rules_, program>>

Override(keys) == \E v \in Edits : config_' = [k \in SystemConfig |->
                                                 IF k \in keys THEN Stored(k, v) ELSE config_[k]]

MainLoads ==
    /\ program = "off" /\ program' = "loaded" /\ loadFromFile(Defaults) /\ UNCHANGED disk

\* The command line, of which at most one option is given here (the bound is on
\* the options only: each sets a key of its own); --display and --autonomous
\* take no value.
CommandLine ==
    /\ program = "loaded" /\ program' = "running"
    /\ \/ config_' = [config_ EXCEPT ![<<"root", "headless">>] = 0]
       \/ config_' = [config_ EXCEPT ![<<"root", "autonomous">>] = 1]
       \/ \E key \in {<<"camera", "device_index">>, <<"yolo", "model_path">>, <<"root", "log_level">>,
                       <<"ballistics", "manual_offset_x_px">>,
                       <<"ballistics", "manual_offset_y_px">>} : Override({key})
       \/ UNCHANGED config_
    /\ UNCHANGED <<target_rules_, disk>>

\* What the frame thread sets.
setManualOffset ==
    /\ program = "running" /\ Override(Keys("ballistics", {"manual_offset_x_px", "manual_offset_y_px"}))
    /\ UNCHANGED <<target_rules_, disk, program>>
setBalloonHsv ==
    /\ program = "running" /\ Override(Keys("balloon", HsvNames))
    /\ UNCHANGED <<target_rules_, disk, program>>
setAutonomous ==
    /\ program = "running" /\ Override(Keys("root", {"autonomous"}))
    /\ UNCHANGED <<target_rules_, disk, program>>

\* The file may not be writable.
saveToFile ==
    /\ program = "running"
    /\ disk' \in {[readable |-> TRUE, keys |-> Saved(config_)], disk}
    /\ UNCHANGED <<config_, target_rules_, program>>

MainEnds ==
    /\ program = "running" /\ program' = "off"
    /\ config_' = Nothing /\ target_rules_' = FALSE /\ UNCHANGED disk

ConfigNext ==
    \/ FileChanges \/ MainLoads \/ CommandLine \/ setManualOffset \/ setBalloonHsv \/ setAutonomous
    \/ saveToFile \/ MainEnds

ConfigSpec == ConfigInit /\ [][ConfigNext]_config_vars

-----------------------------------------------------------------------------
(***************************************************************************)
(* Loader and writer agree on every name, alias and flag: a configuration  *)
(* saved now and loaded at the next start is the one the program has.      *)
(***************************************************************************)
SavedIsRestored == program # "off" => Loaded(Defaults, Saved(config_)) = config_

(***************************************************************************)
(* "JSON dosyasından okur, varsayılan değerlerle birleştirir"              *)
(* (config_manager.hpp:208): what the file does not give keeps its default *)
(* value.  A required key that is missing becomes 0.                       *)
(***************************************************************************)
MissingKeysKeepDefaults ==
    \A key \in Required :
       program = "loaded" /\ disk.readable /\ key \notin DOMAIN disk.keys => config_[key] # 0
=============================================================================
