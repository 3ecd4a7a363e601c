----------------------------- MODULE YoloDetector -----------------------------
(***************************************************************************)
(* The detector's model (ONNX Runtime build): the frame thread loads it,   *)
(* reloads it when the operator changes FP16 and falls back when that      *)
(* fails, while other threads may be detecting.  session_mutex_ is shared  *)
(* by detections and exclusive to initialize(); ready_ is read without it. *)
(***************************************************************************)
EXTENDS Naturals, FiniteSets

CONSTANTS
    DetectThreads,      \* callers of detect(); "frame" is one of them
    ModelFiles          \* the model files that exist, of {"fp32", "fp16"}

ASSUME DetectorAssumption == "frame" \in DetectThreads /\ ModelFiles \subseteq {"fp32", "fp16"}

VARIABLES
    ready_, session_,   \* session_: the model loaded, or "none"
    yolo_config,        \* the detector's config_: the model asked for last
    at,                 \* thread -> "idle", "waiting", "running"
    loading,            \* initialize(): "no", "queued", "locked"
    fp16_enabled_, model_path,      \* of CombatPipeline
    fallback            \* <<flag, path>> to return to, or <<>>

detector_vars ==
    <<ready_, session_, yolo_config, at, loading, fp16_enabled_, model_path, fallback>>

\* CombatPipeline::initialize has loaded FP32, or the program would have ended.
DetectorInit ==
    /\ ready_ = TRUE /\ session_ = "fp32" /\ yolo_config = "fp32"
    /\ at = [t \in DetectThreads |-> "idle"]
    /\ loading = "no" /\ fallback = <<>>
    /\ fp16_enabled_ = FALSE /\ model_path = "fp32"

Free(t) == at[t] = "idle" /\ (t = "frame" => loading = "no")

-----------------------------------------------------------------------------
\* detect(): nothing to do while the detector is not ready.
detect(t) ==
    /\ Free(t) /\ ready_ /\ at' = [at EXCEPT ![t] = "waiting"]
    /\ UNCHANGED <<ready_, session_, yolo_config, loading, fp16_enabled_, model_path, fallback>>

\* The session may have gone while the thread waited for the lock.
SessionUnchecked == TRUE
SessionUsable == session_ # "none"

LockShared(t) ==
    /\ at[t] = "waiting" /\ loading # "locked"
    /\ at' = [at EXCEPT ![t] = IF SessionUsable THEN "running" ELSE "idle"]
    /\ UNCHANGED <<ready_, session_, yolo_config, loading, fp16_enabled_, model_path, fallback>>

Detected(t) ==
    /\ at[t] = "running" /\ at' = [at EXCEPT ![t] = "idle"]
    /\ UNCHANGED <<ready_, session_, yolo_config, loading, fp16_enabled_, model_path, fallback>>

-----------------------------------------------------------------------------
\* The FP16 command: a missing file means FP32, and nothing is done when the
\* mode is the one in use.
FP16Command(requested) ==
    LET target == IF requested THEN "fp16" ELSE "fp32"
    IN  /\ Free("frame")
        /\ IF requested /\ "fp16" \notin ModelFiles
           THEN /\ fp16_enabled_' = FALSE /\ model_path' = "fp32"
                /\ UNCHANGED <<loading, fallback>>
           ELSE /\ fp16_enabled_ # requested \/ model_path # target
                /\ fp16_enabled_' = requested /\ model_path' = target
                /\ fallback' = <<fp16_enabled_, model_path>> /\ loading' = "queued"
        /\ UNCHANGED <<ready_, session_, yolo_config, at>>

LockUnique ==
    /\ loading = "queued" /\ \A t \in DetectThreads : at[t] # "running"
    /\ loading' = "locked" /\ yolo_config' = model_path
    /\ UNCHANGED <<ready_, session_, at, fp16_enabled_, model_path, fallback>>

Loads ==
    /\ loading = "locked" /\ yolo_config \in ModelFiles
    /\ session_' = yolo_config /\ ready_' = TRUE
    /\ loading' = "no" /\ fallback' = <<>>
    /\ UNCHANGED <<yolo_config, at, fp16_enabled_, model_path>>

\* What the caller does about a failure: the old model once more, if this was
\* not already the fallback.
FallsBack ==
    IF fallback = <<>>
    THEN loading' = "no" /\ UNCHANGED <<fp16_enabled_, model_path, fallback>>
    ELSE /\ fp16_enabled_' = fallback[1] /\ model_path' = fallback[2]
         /\ fallback' = <<>> /\ loading' = "queued"

\* Any load may fail: no memory, a damaged file.
LoadFails ==
    /\ loading = "locked" /\ ready_' = FALSE /\ session_' = "none"
    /\ FallsBack /\ UNCHANGED <<yolo_config, at>>

DetectorNext ==
    \/ \E t \in DetectThreads : detect(t) \/ LockShared(t) \/ Detected(t)
    \/ \E requested \in BOOLEAN : FP16Command(requested)
    \/ LockUnique \/ Loads \/ LoadFails

DetectorSpec == DetectorInit /\ [][DetectorNext]_detector_vars

-----------------------------------------------------------------------------
(***************************************************************************)
(* A detection runs a loaded model, the one whose classes and input size   *)
(* it is about to read from config_, and never while initialize() changes  *)
(* them; and between reloads the mode the pipeline believes in is that of  *)
(* the model in use.                                                       *)
(***************************************************************************)
DetectsWithItsModel ==
    /\ \A t \in DetectThreads : at[t] = "running" =>
          session_ # "none" /\ session_ = yolo_config /\ loading # "locked"
    /\ loading = "no" /\ ready_ =>
          session_ = model_path /\ fp16_enabled_ = (session_ = "fp16")
=============================================================================
