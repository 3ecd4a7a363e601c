--------------------------- MODULE Components_proofs ---------------------------
(***************************************************************************)
(* The parts that CombatPipeline only uses, each for every configuration.  *)
(***************************************************************************)
EXTENDS TargetSelection, YoloDetector, TrackingPipeline, ConfigManager, AimSolver,
        DetectionGeometry, TargetTracker, CombatStateMachine_proofs, FiniteSetTheorems

-----------------------------------------------------------------------------
(* The rule engine for any rules, targets and ORDERs, frames of any length.  *)

LEMMA RangesInitially == SelectionInit => RangesKept
  BY RulesAssumption, SelectionAssumption
     DEF SelectionInit, RangesKept, SelectionTypeOK, StateMachineTypeOK

LEMMA RangesStep ==
    ASSUME RangesKept, [SelectionNext]_selection_vars
    PROVE  RangesKept'
<1> USE DEF RangesKept, SelectionTypeOK, StateMachineTypeOK, sm_vars
<1>1. ASSUME NEW t \in Targets, push_back(t)
      PROVE  RangesKept'
  <2>1. sm_targets' \in Seq(Targets) /\ Len(sm_targets') <= MaxTargets
    BY <1>1, SelectionAssumption DEF push_back
  <2> QED
    BY <1>1, <2>1 DEF push_back
<1>2. CASE EndFrame
  BY <1>2, SelectionAssumption DEF EndFrame
<1>3. ASSUME NEW names \in OrderRequests, ORDER(names)
      PROVE  RangesKept'
  <2>1. names \in Seq(STRING)
    BY SelectionAssumption
  <2>2. target_rules' = Ordered(names) /\ UNCHANGED <<geofence, sm_targets>>
    BY <1>3 DEF ORDER, setRules
  <2>3. Ordered(names) \in RuleMaps
    BY <2>1, OrderedIsMap
  <2>4. \A c \in DOMAIN ConfigRules :
          /\ c \in DOMAIN Ordered(names)
          /\ Ordered(names)[c].min = ConfigRules[c].min
          /\ Ordered(names)[c].max = ConfigRules[c].max
    BY <2>1, OrderedKeepsRanges
  <2>5. IsRuleMap(Ordered(names))
    BY <2>3, RuleMapsAreMaps
  <2> QED
    BY <2>2, <2>4, <2>5
<1>4. CASE UNCHANGED selection_vars
  BY <1>4 DEF selection_vars
<1> QED
  BY <1>1, <1>2, <1>3, <1>4 DEF SelectionNext

(* An ORDER, or any number of them, changes no configured engagement range.  *)
THEOREM RangesAreKept == SelectionSpec => []RangesKept
<1>1. RangesKept /\ [SelectionNext]_selection_vars => RangesKept'
  BY RangesStep
<1> QED
  BY <1>1, RangesInitially, PTL DEF SelectionSpec

LEMMA TargetsAreVector ==
    ASSUME RangesKept
    PROVE  /\ target_rules \in RuleMaps /\ sm_targets \in Seq(Targets)
           /\ Vector(sm_targets)
<1>1. target_rules \in RuleMaps /\ sm_targets \in Seq(Targets)
  BY RuleMapsAreMaps DEF RangesKept, SelectionTypeOK, StateMachineTypeOK
<1>2. \A i \in DOMAIN sm_targets : i \in Int /\ sm_targets[i] \in Targets
  BY <1>1
<1>3. \A t \in Targets : t.distance \in Int
  BY SelectionAssumption
<1> QED
  BY <1>1, <1>2, <1>3 DEF Vector

(* The loop with best_priority and best_distance finds the least eligible    *)
(* target, in a frame of any length, and none only when none is eligible.    *)
THEOREM ScanIsCorrect == SelectionSpec => []ScanFindsBest
<1>1. RangesKept => ScanFindsBest
  BY TargetsAreVector, ScanIsForemost DEF ScanFindsBest
<1> QED
  BY <1>1, RangesAreKept, PTL

(* An ORDER without repetition decides: the class of the selected target is  *)
(* never named after that of another eligible one.                           *)
THEOREM OrdersAreObeyed == SelectionSpec => []OrderIsObeyed
<1>1. RangesKept => OrderIsObeyed
  <2> SUFFICES ASSUME RangesKept, NEW names \in OrderRequests, IsInjective(names),
                      RuleClasses \subseteq Range(names), target_rules = Ordered(names),
                      NEW i \in Candidates(target_rules, sm_targets)
               PROVE  LET best == Best(target_rules, sm_targets)
                      IN  Rank(names, sm_targets[best].cls) <= Rank(names, sm_targets[i].cls)
    BY DEF OrderIsObeyed
  <2> DEFINE best == Best(target_rules, sm_targets)
  <2>1. names \in Seq(STRING)
    BY SelectionAssumption
  <2>2. \A m, n \in 1..Len(names) : names[m] = names[n] => m = n
    BY <2>1 DEF IsInjective
  <2>3. /\ target_rules \in RuleMaps /\ best \in Candidates(target_rules, sm_targets)
        /\ Before(target_rules, sm_targets, best, i)
    <3>1. Foremost(target_rules, sm_targets) = {best}
      BY TargetsAreVector, ScanIsForemost
    <3> HIDE DEF best
    <3>2. best \in Foremost(target_rules, sm_targets)
      BY <3>1
    <3> QED
      BY <3>2, TargetsAreVector DEF Foremost
  <2> HIDE DEF best
  <2>4. ASSUME NEW j \in Candidates(target_rules, sm_targets)
        PROVE  /\ sm_targets[j].cls \in RuleClasses
               /\ Rank(names, sm_targets[j].cls) \in 1..Len(names)
               /\ names[Rank(names, sm_targets[j].cls)] = sm_targets[j].cls
    <3>1. sm_targets[j].cls \in RuleClasses
      BY <2>3, RulesOfMap DEF Candidates, Eligible
    <3>2. \E n \in DOMAIN names : names[n] = sm_targets[j].cls
      BY <3>1 DEF Range
    <3> QED
      BY <2>1, <3>1, <3>2 DEF Rank
  <2> DEFINE m == Rank(names, sm_targets[i].cls)
             n == Rank(names, sm_targets[best].cls)
  <2>5. m \in 1..Len(names) /\ n \in 1..Len(names)
    BY <2>3, <2>4
  <2>6. ASSUME m < n
        PROVE  FALSE
    <3>1. target_rules[sm_targets[i].cls].priority < target_rules[sm_targets[best].cls].priority
      BY <2>1, <2>2, <2>3, <2>4, <2>5, <2>6, OrderedByRank
    <3>2. /\ target_rules[sm_targets[i].cls].priority \in Int
          /\ target_rules[sm_targets[best].cls].priority \in Int
      BY <2>3, KeysAreNumbers
    <3>3. target_rules[sm_targets[best].cls].priority <= target_rules[sm_targets[i].cls].priority
      BY <2>3, <3>2 DEF Before
    <3> QED
      BY <3>1, <3>2, <3>3
  <2> HIDE DEF m, n
  <2>7. n <= m
    BY <2>5, <2>6
  <2> QED
    BY <2>7 DEF m, n, best
<1> QED
  BY <1>1, RangesAreKept, PTL

-----------------------------------------------------------------------------
(* The detector's model for any set of detecting threads, and whichever      *)
(* model files exist: TLC checks two threads with both files.                *)

Models == {"fp32", "fp16"}

ModelTypeOK ==
    /\ ready_ \in BOOLEAN /\ session_ \in Models \union {"none"} /\ yolo_config \in Models
    /\ at \in [DetectThreads -> {"idle", "waiting", "running"}]
    /\ loading \in {"no", "queued", "locked"}
    /\ model_path \in Models

\* The pipeline's flag and path, and the pair to fall back to, name one model.
ModesAgree ==
    /\ fp16_enabled_ = (model_path = "fp16")
    /\ fallback # <<>> =>
         fallback[2] \in Models /\ fallback[1] = (fallback[2] = "fp16")

\* A session is there exactly when the detector is ready, is that of the
\* detector's own configuration except while that is being replaced, and of a
\* file that exists; what is being loaded is what the pipeline asked for.
SessionIsKnown ==
    /\ ready_ = (session_ # "none")
    /\ session_ # "none" /\ loading # "locked" => session_ = yolo_config
    /\ session_ = "fp16" => "fp16" \in ModelFiles
    /\ loading = "locked" => yolo_config = model_path

DetectorInv == ModelTypeOK /\ ModesAgree /\ SessionIsKnown /\ DetectsWithItsModel

-----------------------------------------------------------------------------
LEMMA DetectorInitially == DetectorInit => DetectorInv
  BY DetectorAssumption
     DEF DetectorInit, DetectorInv, ModelTypeOK, ModesAgree, SessionIsKnown,
         DetectsWithItsModel, Models

\* Detecting touches nothing but the place of its thread.
LEMMA DetectStep ==
    ASSUME DetectorInv, NEW t \in DetectThreads, detect(t) \/ LockShared(t) \/ Detected(t)
    PROVE  DetectorInv'
<1> USE DEF DetectorInv, ModelTypeOK, ModesAgree, SessionIsKnown, DetectsWithItsModel
<1>1. CASE detect(t)
  BY <1>1 DEF detect
<1>2. CASE LockShared(t)
  BY <1>2 DEF LockShared, SessionUsable
<1>3. CASE Detected(t)
  BY <1>3 DEF Detected
<1> QED
  BY <1>1, <1>2, <1>3

\* A command never changes the session; it may only correct the mode to the
\* model in use when the other file is missing.
LEMMA CommandStep ==
    ASSUME DetectorInv, NEW requested \in BOOLEAN, FP16Command(requested)
    PROVE  DetectorInv'
<1> USE DEF DetectorInv, ModelTypeOK, ModesAgree, SessionIsKnown, DetectsWithItsModel,
            FP16Command, Free, Models
<1>1. CASE requested /\ "fp16" \notin ModelFiles
  BY <1>1
<1>2. CASE ~(requested /\ "fp16" \notin ModelFiles)
  BY <1>2
<1> QED
  BY <1>1, <1>2

\* The exclusive lock: nobody detects while the configuration changes.
LEMMA ReloadStep ==
    ASSUME DetectorInv, LockUnique \/ Loads \/ LoadFails
    PROVE  DetectorInv'
<1> USE DEF DetectorInv, ModelTypeOK, ModesAgree, SessionIsKnown, DetectsWithItsModel
<1>1. CASE LockUnique
  BY <1>1 DEF LockUnique
<1>2. CASE Loads
  BY <1>2 DEF Loads, Models
<1>3. CASE LoadFails
  <2>1. CASE fallback = <<>>
    BY <1>3, <2>1 DEF LoadFails, FallsBack
  <2>2. CASE fallback # <<>>
    BY <1>3, <2>2 DEF LoadFails, FallsBack
  <2> QED
    BY <2>1, <2>2
<1> QED
  BY <1>1, <1>2, <1>3

(* However many threads detect, and however loads and fallbacks fail: a      *)
(* detection runs the model whose classes it reads, and between reloads the  *)
(* pipeline's mode is that of the model in use.                              *)
THEOREM DetectorUsesItsModel == DetectorSpec => []DetectsWithItsModel
<1>1. DetectorInv /\ [DetectorNext]_detector_vars => DetectorInv'
  <2> SUFFICES ASSUME DetectorInv, [DetectorNext]_detector_vars PROVE DetectorInv'
    OBVIOUS
  <2>1. CASE UNCHANGED detector_vars
    BY <2>1 DEF detector_vars, DetectorInv, ModelTypeOK, ModesAgree, SessionIsKnown,
                DetectsWithItsModel
  <2>2. CASE DetectorNext
    BY <2>2, DetectStep, CommandStep, ReloadStep DEF DetectorNext
  <2> QED
    BY <2>1, <2>2
<1>2. DetectorInv => DetectsWithItsModel
  BY DEF DetectorInv
<1> QED
  BY DetectorInitially, <1>1, <1>2, PTL DEF DetectorSpec

-----------------------------------------------------------------------------
(* The earlier tracker for any scene, interval, reach and timeout.           *)

\* While a target is followed, the frames since it was seen are not more than
\* those since the last confirmation: both counters advance together.
FollowsClosely ==
    /\ frameCount_ \in 0..(trackReconfirmInterval_ - 1) /\ unseen \in Nat
    /\ state_ \in {"IDLE", "ROI", "TRACK"}
    /\ state_ = "TRACK" => unseen <= frameCount_

TrackingInv == FollowsClosely /\ ReportIsFresh

-----------------------------------------------------------------------------
\* The counter modulo the interval either advances or begins again.
LEMMA NextCount ==
    ASSUME NEW n \in Nat \ {0}, NEW c \in 0..(n - 1)
    PROVE  (c + 1) % n = IF c + 1 = n THEN 0 ELSE c + 1
<1>1. CASE c + 1 = n
  BY <1>1
<1>2. CASE c + 1 # n
  <2>1. c + 1 \in 0..(n - 1)
    BY <1>2
  <2>2. \A k \in Int, m \in Nat \ {0} : k \in 0..(m - 1) => k % m = k
    OBVIOUS
  <2> QED
    BY <1>2, <2>1, <2>2
<1> QED
  BY <1>1, <1>2

LEMMA CountAdvances ==
    ASSUME FollowsClosely, NEW scene, NEW autonomous, process(scene, autonomous)
    PROVE  /\ frameCount_' \in 0..(trackReconfirmInterval_ - 1)
           /\ frameCount_' # 0 => frameCount_' = frameCount_ + 1
<1>1. frameCount_' = (frameCount_ + 1) % trackReconfirmInterval_
  BY DEF process
<1>2. trackReconfirmInterval_ \in Nat \ {0} /\ frameCount_ \in 0..(trackReconfirmInterval_ - 1)
  BY TrackingAssumption DEF FollowsClosely
<1>3. frameCount_' = IF frameCount_ + 1 = trackReconfirmInterval_ THEN 0 ELSE frameCount_ + 1
  BY <1>1, <1>2, NextCount
<1> QED
  BY <1>2, <1>3

\* One frame, whatever is in it and found in it.
LEMMA FrameStep ==
    ASSUME TrackingInv, NEW scene, NEW autonomous, process(scene, autonomous)
    PROVE  TrackingInv'
<1>1. /\ frameCount_' \in 0..(trackReconfirmInterval_ - 1)
      /\ frameCount_' # 0 => frameCount_' = frameCount_ + 1
  BY CountAdvances DEF TrackingInv
<1>2. trackReconfirmInterval_ \in Nat \ {0}
  BY TrackingAssumption
<1> USE DEF TrackingInv, FollowsClosely, ReportIsFresh
<1>3. CASE ManualMode
  BY <1>1, <1>3 DEF ManualMode
<1>4. CASE Idle(scene)
  BY <1>1, <1>4 DEF Idle
<1>5. CASE Roi(scene)
  <2>1. PICK found \in searchTarget(scene, roi_) :
          /\ target' = found
          /\ IF found # NoOne
             THEN lastTarget_' = found /\ unseen' = 0 /\ state_' = "TRACK"
             ELSE UNCHANGED <<lastTarget_, unseen>> /\ state_' \in {"IDLE", "ROI"}
    BY <1>5 DEF Roi
  <2>2. CASE found # NoOne
    BY <1>1, <1>2, <2>1, <2>2
  <2>3. CASE found = NoOne
    BY <1>1, <2>1, <2>3
  <2> QED
    BY <2>2, <2>3
<1>6. CASE Track(scene)
  <2> DEFINE region == Around([from |-> lastTarget_, to |-> lastTarget_], LocalReach)
  <2>1. state_ = "TRACK" /\ target' = lastTarget_'
    BY <1>6 DEF Track
  <2>2. CASE frameCount_' # 0
    <3>1. unseen' = unseen + 1 /\ UNCHANGED <<state_, lastTarget_>>
      BY <1>6, <2>2 DEF Track
    <3> QED
      BY <1>1, <1>2, <2>1, <2>2, <3>1
  <2>3. CASE frameCount_' = 0
    <3>1. PICK found \in searchTarget(scene, region) :
            IF found # NoOne THEN lastTarget_' = found /\ unseen' = 0 /\ UNCHANGED state_
            ELSE state_' = "ROI" /\ unseen' = unseen + 1 /\ UNCHANGED lastTarget_
      BY <1>6, <2>3 DEF Track, OnLoss, TargetLost
    <3> HIDE DEF region
    <3> QED
      BY <1>1, <1>2, <2>1, <2>3, <3>1
  <2> QED
    BY <2>2, <2>3
<1> QED
  BY <1>3, <1>4, <1>5, <1>6 DEF process

(* A target the earlier tracker reports was seen within the reconfirmation   *)
(* interval, however long that is and whatever the scene does.               *)
THEOREM ReportsAreFresh == TrackingSpec => []ReportIsFresh
<1>1. TrackingInit => TrackingInv
  BY TrackingAssumption DEF TrackingInit, TrackingInv, FollowsClosely, ReportIsFresh
<1>2. TrackingInv /\ [TrackingNext]_tracking_vars => TrackingInv'
  <2> SUFFICES ASSUME TrackingInv, [TrackingNext]_tracking_vars PROVE TrackingInv'
    OBVIOUS
  <2>1. CASE Tick \/ UNCHANGED tracking_vars
    BY <2>1 DEF Tick, tracking_vars, TrackingInv, FollowsClosely, ReportIsFresh
  <2>2. ASSUME NEW scene \in Scenes_, NEW autonomous \in BOOLEAN, process(scene, autonomous)
        PROVE  TrackingInv'
    BY <2>2, FrameStep
  <2> QED
    BY <2>1, <2>2 DEF TrackingNext
<1>3. TrackingInv => ReportIsFresh
  BY DEF TrackingInv
<1> QED
  BY <1>1, <1>2, <1>3, PTL DEF TrackingSpec


-----------------------------------------------------------------------------
(* The configuration, whatever files hold and programs set.                  *)

\* A configuration has every key, and its flags are flags.
IsConfig(c) == c = [key \in SystemConfig |-> Stored(key, c[key])]

ConfigInv == program # "off" => IsConfig(config_)

LEMMA StoredTwice ==
    ASSUME NEW key, NEW v
    PROVE  Stored(key, Stored(key, v)) = Stored(key, v)
  BY DEF Stored

LEMMA MadeOfStored ==
    ASSUME NEW f
    PROVE  IsConfig([key \in SystemConfig |-> Stored(key, f[key])])
  BY StoredTwice DEF IsConfig

LEMMA DefaultsAreConfig == IsConfig(Defaults)
  BY DEF IsConfig, Defaults, Stored

LEMMA LoadedIsConfig ==
    ASSUME NEW c, NEW file
    PROVE  IsConfig(Loaded(c, file))
<1> DEFINE f == [key \in SystemConfig |->
                   IF key \in Required THEN ReadRequired(file, c[key], key)
                   ELSE IF key \in Guarded THEN ReadGuarded(file, c[key], key)
                   ELSE NetValue(file, c[key], key)]
<1>1. Loaded(c, file) = [key \in SystemConfig |-> Stored(key, f[key])]
  BY DEF Loaded
<1> HIDE DEF f
<1> QED
  BY <1>1, MadeOfStored

LEMMA HaveFlags ==
    <<"root", "headless">> \in SystemConfig /\ <<"root", "autonomous">> \in SystemConfig
  BY DEF SystemConfig, Guarded, GeneralGuarded, Keys

LEMMA OverriddenIsConfig ==
    ASSUME NEW keys, IsConfig(config_), Override(keys)
    PROVE  IsConfig(config_')
<1>1. PICK v \in Edits : config_' = [k \in SystemConfig |->
                                       IF k \in keys THEN Stored(k, v) ELSE config_[k]]
  BY DEF Override
<1>2. \A k \in SystemConfig : Stored(k, config_[k]) = config_[k]
  BY DEF IsConfig
<1>3. \A k \in SystemConfig : Stored(k, config_'[k]) = config_'[k]
  BY <1>1, <1>2, StoredTwice
<1> QED
  BY <1>1, <1>3 DEF IsConfig

-----------------------------------------------------------------------------

AllSaved == SavedVision \union SavedAiming \union SavedLinks

\* What is not about the network is written under the name it is read by.
LEMMA RequiredAreSaved ==
    ASSUME NEW key \in Required
    PROVE  key \in AllSaved /\ key[1] # "networking"
<1>1. CASE key \in CameraRequired \union YoloRequired
  BY <1>1 DEF CameraRequired, YoloRequired, AllSaved, SavedVision, Keys
<1>2. CASE key \in BalloonRequired \union DistanceRequired
  BY <1>2 DEF BalloonRequired, DistanceRequired, AllSaved, SavedAiming, Keys
<1>3. CASE key \in BallisticsRequired \union TrackingRequired \union SerialRequired
  BY <1>3 DEF BallisticsRequired, TrackingRequired, SerialRequired, AllSaved, SavedAiming, Keys
<1> QED
  BY <1>1, <1>2, <1>3 DEF Required

LEMMA GuardedAreSaved ==
    ASSUME NEW key \in Guarded
    PROVE  key \in AllSaved /\ key[1] # "networking"
<1>1. CASE key \in CameraGuarded \union GeofenceGuarded \union TriggerGuarded
  BY <1>1 DEF CameraGuarded, GeofenceGuarded, TriggerGuarded, AllSaved, SavedVision, Keys
<1>2. CASE key \in IffGuarded \union YoloGuarded
  BY <1>2 DEF IffGuarded, YoloGuarded, AllSaved, SavedVision, Keys
<1>3. CASE key \in TrackingGuarded \union SerialGuarded
  BY <1>3 DEF TrackingGuarded, SerialGuarded, AllSaved, SavedAiming, Keys
<1>5. CASE key \in BallisticsGuarded
  <2>1. key = <<"ballistics", "lookup_table">>
    BY <1>5 DEF BallisticsGuarded, Keys
  <2> QED
    BY <2>1 DEF AllSaved, SavedAiming, Keys
<1>4. CASE key \in LidarGuarded
  <2>1. key[1] = "lidar"
    BY <1>4 DEF LidarGuarded, Keys
  <2> QED
    BY <1>4, <2>1 DEF LidarGuarded, AllSaved, SavedLinks
<1>6. CASE key \in GeneralGuarded
  <2>1. key[1] = "root"
    BY <1>6 DEF GeneralGuarded, Keys
  <2> QED
    BY <1>6, <2>1 DEF GeneralGuarded, AllSaved, SavedLinks
<1> QED
  BY <1>1, <1>2, <1>3, <1>4, <1>5, <1>6 DEF Guarded

\* The names a network setting is written under.
Written(n) == <<"networking", IF n \in DOMAIN NewerName THEN NewerName[n] ELSE n>>

LEMMA NetworkIsSaved ==
    ASSUME NEW key \in NetworkGuarded
    PROVE  /\ key = <<"network", key[2]>> /\ Written(key[2]) \in AllSaved
           /\ Member(Written(key[2])) = key
<1>1. PICK n \in {"video_enabled", "telemetry_enabled", "gcs_host", "video_udp_port",
                  "telemetry_tcp_port", "telemetry_push_port", "jpeg_quality",
                  "udp_mtu_bytes"} : key = <<"network", n>>
  BY DEF NetworkGuarded, Keys
<1>2. DOMAIN NewerName = {"gcs_host", "video_udp_port", "telemetry_tcp_port"}
  BY DEF NewerName
<1>3. /\ NewerName["gcs_host"] = "target_pc_ip" /\ NewerName["video_udp_port"] = "video_port"
      /\ NewerName["telemetry_tcp_port"] = "telemetry_port"
  BY DEF NewerName
<1> DEFINE name == IF n \in DOMAIN NewerName THEN NewerName[n] ELSE n
<1>4. name \in {"video_enabled", "telemetry_enabled", "target_pc_ip", "video_port",
                "telemetry_port", "telemetry_push_port", "jpeg_quality", "udp_mtu_bytes"}
  BY <1>2, <1>3
<1>5. Written(n) = <<"networking", name>>
  BY DEF Written
<1>6. \A old \in DOMAIN NewerName : NewerName[old] = name => old = n
  BY <1>2, <1>3
<1>7. n \notin DOMAIN NewerName => \A old \in DOMAIN NewerName : NewerName[old] # name
  BY <1>2, <1>3
<1>8. n \in DOMAIN NewerName => NewerName[n] = name
  OBVIOUS
<1> HIDE DEF name
<1>9. Written(n) \in AllSaved
  BY <1>4, <1>5 DEF AllSaved, SavedLinks, Keys
<1>10. Member(Written(n)) = <<"network", n>>
  <2>1. CASE n \in DOMAIN NewerName
    <3>1. (CHOOSE old \in DOMAIN NewerName : NewerName[old] = name) = n
      BY <1>6, <1>8, <2>1
    <3>2. Written(n)[1] = "networking" /\ Written(n)[2] = name
      BY <1>5
    <3>3. Member(Written(n)) = <<"network", CHOOSE old \in DOMAIN NewerName : NewerName[old] = name>>
      BY <1>8, <2>1, <3>2 DEF Member
    <3> QED
      BY <3>1, <3>3
  <2>2. CASE n \notin DOMAIN NewerName
    <3>1. name = n
      BY <2>2 DEF name
    <3> QED
      BY <1>5, <1>7, <2>2, <3>1 DEF Member
  <2> QED
    BY <2>1, <2>2
<1> QED
  BY <1>1, <1>9, <1>10

LEMMA SavedIsLoaded ==
    ASSUME NEW c, IsConfig(c)
    PROVE  Loaded(Defaults, Saved(c)) = c
<1> DEFINE file == Saved(c)
<1>1. DOMAIN file = AllSaved /\ \A key \in AllSaved : file[key] = c[Member(key)]
  BY DEF Saved, AllSaved
<1>2. NetSection(file) = "networking"
  <2>1. <<"networking", "video_enabled">> \in AllSaved
    BY DEF AllSaved, SavedLinks, Keys
  <2>2. <<"networking", "video_enabled">>[1] = "networking"
    OBVIOUS
  <2> HIDE DEF file
  <2> QED
    BY <1>1, <2>1, <2>2 DEF NetSection
<1> HIDE DEF file
<1>3. ASSUME NEW key \in Required, NEW old
      PROVE  ReadRequired(file, old, key) = c[key]
  BY <1>1, RequiredAreSaved DEF ReadRequired, Member
<1>4. ASSUME NEW key \in Guarded, NEW old
      PROVE  ReadGuarded(file, old, key) = c[key]
  BY <1>1, GuardedAreSaved DEF ReadGuarded, Member
<1>5. ASSUME NEW key \in NetworkGuarded, NEW old
      PROVE  NetValue(file, old, key) = c[key]
  <2>1. /\ key = <<"network", key[2]>> /\ Written(key[2]) \in AllSaved
        /\ Member(Written(key[2])) = key
    BY NetworkIsSaved
  <2>2. Written(key[2]) = IF key[2] \in DOMAIN NewerName
                          THEN <<"networking", NewerName[key[2]]>> ELSE <<"networking", key[2]>>
    BY DEF Written
  <2> QED
    BY <1>1, <1>2, <2>1, <2>2 DEF NetValue
<1>6. \A key \in SystemConfig :
         Loaded(Defaults, file)[key] = Stored(key, c[key])
  BY <1>3, <1>4, <1>5 DEF Loaded, SystemConfig
<1>7. Loaded(Defaults, file) = [key \in SystemConfig |-> Stored(key, c[key])]
  BY <1>6 DEF Loaded
<1> QED
  BY <1>7 DEF IsConfig, file

(* Loader and writer agree, key by key: a configuration that was saved and   *)
(* is loaded at the next start is the one the program had, whatever the file *)
(* it came from held and whatever was set since.                             *)
THEOREM SavedConfigIsRestored == ConfigSpec => []SavedIsRestored
<1>1. ConfigInit => ConfigInv
  BY DEF ConfigInit, ConfigInv
<1>2. ConfigInv /\ [ConfigNext]_config_vars => ConfigInv'
  <2> SUFFICES ASSUME ConfigInv, [ConfigNext]_config_vars
               PROVE  ConfigInv'
    OBVIOUS
  <2>1. CASE MainLoads
    BY <2>1, DefaultsAreConfig, LoadedIsConfig DEF MainLoads, loadFromFile, ConfigInv
  <2>2. CASE CommandLine
    <3>1. IsConfig(config_)
      BY <2>2 DEF CommandLine, ConfigInv
    <3>2. CASE \/ config_' = [config_ EXCEPT ![<<"root", "headless">>] = 0]
               \/ config_' = [config_ EXCEPT ![<<"root", "autonomous">>] = 1]
      <4>1. PICK k \in SystemConfig, v \in {0, 1} : config_' = [config_ EXCEPT ![k] = v]
        BY <3>2, HaveFlags
      <4>2. Stored(k, v) = v
        BY DEF Stored
      <4>3. config_' = [key \in SystemConfig |-> IF key = k THEN v ELSE config_[key]]
        BY <3>1, <4>1 DEF IsConfig
      <4>4. \A key \in SystemConfig : Stored(key, config_[key]) = config_[key]
        BY <3>1 DEF IsConfig
      <4>5. \A key \in SystemConfig : Stored(key, config_'[key]) = config_'[key]
        BY <4>2, <4>3, <4>4
      <4> QED
        BY <4>3, <4>5 DEF IsConfig, ConfigInv
    <3>3. CASE \E key : Override({key})
      BY <3>1, <3>3, OverriddenIsConfig DEF ConfigInv
    <3>4. CASE UNCHANGED config_
      BY <3>1, <3>4 DEF IsConfig, ConfigInv
    <3> QED
      BY <2>2, <3>2, <3>3, <3>4 DEF CommandLine, ConfigInv
  <2>3. CASE setManualOffset \/ setBalloonHsv \/ setAutonomous
    <3>1. program # "off"
      BY <2>3 DEF setManualOffset, setBalloonHsv, setAutonomous
    <3>2. IsConfig(config_)
      BY <3>1 DEF ConfigInv
    <3>3. PICK keys : Override(keys)
      BY <2>3 DEF setManualOffset, setBalloonHsv, setAutonomous
    <3> QED
      BY <3>2, <3>3, OverriddenIsConfig DEF ConfigInv
  <2>4. CASE saveToFile
    BY <2>4 DEF saveToFile, ConfigInv
  <2>5. CASE MainEnds \/ FileChanges
    BY <2>5 DEF MainEnds, FileChanges, ConfigInv
  <2>6. CASE UNCHANGED config_vars
    BY <2>6 DEF config_vars, ConfigInv
  <2> QED
    BY <2>1, <2>2, <2>3, <2>4, <2>5, <2>6 DEF ConfigNext
<1>3. ConfigInv => SavedIsRestored
  BY SavedIsLoaded DEF ConfigInv, SavedIsRestored
<1> QED
  BY <1>1, <1>2, <1>3, PTL DEF ConfigSpec


-----------------------------------------------------------------------------
(* The tracker, for any scenes and thresholds.                               *)

LEMMA MaxOfTwo ==
    ASSUME NEW a \in Int, NEW b \in Int
    PROVE  Max({a, b}) = IF a >= b THEN a ELSE b
<1>1. Max({a, b}) \in {a, b} /\ \A y \in {a, b} : Max({a, b}) >= y
  <2>1. \E x \in {a, b} : \A y \in {a, b} : x >= y
    OBVIOUS
  <2> QED
    BY <2>1, Zenon DEF Max
<1> HIDE DEF Max
<1> QED
  BY <1>1

LEMMA MinOfTwo ==
    ASSUME NEW a \in Int, NEW b \in Int
    PROVE  Min({a, b}) = IF a <= b THEN a ELSE b
<1>1. Min({a, b}) \in {a, b} /\ \A y \in {a, b} : Min({a, b}) <= y
  <2>1. \E x \in {a, b} : \A y \in {a, b} : x <= y
    OBVIOUS
  <2> QED
    BY <2>1, Zenon DEF Min
<1> QED
  BY <1>1

VotesFor(h, a) == {i \in DOMAIN h : h[i] = a}

LEMMA VotesAreFinite ==
    ASSUME NEW h \in Seq(Affiliations), NEW a
    PROVE  /\ IsFiniteSet(VotesFor(h, a)) /\ VotesFor(h, a) \subseteq 1..Len(h)
           /\ Votes(h, a) = Cardinality(VotesFor(h, a)) /\ Votes(h, a) \in Nat
<1>1. IsFiniteSet(1..Len(h))
  BY FS_Interval
<1>2. VotesFor(h, a) \subseteq 1..Len(h)
  BY DEF VotesFor
<1>3. IsFiniteSet(VotesFor(h, a))
  BY <1>1, <1>2, FS_Subset
<1>4. Votes(h, a) = Cardinality(VotesFor(h, a))
  BY DEF Votes, VotesFor
<1> QED
  BY <1>2, <1>3, <1>4, FS_CardinalityType

\* Every entry is a vote for one of the three.
LEMMA VotesAdd ==
    ASSUME NEW h \in Seq(Affiliations)
    PROVE  (Votes(h, "Friend") + Votes(h, "Foe")) + Votes(h, "Unknown") = Len(h)
<1> DEFINE A == VotesFor(h, "Friend")
           B == VotesFor(h, "Foe")
           C == VotesFor(h, "Unknown")
<1>1. /\ IsFiniteSet(A) /\ IsFiniteSet(B) /\ IsFiniteSet(C)
      /\ Votes(h, "Friend") = Cardinality(A) /\ Votes(h, "Foe") = Cardinality(B)
      /\ Votes(h, "Unknown") = Cardinality(C)
      /\ Cardinality(A) \in Nat /\ Cardinality(B) \in Nat /\ Cardinality(C) \in Nat
  BY VotesAreFinite
<1>2. A \cap B = {} /\ (A \cup B) \cap C = {}
  BY DEF VotesFor
<1>3. (A \cup B) \cup C = 1..Len(h)
  BY DEF VotesFor, Affiliations
<1> HIDE DEF A, B, C
<1>4. IsFiniteSet(A \cup B) /\ Cardinality(A \cup B) = Cardinality(A) + Cardinality(B)
  <2>1. /\ IsFiniteSet(A \cup B)
        /\ Cardinality(A \cup B) = Cardinality(A) + (Cardinality(B) - Cardinality(A \cap B))
    BY <1>1, FS_Union
  <2>2. Cardinality(A \cap B) = 0
    BY <1>2, FS_EmptySet
  <2> QED
    BY <1>1, <2>1, <2>2
<1>5. Cardinality((A \cup B) \cup C) = Cardinality(A \cup B) + Cardinality(C)
  <2>1. Cardinality((A \cup B) \cup C) =
          Cardinality(A \cup B) + (Cardinality(C) - Cardinality((A \cup B) \cap C))
    BY <1>1, <1>4, FS_Union
  <2>2. Cardinality((A \cup B) \cap C) = 0
    BY <1>2, FS_EmptySet
  <2> QED
    BY <1>1, <1>4, <2>1, <2>2
<1>6. Cardinality(1..Len(h)) = Len(h)
  <2>1. 1 \in Int /\ Len(h) \in Int /\ 1 <= Len(h) + 1
    OBVIOUS
  <2>2. Cardinality(1..Len(h)) = IF 1 > Len(h) THEN 0 ELSE (Len(h) - 1) + 1
    BY <2>1, FS_Interval
  <2> QED
    BY <2>2
<1> QED
  BY <1>1, <1>3, <1>4, <1>5, <1>6

Ahead(h, a) == \A b \in Affiliations \ {a} : Votes(h, a) > Votes(h, b)

\* Who has the plurality, or else the one before.
LEMMA MajorityDecides ==
    ASSUME NEW h, NEW f \in Affiliations
    PROVE  LET r == majorityAffiliation(h, f)
           IN  /\ r \in Affiliations
               /\ Ahead(h, r) \/ (r = f /\ \A a \in Affiliations : ~Ahead(h, a))
<1> DEFINE ahead == {a \in Affiliations : Ahead(h, a)}
<1>1. majorityAffiliation(h, f) = IF ahead = {} THEN f ELSE CHOOSE a \in ahead : TRUE
  BY DEF majorityAffiliation, Ahead
<1>2. CASE ahead = {}
  BY <1>1, <1>2
<1>3. CASE ahead # {}
  <2>1. (CHOOSE a \in ahead : TRUE) \in ahead
    BY <1>3
  <2> QED
    BY <1>1, <1>3, <2>1
<1> QED
  BY <1>2, <1>3

Latest(h, a) ==
    LET all == Append(h, a)
    IN  SubSeq(all, Max({0, Len(all) - kAffiliationHistoryMax}) + 1, Len(all))

LEMMA LatestKeeps ==
    ASSUME NEW h \in Seq(Affiliations), Len(h) \in 1..5, NEW a \in Affiliations
    PROVE  /\ Latest(h, a) \in Seq(Affiliations) /\ Len(Latest(h, a)) \in 2..5
           /\ \/ Len(Latest(h, a)) = 5
              \/ \A f \in Affiliations : Votes(Latest(h, a), f) >= Votes(h, f)
<1> DEFINE all == Append(h, a)
           over == Max({0, Len(all) - kAffiliationHistoryMax})
<1>1. all \in Seq(Affiliations) /\ Len(all) = Len(h) + 1 /\ \A i \in 1..Len(h) : all[i] = h[i]
  OBVIOUS
<1>2. over = IF Len(h) = 5 THEN 1 ELSE 0
  <2>1. Len(all) - 5 \in Int
    BY <1>1
  <2>2. over = IF 0 >= Len(all) - 5 THEN 0 ELSE Len(all) - 5
    BY <2>1, MaxOfTwo DEF kAffiliationHistoryMax
  <2>3. Len(h) \in 1..5 /\ Len(all) = Len(h) + 1
    BY <1>1
  <2>4. \A n \in 1..5 : (IF 0 >= (n + 1) - 5 THEN 0 ELSE (n + 1) - 5) = IF n = 5 THEN 1 ELSE 0
    OBVIOUS
  <2> HIDE DEF all, over
  <2> QED
    BY <2>2, <2>3, <2>4, Zenon
<1>3. Latest(h, a) = SubSeq(all, over + 1, Len(all))
  BY DEF Latest
<1> HIDE DEF all, over
<1>4. CASE Len(h) = 5
  <2>1. Latest(h, a) = SubSeq(all, 2, 6)
    BY <1>1, <1>2, <1>3, <1>4
  <2>2. SubSeq(all, 2, 6) \in Seq(Affiliations) /\ Len(SubSeq(all, 2, 6)) = 5
    <3>1. \A i \in 2..6 : all[i] \in Affiliations
      <4>1. Len(all) = 6 /\ all \in Seq(Affiliations)
        BY <1>1, <1>4
      <4>2. \A i \in 1..Len(all) : all[i] \in Affiliations
        BY <4>1, ElementOfSeq
      <4> QED
        BY <4>1, <4>2
    <3>2. /\ SubSeq(all, 2, 6) \in Seq(Affiliations)
          /\ Len(SubSeq(all, 2, 6)) = IF 2 <= 6 THEN (6 - 2) + 1 ELSE 0
      BY <3>1, SubSeqProperties
    <3> QED
      BY <3>2
  <2> QED
    BY <2>1, <2>2
<1>5. CASE Len(h) # 5
  <2>1. Latest(h, a) = all
    <3>1. SubSeq(all, 1, Len(all)) = all
      BY <1>1, SubSeqFull
    <3> QED
      BY <1>2, <1>3, <1>5, <3>1
  <2>2. ASSUME NEW f \in Affiliations
        PROVE  Votes(all, f) >= Votes(h, f)
    <3>1. VotesFor(h, f) \subseteq VotesFor(all, f)
      BY <1>1 DEF VotesFor
    <3>2. /\ IsFiniteSet(VotesFor(all, f)) /\ Votes(all, f) = Cardinality(VotesFor(all, f))
          /\ Votes(h, f) = Cardinality(VotesFor(h, f))
          /\ Votes(all, f) \in Nat /\ Votes(h, f) \in Nat
      BY <1>1, VotesAreFinite
    <3>3. Cardinality(VotesFor(h, f)) <= Cardinality(VotesFor(all, f))
      BY <3>1, <3>2, FS_Subset
    <3> QED
      BY <3>2, <3>3
  <2>3. all \in Seq(Affiliations) /\ Len(all) \in 2..5
    BY <1>1, <1>5
  <2> QED
    BY <2>1, <2>2, <2>3
<1> QED
  BY <1>4, <1>5

-----------------------------------------------------------------------------
(* One track.                                                                *)

Boxes == [x : Int, y : Int, w : Nat, h : Nat]

Tracks ==
    [id : Nat, bbox : Boxes, cls : STRING, affiliation : Affiliations,
     affiliation_history : Seq(Affiliations), age : Nat, lost_frames : Nat,
     is_priority : BOOLEAN]

TrackOK(t) ==
    /\ t.age \in 1..MaxAge /\ Len(t.affiliation_history) \in 1..5
    /\ Votes(t.affiliation_history, t.affiliation) > 0

\* How a track may come out of a frame that showed it.
Swayed(t, u) ==
    u.affiliation = t.affiliation
    \/ /\ Votes(u.affiliation_history, u.affiliation) >= 2
       /\ Votes(u.affiliation_history, u.affiliation) > Votes(u.affiliation_history, t.affiliation)

LEMMA MajorityOfLatest ==
    ASSUME NEW h \in Seq(Affiliations), Len(h) \in 1..5, NEW a \in Affiliations,
           NEW f \in Affiliations, Votes(h, f) > 0
    PROVE  LET q == Latest(h, a)
               r == majorityAffiliation(q, f)
           IN  r \in Affiliations /\ Votes(q, r) > 0
               /\ (r = f \/ (Votes(q, r) >= 2 /\ Votes(q, r) > Votes(q, f)))
<1> DEFINE q == Latest(h, a)
           r == majorityAffiliation(q, f)
           x == Votes(q, "Friend")
           y == Votes(q, "Foe")
           z == Votes(q, "Unknown")
<1>1. /\ q \in Seq(Affiliations) /\ Len(q) \in 2..5
      /\ Len(q) = 5 \/ Votes(q, f) >= Votes(h, f)
  BY LatestKeeps
<1>2. r \in Affiliations /\ (Ahead(q, r) \/ (r = f /\ \A b \in Affiliations : ~Ahead(q, b)))
  BY MajorityDecides
<1> HIDE DEF q, r
<1>3. x \in Nat /\ y \in Nat /\ z \in Nat /\ (x + y) + z = Len(q)
  BY <1>1, VotesAreFinite, VotesAdd
<1>4. Votes(h, f) \in Nat
  BY VotesAreFinite
<1>5. \A b \in Affiliations : b = "Friend" \/ b = "Foe" \/ b = "Unknown"
  BY DEF Affiliations
<1>6. /\ Ahead(q, "Friend") <=> (x > y /\ x > z)
      /\ Ahead(q, "Foe") <=> (y > x /\ y > z)
      /\ Ahead(q, "Unknown") <=> (z > x /\ z > y)
  <2>1. /\ Affiliations \ {"Friend"} = {"Foe", "Unknown"}
        /\ Affiliations \ {"Foe"} = {"Friend", "Unknown"}
        /\ Affiliations \ {"Unknown"} = {"Friend", "Foe"}
    BY DEF Affiliations
  <2> QED
    BY <2>1 DEF Ahead
<1>7. CASE Ahead(q, r)
  <2>1. Votes(q, r) >= 2 /\ Votes(q, r) > 0
    BY <1>1, <1>2, <1>3, <1>5, <1>6, <1>7
  <2>2. r = f \/ Votes(q, r) > Votes(q, f)
    BY <1>7 DEF Ahead
  <2> QED
    BY <1>2, <2>1, <2>2 DEF q, r
<1>8. CASE r = f /\ \A b \in Affiliations : ~Ahead(q, b)
  <2>1. Votes(q, f) > 0
    <3>1. CASE Len(q) = 5
      <4>1. ~(x > y /\ x > z) /\ ~(y > x /\ y > z) /\ ~(z > x /\ z > y)
        BY <1>6, <1>8 DEF Affiliations
      <4>2. x > 0 /\ y > 0 /\ z > 0
        BY <1>3, <3>1, <4>1
      <4> QED
        BY <1>5, <4>2
    <3>2. CASE Votes(q, f) >= Votes(h, f)
      <4>1. Votes(q, f) \in Nat
        BY <1>1, VotesAreFinite
      <4> QED
        BY <1>4, <3>2, <4>1
    <3> QED
      BY <1>1, <3>1, <3>2
  <2> QED
    BY <1>2, <1>8, <2>1 DEF q, r
<1> QED
  BY <1>2, <1>7, <1>8

LEMMA FollowKeeps ==
    ASSUME NEW t \in Tracks, TrackOK(t), NEW det \in Detections
    PROVE  LET u == Follow(t, det)
           IN  /\ u \in Tracks /\ TrackOK(u) /\ u.lost_frames = 0 /\ u.age >= 2
               /\ u.id = t.id /\ u.bbox = det.bbox /\ Swayed(t, u)
<1> DEFINE q == Latest(t.affiliation_history, det.affiliation)
           r == majorityAffiliation(q, t.affiliation)
           older == Min({t.age + 1, MaxAge})
           u == Follow(t, det)
<1>1. u = [t EXCEPT !.bbox = det.bbox, !.cls = det.cls, !.affiliation_history = q,
                    !.affiliation = r, !.age = older, !.lost_frames = 0]
  BY DEF Follow, Latest
<1>2. /\ t.affiliation_history \in Seq(Affiliations) /\ Len(t.affiliation_history) \in 1..5
      /\ t.affiliation \in Affiliations /\ det.affiliation \in Affiliations
      /\ Votes(t.affiliation_history, t.affiliation) > 0
      /\ t.age \in Nat /\ det.bbox \in Boxes /\ det.cls \in STRING
  BY DEF Tracks, TrackOK, Detections, Boxes
<1>3. q \in Seq(Affiliations) /\ Len(q) \in 2..5
  BY <1>2, LatestKeeps
<1>4. r \in Affiliations /\ Votes(q, r) > 0
      /\ (r = t.affiliation \/ (Votes(q, r) >= 2 /\ Votes(q, r) > Votes(q, t.affiliation)))
  BY <1>2, MajorityOfLatest
<1>5. older \in Nat /\ older \in 1..MaxAge /\ older >= 2
  <2>1. MaxAge \in Nat /\ MaxAge > 1 /\ t.age \in 1..MaxAge
    BY TrackerAssumption DEF TrackOK
  <2>2. older = IF t.age + 1 <= MaxAge THEN t.age + 1 ELSE MaxAge
    BY <2>1, MinOfTwo
  <2> HIDE DEF older
  <2> QED
    BY <2>1, <2>2
<1> HIDE DEF q, r, older, u
<1>6. /\ u.id = t.id /\ u.bbox = det.bbox /\ u.affiliation_history = q /\ u.affiliation = r
      /\ u.age = older /\ u.lost_frames = 0
  BY <1>1 DEF Tracks
<1>7. u \in Tracks
  BY <1>1, <1>2, <1>3, <1>4, <1>5 DEF Tracks
<1>8. TrackOK(u)
  BY <1>3, <1>4, <1>5, <1>6 DEF TrackOK
<1>9. Swayed(t, u)
  BY <1>4, <1>6 DEF Swayed
<1> QED
  BY <1>5, <1>6, <1>7, <1>8, <1>9 DEF u

LEMMA LostKeeps ==
    ASSUME NEW t \in Tracks, TrackOK(t)
    PROVE  LET u == Lost(t)
           IN  /\ u \in Tracks /\ TrackOK(u) /\ u.lost_frames > 0
               /\ u.id = t.id /\ u.bbox = t.bbox /\ u.affiliation = t.affiliation
<1> DEFINE u == Lost(t)
<1>1. u = [t EXCEPT !.lost_frames = t.lost_frames + 1] /\ t.lost_frames \in Nat
  BY DEF Lost, Tracks
<1> HIDE DEF u
<1>2. /\ u.id = t.id /\ u.bbox = t.bbox /\ u.affiliation = t.affiliation /\ u.age = t.age
      /\ u.affiliation_history = t.affiliation_history /\ u.lost_frames = t.lost_frames + 1
      /\ u \in Tracks
  BY <1>1 DEF Tracks
<1>3. TrackOK(u) /\ u.lost_frames > 0
  BY <1>1, <1>2 DEF TrackOK
<1> QED
  BY <1>2, <1>3 DEF u

LEMMA BornKeeps ==
    ASSUME NEW det \in Detections, NEW id \in Nat
    PROVE  LET u == Born(det, id)
           IN  /\ u \in Tracks /\ TrackOK(u) /\ u.lost_frames = 0
               /\ u.id = id /\ u.bbox = det.bbox
<1> DEFINE u == Born(det, id)
           h == <<det.affiliation>>
<1>1. det.affiliation \in Affiliations /\ det.bbox \in Boxes /\ det.cls \in STRING
  BY DEF Detections, Boxes
<1>2. h \in Seq(Affiliations) /\ Len(h) = 1
  BY <1>1
<1>3. Votes(h, det.affiliation) > 0
  <2>1. 1 \in VotesFor(h, det.affiliation)
    BY DEF VotesFor
  <2>2. Votes(h, det.affiliation) = Cardinality(VotesFor(h, det.affiliation))
        /\ IsFiniteSet(VotesFor(h, det.affiliation)) /\ Votes(h, det.affiliation) \in Nat
    BY <1>2, VotesAreFinite
  <2>3. Votes(h, det.affiliation) # 0
    BY <2>1, <2>2, FS_EmptySet
  <2> QED
    BY <2>2, <2>3
<1> HIDE DEF h
<1>4. u = [id |-> id, bbox |-> det.bbox, cls |-> det.cls, affiliation |-> det.affiliation,
           affiliation_history |-> h, age |-> 1, lost_frames |-> 0, is_priority |-> FALSE]
  BY DEF Born, h
<1> HIDE DEF u
<1>5. u \in Tracks
  BY <1>1, <1>2, <1>4 DEF Tracks
<1>6. TrackOK(u)
  BY <1>2, <1>3, <1>4, TrackerAssumption DEF TrackOK
<1> QED
  BY <1>4, <1>5, <1>6 DEF u

LEMMA RankedKeeps ==
    ASSUME NEW t \in Tracks
    PROVE  LET u == Ranked(t)
           IN  /\ u \in Tracks /\ u.lost_frames = t.lost_frames /\ u.age = t.age
               /\ u.id = t.id /\ u.bbox = t.bbox /\ u.affiliation = t.affiliation
               /\ u.affiliation_history = t.affiliation_history
<1> DEFINE b == IsEnemy(t.cls) /\ t.age >= min_confirm_frames /\ t.lost_frames = 0
           u == Ranked(t)
<1>1. b \in BOOLEAN
  OBVIOUS
<1>2. u = [t EXCEPT !.is_priority = b]
  BY DEF Ranked
<1> HIDE DEF b, u
<1>3. u \in Tracks
  BY <1>1, <1>2 DEF Tracks
<1>4. /\ u.lost_frames = t.lost_frames /\ u.age = t.age
      /\ u.id = t.id /\ u.bbox = t.bbox /\ u.affiliation = t.affiliation
      /\ u.affiliation_history = t.affiliation_history
  BY <1>2 DEF Tracks
<1> QED
  BY <1>3, <1>4 DEF u

-----------------------------------------------------------------------------
(* One frame.                                                                *)

Rising(ts) == \A i, j \in DOMAIN ts : i < j => ts[i].id < ts[j].id

\* The tracks between two frames.
TrackerOK ==
    /\ next_id_ \in 0..MaxTrackIds /\ tracks_ \in Seq(Tracks) /\ Rising(tracks_)
    /\ \A i \in DOMAIN tracks_ :
          /\ TrackOK(tracks_[i]) /\ tracks_[i].id < next_id_
          /\ tracks_[i].lost_frames <= max_lost_frames

\* What the passes make of track k: it is followed to d, or lost.
IsFollowed(u, k, dets, matches) ==
    \E d \in DOMAIN dets : <<k, d>> \in matches /\ u = Follow(tracks_[k], dets[d])
IsLost(u, k, dets, matches) ==
    u = Lost(tracks_[k]) /\ \A d \in DOMAIN dets : <<k, d>> \notin matches
IsBorn(u, id, dets, matches) ==
    \E d \in DOMAIN dets : /\ u = Born(dets[d], id)
                           /\ \A t \in DOMAIN tracks_ : <<t, d>> \notin matches

Now(dets, matches) == Followed(dets, matches) \o NewTracks(dets, Unseen(dets, matches))

LEMMA UnseenAreUnmatched ==
    ASSUME NEW dets \in Seq(Detections), NEW matches
    PROVE  /\ Unseen(dets, matches) \in Seq(DOMAIN dets)
           /\ \A i \in DOMAIN Unseen(dets, matches) : \A t \in DOMAIN tracks_ :
                 <<t, Unseen(dets, matches)[i]>> \notin matches
<1> DEFINE s == [d \in DOMAIN dets |-> d]
           C == {d \in DOMAIN dets : \A t \in DOMAIN tracks_ : <<t, d>> \notin matches}
<1>1. s \in Seq(DOMAIN dets)
  OBVIOUS
<1>2. Unseen(dets, matches) = Only(s, C)
  BY DEF Unseen
<1> HIDE DEF s, C
<1>3. Only(s, C) \in Seq(DOMAIN dets) /\ \A i \in DOMAIN Only(s, C) : Only(s, C)[i] \in C
  BY <1>1, OnlyIsSeq, OnlyIsLeft
<1> QED
  BY <1>2, <1>3 DEF C

LEMMA PassesGive ==
    ASSUME TrackerOK, NEW dets \in Seq(Detections), NEW matches
    PROVE  LET all == Now(dets, matches)
               n   == Len(tracks_)
               m   == Len(Unseen(dets, matches))
           IN  /\ n \in Nat /\ m \in Nat /\ all \in Seq(Tracks) /\ Len(all) = n + m
               /\ \A k \in 1..n : \/ IsFollowed(all[k], k, dets, matches)
                                  \/ IsLost(all[k], k, dets, matches)
               /\ \A k \in 1..m : IsBorn(all[n + k], next_id_ + (k - 1), dets, matches)
<1> DEFINE n == Len(tracks_)
           fresh == Unseen(dets, matches)
           m == Len(fresh)
           old == Followed(dets, matches)
           new == NewTracks(dets, fresh)
<1>1. /\ tracks_ \in Seq(Tracks) /\ n \in Nat /\ DOMAIN tracks_ = 1..n
      /\ \A k \in 1..n : tracks_[k] \in Tracks /\ TrackOK(tracks_[k])
      /\ next_id_ \in Nat
  BY DEF TrackerOK
<1>2. fresh \in Seq(DOMAIN dets) /\ m \in Nat /\ DOMAIN fresh = 1..m
      /\ \A i \in 1..m : fresh[i] \in DOMAIN dets /\
            \A t \in DOMAIN tracks_ : <<t, fresh[i]>> \notin matches
  BY UnseenAreUnmatched
<1>3. \A d \in DOMAIN dets : dets[d] \in Detections
  OBVIOUS
<1> HIDE DEF fresh
<1>4. DOMAIN old = 1..n /\ \A k \in 1..n : \/ IsFollowed(old[k], k, dets, matches)
                                           \/ IsLost(old[k], k, dets, matches)
  <2>1. DOMAIN old = 1..n
    BY <1>1 DEF Followed
  <2>2. ASSUME NEW k \in 1..n
        PROVE  IsFollowed(old[k], k, dets, matches) \/ IsLost(old[k], k, dets, matches)
    <3> DEFINE of == {d \in DOMAIN dets : <<k, d>> \in matches}
    <3>1. old[k] = IF of = {} THEN Lost(tracks_[k])
                   ELSE Follow(tracks_[k], dets[CHOOSE d \in of : TRUE])
      BY <1>1 DEF Followed
    <3>2. CASE of = {}
      BY <3>1, <3>2 DEF IsLost
    <3>3. CASE of # {}
      <4>1. PICK d \in of : d = CHOOSE e \in of : TRUE
        BY <3>3
      <4>2. d \in DOMAIN dets /\ <<k, d>> \in matches
        OBVIOUS
      <4>3. old[k] = Follow(tracks_[k], dets[d])
        BY <3>1, <3>3, <4>1
      <4> QED
        BY <4>2, <4>3 DEF IsFollowed
    <3> QED
      BY <3>2, <3>3
  <2> QED
    BY <2>1, <2>2
<1>5. DOMAIN new = 1..m /\ \A k \in 1..m : IsBorn(new[k], next_id_ + (k - 1), dets, matches)
  <2>1. DOMAIN new = 1..m
    BY <1>2 DEF NewTracks
  <2>2. ASSUME NEW k \in 1..m
        PROVE  IsBorn(new[k], next_id_ + (k - 1), dets, matches)
    <3>1. new[k] = Born(dets[fresh[k]], next_id_ + (k - 1))
      BY <1>2 DEF NewTracks
    <3> QED
      BY <1>2, <3>1 DEF IsBorn
  <2> QED
    BY <2>1, <2>2
<1>6. \A k \in 1..n : old[k] \in Tracks
  BY <1>1, <1>3, <1>4, FollowKeeps, LostKeeps DEF IsFollowed, IsLost
<1>7. \A k \in 1..m : new[k] \in Tracks
  <2>1. \A k \in 1..m : next_id_ + (k - 1) \in Nat
    BY <1>1, <1>2
  <2> QED
    BY <1>3, <1>5, <2>1, BornKeeps DEF IsBorn
<1>8. /\ old = [k \in 1..n |-> old[k]] /\ new = [k \in 1..m |-> new[k]]
  BY <1>1, <1>2 DEF Followed, NewTracks
<1> HIDE DEF old, new
<1>9. old \in Seq(Tracks) /\ Len(old) = n /\ new \in Seq(Tracks) /\ Len(new) = m
  BY <1>1, <1>2, <1>6, <1>7, <1>8
<1> HIDE DEF n, m
<1> DEFINE all == old \o new
<1>10. /\ all \in Seq(Tracks) /\ Len(all) = n + m
       /\ \A k \in 1..(Len(old) + Len(new)) :
             all[k] = IF k <= Len(old) THEN old[k] ELSE new[k - Len(old)]
  BY <1>9, ConcatProperties, Zenon
<1>11. /\ \A k \in 1..n : all[k] = old[k]
       /\ \A k \in 1..m : all[n + k] = new[k]
  <2>1. n \in Nat /\ m \in Nat /\ Len(old) = n /\ Len(new) = m
    BY <1>1, <1>2, <1>9
  <2> HIDE DEF all
  <2>2. \A k \in 1..n : k \in 1..(n + m) /\ k <= n
    BY <2>1
  <2>3. \A k \in 1..m : n + k \in 1..(n + m) /\ ~(n + k <= n) /\ (n + k) - n = k
    BY <2>1
  <2> QED
    BY <1>10, <2>1, <2>2, <2>3
<1>12. Now(dets, matches) = all
  BY DEF Now, all, old, new, fresh
<1> HIDE DEF all
<1> QED
  BY <1>1, <1>2, <1>4, <1>5, <1>10, <1>11, <1>12 DEF n, m, fresh

\* spot[i] is the place in all of the track that is now at i.
Traced(ts, spot, all) ==
    /\ spot \in [DOMAIN ts -> DOMAIN all]
    /\ \A i, j \in DOMAIN ts : i < j => spot[i] < spot[j]
    /\ \A j \in DOMAIN ts : /\ ts[j] = Ranked(all[spot[j]])
                            /\ all[spot[j]].lost_frames <= max_lost_frames

LEMMA TracesBack ==
    ASSUME NEW all \in Seq(Tracks)
    PROVE  LET living == Living(all)
               ts == [i \in DOMAIN living |-> Ranked(living[i])]
           IN  ts \in Seq(Tracks) /\ \E spot : Traced(ts, spot, all)
<1> DEFINE living == Living(all)
           C == {t \in ToSet(all) : t.lost_frames <= max_lost_frames}
           ts == [i \in DOMAIN living |-> Ranked(living[i])]
<1>1. /\ living \in Seq(Tracks) /\ LeftOf(living, all)
      /\ \A i \in DOMAIN living : living[i] \in C
  BY OnlyIsSeq, OnlyIsLeft DEF Living
<1>2. \A i \in DOMAIN living : living[i].lost_frames <= max_lost_frames
  BY <1>1
<1> HIDE DEF living, C
<1>3. \A i \in DOMAIN living : living[i] \in Tracks
  BY <1>1
<1>4. \A i \in DOMAIN living : Ranked(living[i]) \in Tracks
  BY <1>3, RankedKeeps
<1>5. ts \in Seq(Tracks)
  <2>1. DOMAIN living = 1..Len(living) /\ Len(living) \in Nat
    BY <1>1
  <2> QED
    BY <1>4, <2>1
<1>6. PICK spot : Places(spot, living, all)
  BY <1>1, LeftOfPlaces
<1>7. DOMAIN ts = DOMAIN living /\ \A i \in DOMAIN ts : ts[i] = Ranked(living[i])
  OBVIOUS
<1> HIDE DEF ts
<1>8. Traced(ts, spot, all)
  BY <1>2, <1>6, <1>7 DEF Traced, Places
<1> QED
  BY <1>5, <1>8 DEF ts, living

\* The tracks of the next frame.
LEMMA UpdateKeeps ==
    ASSUME TrackerOK, NEW dets \in Seq(Detections), trackerUpdate(dets)
    PROVE  TrackerOK' /\ NothingLeftToPair' /\ next_id_' >= next_id_
           /\ \A i \in DOMAIN tracks_, j \in DOMAIN tracks_' :
                 tracks_[i].id = tracks_'[j].id => Swayed(tracks_[i], tracks_'[j])
<1>0. PICK first \in matchDetections(dets) : \E second \in SecondPass(dets, first) :
         /\ next_id_' = next_id_ + Len(Unseen(dets, first \cup second))
         /\ next_id_' <= MaxTrackIds
         /\ tracks_' = [i \in DOMAIN Living(Now(dets, first \cup second)) |->
                          Ranked(Living(Now(dets, first \cup second))[i])]
  BY DEF trackerUpdate, Now
<1>1. PICK second \in SecondPass(dets, first) :
         /\ next_id_' = next_id_ + Len(Unseen(dets, first \cup second))
         /\ next_id_' <= MaxTrackIds
         /\ tracks_' = [i \in DOMAIN Living(Now(dets, first \cup second)) |->
                          Ranked(Living(Now(dets, first \cup second))[i])]
  BY <1>0
<1> DEFINE matches == first \cup second
           all == Now(dets, matches)
           n == Len(tracks_)
           m == Len(Unseen(dets, matches))
<1>2. /\ n \in Nat /\ m \in Nat /\ all \in Seq(Tracks) /\ Len(all) = n + m
      /\ \A k \in 1..n : \/ IsFollowed(all[k], k, dets, matches)
                         \/ IsLost(all[k], k, dets, matches)
      /\ \A k \in 1..m : IsBorn(all[n + k], next_id_ + (k - 1), dets, matches)
  BY PassesGive
<1>3. /\ tracks_ \in Seq(Tracks) /\ DOMAIN tracks_ = 1..n /\ next_id_ \in Nat /\ Rising(tracks_)
      /\ \A k \in 1..n : tracks_[k] \in Tracks /\ TrackOK(tracks_[k]) /\ tracks_[k].id \in Nat
                         /\ tracks_[k].id < next_id_
  <2>1. /\ tracks_ \in Seq(Tracks) /\ DOMAIN tracks_ = 1..n /\ next_id_ \in Nat
        /\ Rising(tracks_)
    BY DEF TrackerOK
  <2>2. \A k \in 1..n : tracks_[k] \in Tracks
    BY <2>1, ElementOfSeq
  <2>3. \A k \in 1..n : tracks_[k].id \in Nat
    BY <2>2 DEF Tracks
  <2>4. \A k \in 1..n : TrackOK(tracks_[k]) /\ tracks_[k].id < next_id_
    BY <2>1 DEF TrackerOK
  <2> QED
    BY <2>1, <2>2, <2>3, <2>4
<1>4. \A d \in DOMAIN dets : dets[d] \in Detections
  OBVIOUS
<1>5. tracks_' \in Seq(Tracks) /\ \E spot : Traced(tracks_', spot, all)
  BY <1>1, <1>2, TracesBack
<1>6. PICK spot : Traced(tracks_', spot, all)
  BY <1>5
<1>7. next_id_' = next_id_ + m
  BY <1>1
<1> HIDE DEF matches, all, n, m
\* What is known of each track before the lost ones go.
<1>8. ASSUME NEW k \in 1..n
      PROVE  /\ all[k] \in Tracks /\ TrackOK(all[k]) /\ all[k].id = tracks_[k].id
             /\ Swayed(tracks_[k], all[k])
             /\ all[k].lost_frames = 0 => all[k].age >= 2
             /\ all[k].lost_frames > 0 => /\ all[k].bbox = tracks_[k].bbox
                                          /\ \A d \in DOMAIN dets : <<k, d>> \notin matches
  <2>1. CASE IsFollowed(all[k], k, dets, matches)
    <3>1. PICK d \in DOMAIN dets : all[k] = Follow(tracks_[k], dets[d])
      BY <2>1 DEF IsFollowed
    <3>2. tracks_[k] \in Tracks /\ TrackOK(tracks_[k]) /\ dets[d] \in Detections
      BY <1>3, <1>4
    <3>3. /\ all[k] \in Tracks /\ TrackOK(all[k]) /\ all[k].lost_frames = 0
          /\ all[k].age >= 2 /\ all[k].id = tracks_[k].id /\ Swayed(tracks_[k], all[k])
      BY <3>1, <3>2, FollowKeeps
    <3>4. ~(all[k].lost_frames > 0)
      BY <3>3
    <3> QED
      BY <3>3, <3>4
  <2>2. CASE IsLost(all[k], k, dets, matches)
    <3>1. tracks_[k] \in Tracks /\ TrackOK(tracks_[k]) /\ all[k] = Lost(tracks_[k])
          /\ \A d \in DOMAIN dets : <<k, d>> \notin matches
      BY <1>3, <2>2 DEF IsLost
    <3>2. /\ all[k] \in Tracks /\ TrackOK(all[k]) /\ all[k].id = tracks_[k].id
          /\ all[k].lost_frames > 0 /\ all[k].bbox = tracks_[k].bbox
          /\ all[k].affiliation = tracks_[k].affiliation
      BY <3>1, LostKeeps
    <3>3. all[k].lost_frames # 0
      BY <3>2
    <3> QED
      BY <3>1, <3>2, <3>3 DEF Swayed
  <2> QED
    BY <1>2, <2>1, <2>2
<1>9. ASSUME NEW k \in 1..m
      PROVE  /\ all[n + k] \in Tracks /\ TrackOK(all[n + k]) /\ all[n + k].lost_frames = 0
             /\ all[n + k].id = next_id_ + (k - 1)
             /\ \E d \in DOMAIN dets : /\ all[n + k].bbox = dets[d].bbox
                                       /\ \A t \in DOMAIN tracks_ : <<t, d>> \notin matches
  <2>1. next_id_ + (k - 1) \in Nat
    BY <1>2, <1>3
  <2>2. IsBorn(all[n + k], next_id_ + (k - 1), dets, matches)
    BY <1>2
  <2> QED
    BY <1>4, <2>1, <2>2, BornKeeps DEF IsBorn
<1>10. \A k \in 1..(n + m) : k \in 1..n \/ \E i \in 1..m : k = n + i
  <2>1. \A k \in 1..(n + m) : k \in 1..n \/ (k - n \in 1..m /\ k = n + (k - n))
    BY <1>2
  <2> QED
    BY <2>1
<1>11. ASSUME NEW k \in 1..(n + m)
       PROVE  /\ all[k] \in Tracks /\ TrackOK(all[k]) /\ all[k].id \in Nat
              /\ all[k].id < next_id_ + m
  <2>1. CASE k \in 1..n
    <3>1. all[k].id = tracks_[k].id /\ tracks_[k].id \in Nat /\ tracks_[k].id < next_id_
      BY <1>3, <1>8, <2>1
    <3> QED
      BY <1>2, <1>3, <1>8, <2>1, <3>1
  <2>2. ASSUME NEW i \in 1..m, k = n + i
        PROVE  /\ all[k] \in Tracks /\ TrackOK(all[k]) /\ all[k].id \in Nat
               /\ all[k].id < next_id_ + m
    <3>1. all[k].id = next_id_ + (i - 1) /\ all[k] \in Tracks /\ TrackOK(all[k])
      BY <1>9, <2>2
    <3> QED
      BY <1>2, <1>3, <3>1
  <2> QED
    BY <1>10, <2>1, <2>2
<1>12. ASSUME NEW i \in 1..(n + m), NEW j \in 1..(n + m), i < j
       PROVE  all[i].id < all[j].id
  <2>1. CASE j \in 1..n
    <3>1. i \in 1..n
      BY <1>2, <1>12, <2>1
    <3>2. tracks_[i].id < tracks_[j].id
      BY <1>3, <1>12, <2>1, <3>1 DEF Rising
    <3> QED
      BY <1>8, <2>1, <3>1, <3>2
  <2>2. ASSUME NEW b \in 1..m, j = n + b
        PROVE  all[i].id < all[j].id
    <3>1. all[j].id = next_id_ + (b - 1)
      BY <1>9, <2>2
    <3>2. CASE i \in 1..n
      <4>1. all[i].id = tracks_[i].id /\ tracks_[i].id \in Nat /\ tracks_[i].id < next_id_
        BY <1>3, <1>8, <3>2
      <4> QED
        BY <1>2, <1>3, <3>1, <4>1
    <3>3. ASSUME NEW a \in 1..m, i = n + a
          PROVE  all[i].id < all[j].id
      <4>1. all[i].id = next_id_ + (a - 1)
        BY <1>9, <3>3
      <4>2. a < b
        BY <1>2, <1>12, <2>2, <3>3
      <4> QED
        BY <1>2, <1>3, <3>1, <4>1, <4>2
    <3> QED
      BY <1>10, <3>2, <3>3
  <2> QED
    BY <1>10, <2>1, <2>2
<1>13. /\ \A j \in DOMAIN tracks_' : spot[j] \in 1..(n + m)
       /\ \A i, j \in DOMAIN tracks_' : i < j => spot[i] < spot[j]
       /\ \A j \in DOMAIN tracks_' : /\ tracks_'[j] = Ranked(all[spot[j]])
                                     /\ all[spot[j]].lost_frames <= max_lost_frames
  BY <1>2, <1>6 DEF Traced
<1>14. ASSUME NEW j \in DOMAIN tracks_'
       PROVE  LET u == tracks_'[j]
                  t == all[spot[j]]
              IN  /\ u.lost_frames = t.lost_frames /\ u.age = t.age
                  /\ u.id = t.id /\ u.bbox = t.bbox /\ u.affiliation = t.affiliation
                  /\ u.affiliation_history = t.affiliation_history
  BY <1>11, <1>13, RankedKeeps
<1>15. TrackerOK'
  <2>1. next_id_' \in 0..MaxTrackIds
    BY <1>1, <1>2, <1>3, <1>7, TrackerAssumption
  <2>2. Rising(tracks_')
    BY <1>12, <1>13, <1>14 DEF Rising
  <2>3. ASSUME NEW j \in DOMAIN tracks_'
        PROVE  /\ TrackOK(tracks_'[j]) /\ tracks_'[j].id < next_id_'
               /\ tracks_'[j].lost_frames <= max_lost_frames
    <3>1. TrackOK(all[spot[j]]) /\ all[spot[j]].id < next_id_ + m
      BY <1>11, <1>13
    <3>2. TrackOK(tracks_'[j])
      BY <1>14, <3>1 DEF TrackOK
    <3> QED
      BY <1>7, <1>13, <1>14, <3>1, <3>2
  <2> QED
    BY <1>5, <2>1, <2>2, <2>3 DEF TrackerOK
<1>16. NothingLeftToPair'
  <2> SUFFICES ASSUME NEW i \in DOMAIN tracks_', NEW j \in DOMAIN tracks_',
                      tracks_'[i].lost_frames > 0, JustBorn(tracks_'[j])
               PROVE  /\ ~Overlapping(tracks_'[i].bbox, tracks_'[j].bbox)
                      /\ ~Near(tracks_'[i].bbox, tracks_'[j].bbox)
    BY DEF NothingLeftToPair
  <2> DEFINE k == spot[i]
             l == spot[j]
  <2>1. k \in 1..(n + m) /\ l \in 1..(n + m)
    BY <1>13
  <2>2. all[k].lost_frames > 0 /\ tracks_'[i].bbox = all[k].bbox
    BY <1>14
  <2>3. all[l].age = 1 /\ all[l].lost_frames = 0 /\ tracks_'[j].bbox = all[l].bbox
    BY <1>14 DEF JustBorn
  <2> HIDE DEF k, l
  <2>4. k \in 1..n
    <3>1. ASSUME NEW a \in 1..m, k = n + a
          PROVE  FALSE
      <4>1. all[k].lost_frames = 0
        BY <1>9, <3>1
      <4> QED
        BY <2>2, <4>1
    <3> QED
      BY <1>10, <2>1, <3>1
  <2>5. PICK a \in 1..m : l = n + a
    <3>1. l \notin 1..n
      <4> SUFFICES ASSUME l \in 1..n
                   PROVE  FALSE
        OBVIOUS
      <4>1. all[l].age >= 2
        BY <1>8, <2>3
      <4> QED
        BY <2>3, <4>1
    <3> QED
      BY <1>10, <2>1, <3>1
  <2>6. /\ tracks_'[i].bbox = tracks_[k].bbox
        /\ \A d \in DOMAIN dets : <<k, d>> \notin matches
    BY <1>8, <2>2, <2>4
  <2>7. PICK d \in DOMAIN dets : /\ tracks_'[j].bbox = dets[d].bbox
                                 /\ \A t \in DOMAIN tracks_ : <<t, d>> \notin matches
    BY <1>9, <2>3, <2>5
  <2>8. k \in DOMAIN tracks_
    BY <1>3, <2>4
  <2> DEFINE p == <<k, d>>
  <2>9. p[1] = k /\ p[2] = d /\ p \in (DOMAIN tracks_) \X (DOMAIN dets)
    BY <2>8
  <2>10. first \subseteq (DOMAIN tracks_) \X (DOMAIN dets)
    BY DEF matchDetections, Greedy, candidates
  <2>11. second \subseteq (DOMAIN tracks_) \X (DOMAIN dets)
    BY <1>1 DEF SecondPass, Greedy, Leftovers
  <2>12. \A q \in matches : ~Clash(p, q)
    <3>1. SUFFICES ASSUME NEW q \in matches, Clash(p, q)
                   PROVE  FALSE
      OBVIOUS
    <3>2. PICK t \in DOMAIN tracks_, e \in DOMAIN dets : q = <<t, e>>
      BY <2>10, <2>11 DEF matches
    <3>3. k = t \/ d = e
      BY <2>9, <3>1, <3>2 DEF Clash
    <3> QED
      BY <2>6, <2>7, <3>2, <3>3
  <2> HIDE DEF p
  <2>13. p \notin first /\ p \notin second
    BY <2>12 DEF Clash, matches
  <2>14. p \notin candidates(dets)
    BY <2>12, <2>13 DEF matchDetections, Greedy, matches
  <2>15. p \notin Leftovers(dets, first)
    <3>1. \E b : second \in Greedy(Leftovers(dets, first), b)
      BY <1>1 DEF SecondPass
    <3> QED
      BY <2>12, <2>13, <3>1 DEF Greedy, matches
  <2>16. ~Overlapping(tracks_[k].bbox, dets[d].bbox)
    BY <2>9, <2>14 DEF candidates
  <2>17. ~Near(tracks_[k].bbox, dets[d].bbox)
    BY <2>9, <2>12, <2>15 DEF Leftovers, matches
  <2> QED
    BY <2>6, <2>7, <2>16, <2>17
<1>17. ASSUME NEW i \in DOMAIN tracks_, NEW j \in DOMAIN tracks_',
              tracks_[i].id = tracks_'[j].id
       PROVE  Swayed(tracks_[i], tracks_'[j])
  <2> DEFINE k == spot[j]
  <2>1. k \in 1..(n + m) /\ all[k].id = tracks_[i].id
    BY <1>13, <1>14, <1>17
  <2>2. i \in 1..n /\ i \in 1..(n + m)
    BY <1>2, <1>3
  <2>3. all[i].id = all[k].id /\ all[i].id \in Nat
    BY <1>8, <1>11, <2>1, <2>2
  <2>4. k = i
    <3>1. ~(k < i) /\ ~(i < k)
      BY <1>11, <1>12, <2>1, <2>2, <2>3
    <3> HIDE DEF k
    <3> QED
      BY <1>2, <2>1, <2>2, <3>1
  <2>5. Swayed(tracks_[i], all[k])
    BY <1>8, <2>2, <2>4
  <2> QED
    BY <1>14, <2>5 DEF Swayed
<1>18. next_id_' >= next_id_
  BY <1>2, <1>3, <1>7
<1> QED
  BY <1>15, <1>16, <1>17, <1>18

-----------------------------------------------------------------------------

LEMMA TrackerInitially == TrackerInit => TrackerOK /\ NothingLeftToPair
  BY TrackerAssumption DEF TrackerInit, TrackerOK, NothingLeftToPair, Rising

\* What a step leaves: also that the tracks with an id of before are swayed ones.
LEMMA TrackerStep ==
    ASSUME TrackerOK, NothingLeftToPair, [TrackerNext]_tracker_vars
    PROVE  TrackerOK' /\ NothingLeftToPair'
           /\ \A i \in DOMAIN tracks_, j \in DOMAIN tracks_' :
                 tracks_[i].id = tracks_'[j].id => Swayed(tracks_[i], tracks_'[j])
<1>1. ASSUME NEW scene \in Scenes, trackerUpdate(scene)
      PROVE  TrackerOK' /\ NothingLeftToPair'
             /\ \A i \in DOMAIN tracks_, j \in DOMAIN tracks_' :
                   tracks_[i].id = tracks_'[j].id => Swayed(tracks_[i], tracks_'[j])
  <2>1. scene \in Seq(Detections)
    BY TrackerAssumption
  <2> QED
    BY <1>1, <2>1, UpdateKeeps
<1>2. CASE trackerReset
  <2>1. tracks_' = <<>> /\ next_id_' = 0
    BY <1>2 DEF trackerReset
  <2> QED
    BY <2>1, TrackerAssumption DEF TrackerOK, NothingLeftToPair, Rising
<1>3. CASE UNCHANGED tracker_vars
  <2>1. tracks_' = tracks_ /\ next_id_' = next_id_
    BY <1>3 DEF tracker_vars
  <2>2. TrackerOK' /\ NothingLeftToPair'
    BY <2>1 DEF TrackerOK, NothingLeftToPair, Rising
  <2>3. \A i, j \in DOMAIN tracks_ : tracks_[i].id = tracks_[j].id => i = j
    <3>1. ASSUME NEW i \in DOMAIN tracks_, NEW j \in DOMAIN tracks_, i < j
          PROVE  tracks_[i].id # tracks_[j].id
      <4>1. tracks_[i] \in Tracks /\ tracks_[j] \in Tracks /\ tracks_[i].id < tracks_[j].id
        BY <3>1 DEF TrackerOK, Rising
      <4>2. tracks_[i].id \in Nat /\ tracks_[j].id \in Nat
        BY <4>1 DEF Tracks
      <4> QED
        BY <4>1, <4>2
    <3>2. \A i \in DOMAIN tracks_ : i \in Int
      BY DEF TrackerOK
    <3> QED
      BY <3>1, <3>2
  <2> QED
    BY <2>1, <2>2, <2>3 DEF Swayed
<1> QED
  BY <1>1, <1>2, <1>3 DEF TrackerNext

(* The vector of tracks is in order: ids rise along it and stay below the    *)
(* next one, so that no two tracks share one; no track is kept beyond the    *)
(* limit of lost frames; the history is never longer than five and always    *)
(* has a vote for the affiliation shown.  For any scenes and thresholds.     *)
THEOREM TracksStayOK == TrackerSpec => []TracksOK
<1>1. TrackerOK => TracksOK
  <2> SUFFICES ASSUME TrackerOK
               PROVE  TracksOK
    OBVIOUS
  <2>1. /\ next_id_ \in 0..MaxTrackIds /\ Len(tracks_) \in Nat
        /\ DOMAIN tracks_ = 1..Len(tracks_)
    BY DEF TrackerOK
  <2>2. ASSUME NEW i \in DOMAIN tracks_
        PROVE  /\ tracks_[i].id < next_id_ /\ tracks_[i].lost_frames \in 0..max_lost_frames
               /\ tracks_[i].age \in 1..MaxAge
               /\ Len(tracks_[i].affiliation_history) \in 1..kAffiliationHistoryMax
               /\ Votes(tracks_[i].affiliation_history, tracks_[i].affiliation) > 0
    <3>1. tracks_[i] \in Tracks /\ tracks_[i].id < next_id_ /\ TrackOK(tracks_[i])
          /\ tracks_[i].lost_frames <= max_lost_frames
      BY DEF TrackerOK
    <3>2. tracks_[i].lost_frames \in Nat
      BY <3>1 DEF Tracks
    <3>3. tracks_[i].lost_frames \in 0..max_lost_frames
      BY <3>1, <3>2, TrackerAssumption
    <3> QED
      BY <3>1, <3>3 DEF TrackOK, kAffiliationHistoryMax
  <2>3. ASSUME NEW i \in DOMAIN tracks_, i > 1
        PROVE  tracks_[i - 1].id < tracks_[i].id
    <3>1. i - 1 \in DOMAIN tracks_ /\ i - 1 < i
      BY <2>1, <2>3
    <3> QED
      BY <3>1 DEF TrackerOK, Rising
  <2> QED
    BY <2>1, <2>2, <2>3 DEF TracksOK
<1> QED
  BY <1>1, TrackerInitially, TrackerStep, PTL DEF TrackerSpec

(* No track is declared lost in a frame that opens a new track within its    *)
(* reach, whatever order the two sorts give to equal pairs.                  *)
THEOREM NothingIsLeftToPair == TrackerSpec => []NothingLeftToPair
  BY TrackerInitially, TrackerStep, PTL DEF TrackerSpec

(* The affiliation of a track changes only to one that was read at least     *)
(* twice in its last five frames, and more often than the one it had.        *)
THEOREM FlipsNeedTwoFrames == TrackerSpec => OneFrameNeverFlips
<1>1. ASSUME TrackerOK, NothingLeftToPair, [TrackerNext]_tracker_vars
      PROVE  [\A i \in DOMAIN tracks_, j \in DOMAIN tracks_' :
                LET t == tracks_[i]
                    u == tracks_'[j]
                IN  t.id = u.id /\ t.affiliation # u.affiliation =>
                      /\ Votes(u.affiliation_history, u.affiliation) >= 2
                      /\ Votes(u.affiliation_history, u.affiliation)
                           > Votes(u.affiliation_history, t.affiliation)]_tracker_vars
  BY <1>1, TrackerStep DEF Swayed
<1> QED
  BY <1>1, TrackerInitially, TrackerStep, PTL DEF TrackerSpec, OneFrameNeverFlips


-----------------------------------------------------------------------------
(* The detector's geometry, for any frame and input sizes.                   *)

LEMMA Growing ==
    ASSUME NEW a \in Int, NEW x \in Int, NEW y \in Int, x <= y
    PROVE  a * x \in Int /\ a * y \in Int /\ (a >= 0 => a * x <= a * y) /\ (a <= 0 => a * x >= a * y)
  OBVIOUS

LEMMA GrowingStrictly ==
    ASSUME NEW a \in Int, NEW x \in Int, NEW y \in Int, a > 0, x < y
    PROVE  x * a < y * a
  OBVIOUS

LEMMA Parts ==
    ASSUME NEW x \in Int, NEW d \in Int, d > 0
    PROVE  x \div d \in Int /\ (x \div d) * d <= x /\ x < (x \div d + 1) * d
  OBVIOUS

\* A quotient between two bounds.
LEMMA PartsBetween ==
    ASSUME NEW x \in Int, NEW d \in Int, d > 0, NEW c \in Int
    PROVE  /\ x <= c * d => x \div d <= c
           /\ x >= c * d => x \div d >= c
<1> DEFINE q == x \div d
<1>1. q \in Int /\ q * d <= x /\ x < (q + 1) * d
  BY Parts
<1> HIDE DEF q
<1>2. q > c => c * d < q * d
  BY <1>1, GrowingStrictly
<1>3. q + 1 <= c => (q + 1) * d <= c * d
  <2>1. q + 1 = c => (q + 1) * d = c * d
    OBVIOUS
  <2>2. q + 1 < c => (q + 1) * d < c * d
    BY <1>1, GrowingStrictly
  <2>3. (q + 1) * d \in Int /\ c * d \in Int
    BY <1>1
  <2> QED
    BY <1>1, <2>1, <2>2, <2>3
<1>4. c * d \in Int /\ q * d \in Int /\ (q + 1) * d \in Int
  BY <1>1
<1>5. x <= c * d => q <= c
  BY <1>1, <1>2, <1>4
<1>6. x >= c * d => q >= c
  BY <1>1, <1>3, <1>4
<1> QED
  BY <1>5, <1>6 DEF q

LEMMA TwoParts ==
    ASSUME NEW x \in Int, NEW y \in Int, NEW d \in Int, d > 0, NEW c \in Int
    PROVE  /\ x + y <= c * d => (x \div d) + (y \div d) <= c
           /\ x + y >= c * d => (x \div d) + (y \div d) >= c - 1
<1> DEFINE p == x \div d
           q == y \div d
<1>1. p \in Int /\ p * d <= x /\ x < (p + 1) * d
  BY Parts
<1>2. q \in Int /\ q * d <= y /\ y < (q + 1) * d
  BY Parts
<1> HIDE DEF p, q
<1>3. /\ p * d \in Int /\ q * d \in Int /\ c * d \in Int
      /\ (p + q) * d = p * d + q * d /\ ((p + q) + 2) * d = (p + 1) * d + (q + 1) * d
      /\ (p + 1) * d \in Int /\ (q + 1) * d \in Int
  BY <1>1, <1>2
<1>4. p + q > c => c * d < (p + q) * d
  BY <1>1, <1>2, GrowingStrictly
<1>5. (p + q) + 2 <= c => ((p + q) + 2) * d <= c * d
  <2>1. (p + q) + 2 = c => ((p + q) + 2) * d = c * d
    OBVIOUS
  <2>2. (p + q) + 2 < c => ((p + q) + 2) * d < c * d
    BY <1>1, <1>2, GrowingStrictly
  <2>3. ((p + q) + 2) * d \in Int
    BY <1>1, <1>2
  <2> QED
    BY <1>1, <1>2, <1>3, <2>1, <2>2, <2>3
<1>6. x + y <= c * d => p + q <= c
  BY <1>1, <1>2, <1>3, <1>4
<1>7. x + y >= c * d => p + q >= c - 1
  <2>1. x + y < ((p + q) + 2) * d
    BY <1>1, <1>2, <1>3
  <2> QED
    BY <1>1, <1>2, <1>3, <1>5, <2>1
<1> QED
  BY <1>6, <1>7 DEF p, q

-----------------------------------------------------------------------------
(* Letterbox and back.                                                       *)

Sizes == (Nat \ {0}) \X (Nat \ {0})

\* Where the model sees the frame's place a, over 2 * Side.
Seen(a) == 2 * Side * PastedAt + 2 * a * NewSide

\* How much of a frame's pixel the scale keeps, over Over.
Scale == 2 * NewSide * Large

LEMMA SizesAreNumbers ==
    ASSUME size \in Sizes
    PROVE  /\ Side \in Nat /\ Side > 0 /\ Large \in Nat /\ Large >= Side
           /\ InputSize \in Nat /\ InputSize > 0
           /\ Over \in Nat /\ Over > 0
<1>1. size[1] \in Nat /\ size[2] \in Nat /\ size[1] > 0 /\ size[2] > 0
  BY DEF Sizes
<1>2. InputSize \in Nat /\ InputSize > 0
  BY GeometryAssumption
<1>3. Side \in Nat /\ Side > 0 /\ Large \in Nat /\ Large >= Side
  BY <1>1 DEF Side, Large
<1>4. \A a, b \in Nat : a > 0 /\ b > 0 => 2 * a * b \in Nat /\ 2 * a * b > 0
  OBVIOUS
<1> QED
  BY <1>2, <1>3, <1>4 DEF Over

LEMMA ScaleIsNearOver ==
    ASSUME size \in Sizes
    PROVE  /\ NewSide \in Nat /\ Scale \in Nat
           /\ Over - Large <= Scale /\ Scale <= Over + Large
<1> DEFINE x == 2 * Side * InputSize + Large
           d == 2 * Large
<1>1. /\ Side \in Nat /\ Side > 0 /\ Large \in Nat /\ Large > 0
      /\ Over \in Nat /\ Over > 0
  BY SizesAreNumbers
<1>2. x = Over + Large /\ x \in Nat /\ d \in Nat /\ d > 0
  BY <1>1 DEF Over
<1>3. NewSide = x \div d
  BY DEF NewSide
<1>4. NewSide \in Int /\ NewSide * d <= x /\ x < (NewSide + 1) * d
  BY <1>2, <1>3, Parts
<1>5. NewSide >= 0
  <2>1. x >= 0 * d
    BY <1>2
  <2> QED
    BY <1>2, <1>3, <2>1, PartsBetween
<1>6. NewSide * d = Scale /\ (NewSide + 1) * d = Scale + 2 * Large
  <2>1. \A n, l \in Int : n * (2 * l) = 2 * n * l /\ (n + 1) * (2 * l) = 2 * n * l + 2 * l
    OBVIOUS
  <2> QED
    BY <1>1, <1>4, <2>1 DEF Scale
<1>7. Scale \in Int
  BY <1>1, <1>4 DEF Scale
<1>8. Scale >= 0
  <2>1. \A n, l \in Nat : 2 * n * l >= 0
    OBVIOUS
  <2> QED
    BY <1>1, <1>4, <1>5, <2>1 DEF Scale
<1> HIDE DEF x, d
<1> QED
  BY <1>1, <1>2, <1>4, <1>5, <1>6, <1>7, <1>8

\* What comes back of a place: scaled, and less at most half a pixel of the input.
LEMMA UnmapSeen ==
    ASSUME size \in Sizes
    PROVE  \E e \in 0..1 : \A a \in Int :
              Unmap(Seen(a)) = a * Scale - e * (Side * Large)
<1>1. /\ Side \in Nat /\ Large \in Nat /\ InputSize \in Nat /\ NewSide \in Nat
  BY SizesAreNumbers, ScaleIsNearOver
<1>2. PadTwice \in Int
  BY <1>1 DEF PadTwice
<1>3. PastedAt \in Int /\ PadTwice - 2 * PastedAt \in 0..1
  BY <1>2 DEF PastedAt
<1> DEFINE e == PadTwice - 2 * PastedAt
<1>4. \A s, l, n, p, q, a \in Int :
        ((2 * s * q + 2 * a * n) - s * p) * l = a * (2 * n * l) - (p - 2 * q) * (s * l)
  OBVIOUS
<1>5. ASSUME NEW a \in Int
      PROVE  Unmap(Seen(a)) = a * Scale - e * (Side * Large)
  BY <1>1, <1>2, <1>3, <1>4 DEF Unmap, Seen, Scale
<1> QED
  BY <1>3, <1>5

Loss == Slack - 2

LEMMA LossIsEnough ==
    ASSUME size \in Sizes
    PROVE  Loss \in Nat /\ Slack = Loss + 2 /\ 2 * (Side * Large) <= Loss * Over
<1>1. /\ Side \in Nat /\ Side > 0 /\ Large \in Nat /\ Large > 0
      /\ InputSize \in Nat /\ InputSize > 0
  BY SizesAreNumbers
<1> DEFINE x == Large + (InputSize - 1)
           k == x \div InputSize
<1>2. x \in Int /\ x >= 0
  BY <1>1
<1>3. k \in Int /\ x < (k + 1) * InputSize /\ k >= 0
  <2>1. k \in Int /\ x < (k + 1) * InputSize
    BY <1>1, <1>2, Parts
  <2>2. x >= 0 * InputSize
    BY <1>1, <1>2
  <2> QED
    BY <1>1, <1>2, <2>1, <2>2, PartsBetween
<1>4. Slack = k + 2
  BY DEF Slack
<1> HIDE DEF k
<1>5. (k + 1) * InputSize = k * InputSize + InputSize /\ k * InputSize \in Int
  BY <1>1, <1>3
<1>6. Large <= k * InputSize
  BY <1>1, <1>3, <1>5
<1>7. (2 * Side) * Large <= (2 * Side) * (k * InputSize)
  <2>1. 2 * Side \in Int /\ 2 * Side >= 0
    BY <1>1
  <2> QED
    BY <1>1, <1>5, <1>6, <2>1, Growing
<1>8. \A s, l, i, n \in Int : (2 * s) * l = 2 * (s * l) /\ (2 * s) * (n * i) = n * (2 * s * i)
  OBVIOUS
<1>9. 2 * (Side * Large) <= k * Over
  BY <1>1, <1>3, <1>7, <1>8 DEF Over
<1>10. Loss = k /\ k \in Nat
  BY <1>3, <1>4 DEF Loss
<1> QED
  BY <1>4, <1>9, <1>10

Back(a) == Unmap(Seen(a))

LEMMA BackIsNear ==
    ASSUME size \in Sizes
    PROVE  LET area == Side * Large
           IN  /\ area \in Nat
               /\ \A a \in Int : Back(a) \in Int
               /\ \A a, b \in Int : a < b =>
                     /\ Back(a) <= Back(b)
                     /\ (Seen(b) - Seen(a)) * Large = Back(b) - Back(a)
               /\ \A a \in 0..Side : /\ a * Over - 2 * area <= Back(a)
                                     /\ Back(a) <= a * Over + area
               /\ \A a \in Int : /\ a < 0 => Back(a) <= 0
                                 /\ a >= 0 => Back(a) >= -area
<1> DEFINE area == Side * Large
<1>1. /\ Side \in Nat /\ Large \in Nat /\ Over \in Nat /\ NewSide \in Nat /\ Scale \in Nat
      /\ Over - Large <= Scale /\ Scale <= Over + Large /\ PastedAt \in Int
  <2>1. PastedAt \in Int
    <3>1. NewSide \in Nat /\ InputSize \in Nat
      BY SizesAreNumbers, ScaleIsNearOver
    <3>2. PadTwice \in Int
      BY <3>1 DEF PadTwice
    <3> QED
      BY <3>2 DEF PastedAt
  <2> QED
    BY <2>1, SizesAreNumbers, ScaleIsNearOver
<1>2. area \in Nat
  BY <1>1
<1>3. PICK e \in 0..1 : \A a \in Int : Back(a) = a * Scale - e * area
  BY UnmapSeen DEF Back
<1> HIDE DEF area
<1>4. e * area \in Nat /\ e * area <= area
  BY <1>2
<1>5. \A a \in Int : a * Scale \in Int /\ a * Over \in Int /\ a * Large \in Int
  BY <1>1
<1>6. \A a \in Int : Back(a) \in Int
  BY <1>3, <1>4, <1>5
<1>7. ASSUME NEW a \in Int, NEW b \in Int, a < b
      PROVE  /\ Back(a) <= Back(b)
             /\ (Seen(b) - Seen(a)) * Large = Back(b) - Back(a)
  <2>1. a * Scale <= b * Scale
    BY <1>1, <1>7
  <2>2. \A n, l, s, p \in Int :
          ((2 * s * p + 2 * b * n) - (2 * s * p + 2 * a * n)) * l
            = b * (2 * n * l) - a * (2 * n * l)
    OBVIOUS
  <2>3. (Seen(b) - Seen(a)) * Large = b * Scale - a * Scale
    BY <1>1, <2>2 DEF Seen, Scale
  <2> QED
    BY <1>3, <1>4, <1>5, <2>1, <2>3
<1>8. ASSUME NEW a \in 0..Side
      PROVE  a * Over - 2 * area <= Back(a) /\ Back(a) <= a * Over + area
  <2>1. a \in Int /\ a >= 0 /\ a <= Side
    BY <1>1
  <2>2. a * Large <= area
    BY <1>1, <2>1 DEF area
  <2>3. a * (Over - Large) <= a * Scale /\ a * Scale <= a * (Over + Large)
    BY <1>1, <2>1, Growing
  <2>4. a * (Over - Large) = a * Over - a * Large /\ a * (Over + Large) = a * Over + a * Large
    BY <1>1, <2>1
  <2> QED
    BY <1>2, <1>3, <1>4, <1>5, <2>1, <2>2, <2>3, <2>4
<1>9. ASSUME NEW a \in Int
      PROVE  (a < 0 => Back(a) <= 0) /\ (a >= 0 => Back(a) >= -area)
  <2>1. (a < 0 => a * Scale <= 0) /\ (a >= 0 => a * Scale >= 0)
    BY <1>1
  <2> QED
    BY <1>2, <1>3, <1>4, <1>5, <2>1
<1> QED
  BY <1>2, <1>6, <1>7, <1>8, <1>9 DEF area

LEMMA CropHoldsObject ==
    ASSUME size \in Sizes, NEW a \in Int, NEW b \in Int, a < b, a < Side, b > 0
    PROVE  LET parsed == parseOutput1D(Seen(a), Seen(b))
               crop   == Crop(parsed[1], parsed[2])
           IN  /\ 0 <= crop[1] /\ crop[2] <= Side
               /\ crop[1] <= Most(0, a) + Slack /\ crop[2] >= Least(Side, b) - Slack
               /\ a >= 0 => crop[1] >= a - Slack /\ crop[2] <= b + Slack
<1> DEFINE S == Side
           O == Over
           k == Loss
           area == Side * Large
           x == Most(0, Back(a))
           w == Back(b) - Back(a)
           w1 == IF x + w > S * O THEN S * O - x ELSE w
           corner == Trunc(x, O)
           length == Trunc(w1, O)
           crop == Crop(corner, length)
           seen == Least(S, b)
<1>1. /\ S \in Nat /\ S > 0 /\ O \in Nat /\ O > 0 /\ k \in Nat /\ Slack = k + 2
      /\ area \in Nat /\ 2 * area <= k * O
  BY SizesAreNumbers, LossIsEnough, BackIsNear
<1>2. /\ Back(a) \in Int /\ Back(b) \in Int /\ Back(S) \in Int /\ Back(a) <= Back(b)
      /\ (Seen(b) - Seen(a)) * Large = w
      /\ b > S => Back(S) <= Back(b)
  BY <1>1, BackIsNear
<1>3. parseOutput1D(Seen(a), Seen(b)) = <<corner, length>>
  BY <1>2 DEF parseOutput1D, Back
<1>4. crop = <<Most(0, corner), Least(S, corner + length)>>
  BY DEF Crop
<1>5. /\ a >= 0 => /\ a * O - 2 * area <= Back(a) /\ Back(a) <= a * O + area
                   /\ Back(a) >= -area
      /\ a < 0 => Back(a) <= 0
  <2>1. a >= 0 => a \in 0..S
    BY <1>1
  <2> QED
    BY <2>1, BackIsNear
<1>6. seen * O - 2 * area <= Back(b) /\ seen \in 0..S /\ (b <= S => Back(b) <= b * O + area)
  <2>1. CASE b <= S
    <3>1. b \in 0..S /\ seen = b
      BY <1>1, <2>1 DEF Least
    <3> QED
      BY <2>1, <3>1, BackIsNear
  <2>2. CASE b > S
    <3>1. S \in 0..S /\ seen = S /\ ~(b <= S)
      BY <1>1, <2>2 DEF Least
    <3>2. S * O - 2 * area <= Back(S)
      BY <3>1, BackIsNear
    <3>3. S * O \in Int
      BY <1>1
    <3> HIDE DEF area, S, O, seen
    <3> QED
      BY <1>1, <1>2, <2>2, <3>1, <3>2, <3>3
  <2> QED
    BY <1>1, <2>1, <2>2
<1> HIDE DEF S, O, k, area, seen
<1>7. /\ a * O \in Int /\ b * O \in Int /\ seen * O \in Int /\ k * O \in Int /\ S * O \in Int
      /\ (a + k) * O = a * O + k * O /\ (a - k) * O = a * O - k * O
      /\ (b + k) * O = b * O + k * O /\ (seen - k) * O = seen * O - k * O
      /\ k * O >= 0
  BY <1>1, <1>6
<1>8. x \in Int /\ x >= 0 /\ w \in Int /\ w >= 0
  BY <1>2 DEF Most
\* The crop begins about where the object does.
<1>9. /\ a >= 0 => x <= (a + k) * O /\ x >= (a - k) * O
      /\ a < 0 => x = 0
  <2>1. a >= 0 => a * O >= 0
    BY <1>1
  <2> QED
    BY <1>1, <1>2, <1>5, <1>7, <2>1 DEF Most
\* It ends about where the visible part of the object does.
<1>10. /\ x + w >= (seen - k) * O
       /\ a >= 0 /\ b <= S => x + w <= (b + k) * O
  BY <1>1, <1>2, <1>5, <1>6, <1>7 DEF Most
<1> HIDE DEF x, w
<1>11. /\ corner = x \div O /\ corner \in Int /\ corner >= 0
       /\ a >= 0 => corner <= a + k /\ corner >= a - k
       /\ a < 0 => corner <= 0
  <2>1. corner = x \div O
    BY <1>8 DEF Trunc
  <2>2. x \div O \in Int
    BY <1>1, <1>8, Parts
  <2>3. x \div O >= 0
    <3>1. x >= 0 * O
      BY <1>1, <1>8
    <3> QED
      BY <1>1, <1>8, <3>1, PartsBetween
  <2>4. a >= 0 => x \div O <= a + k /\ x \div O >= a - k
    <3>1. a + k \in Int /\ a - k \in Int
      BY <1>1
    <3> QED
      BY <1>1, <1>8, <1>9, <3>1, PartsBetween
  <2>5. a < 0 => x \div O <= 0
    <3>1. a < 0 => x <= 0 * O
      BY <1>1, <1>8, <1>9
    <3> QED
      BY <1>1, <1>8, <3>1, PartsBetween
  <2> HIDE DEF corner
  <2> QED
    BY <2>1, <2>2, <2>3, <2>4, <2>5
<1>12. /\ length \in Int /\ corner + length >= (seen - k) - 1
       /\ a >= 0 /\ b <= S => corner + length <= b + k \/ S <= b + k
  <2>1. CASE ~(x + w > S * O)
    <3>1. length = w \div O /\ w \div O \in Int
      BY <1>1, <1>8, <2>1, Parts DEF Trunc
    <3>2. seen - k \in Int /\ b + k \in Int
      BY <1>1, <1>6
    <3>3. /\ (x \div O) + (w \div O) >= (seen - k) - 1
          /\ x + w <= (b + k) * O => (x \div O) + (w \div O) <= b + k
      BY <1>1, <1>8, <1>10, <3>2, TwoParts
    <3>4. a >= 0 /\ b <= S => (x \div O) + (w \div O) <= b + k
      BY <1>10, <3>3
    <3>5. corner + length = (x \div O) + (w \div O) /\ length \in Int
      BY <1>11, <3>1
    <3> HIDE DEF corner, length
    <3> QED
      BY <3>3, <3>4, <3>5, Zenon
  <2>2. CASE x + w > S * O
    <3> DEFINE rest == S * O - x
    <3>1. w1 = rest /\ rest \in Int
      BY <1>7, <1>8, <2>2
    <3>2. corner + length >= S - 1 /\ length \in Int
      <4>1. CASE rest >= 0
        <5>1. length = rest \div O /\ rest \div O \in Int
          BY <1>1, <3>1, <4>1, Parts DEF Trunc
        <5>2. x + rest >= S * O
          BY <1>7, <1>8
        <5> HIDE DEF rest
        <5>3. (x \div O) + (rest \div O) >= S - 1
          BY <1>1, <1>8, <3>1, <5>2, TwoParts
        <5> HIDE DEF corner, length
        <5> QED
          BY <1>11, <5>1, <5>3
      <4>2. CASE rest < 0
        <5> DEFINE y == -rest
                   q == y \div O
        <5>1. y \in Int /\ y >= 0 /\ x = S * O + y
          BY <1>7, <1>8, <3>1, <4>2
        <5>2. length = -q
          BY <3>1, <4>2 DEF Trunc
        <5> HIDE DEF y
        <5>3. q \in Int /\ q * O <= y
          BY <1>1, <5>1, Parts
        <5> HIDE DEF q
        <5>4. (S + q) * O = S * O + q * O /\ q * O \in Int /\ S + q \in Int
          BY <1>1, <5>3
        <5>5. x >= (S + q) * O
          BY <1>7, <1>8, <5>1, <5>3, <5>4
        <5>6. x \div O >= S + q
          BY <1>1, <1>8, <5>4, <5>5, PartsBetween
        <5> HIDE DEF corner, length
        <5> QED
          BY <1>1, <1>11, <5>2, <5>3, <5>6
      <4> QED
        BY <3>1, <4>1, <4>2
    <3>3. a >= 0 /\ b <= S => S <= b + k
      <4> SUFFICES ASSUME a >= 0, b <= S, b + k < S
                   PROVE  FALSE
        BY <1>1
      <4>1. (b + k) * O < S * O
        BY <1>1, GrowingStrictly
      <4> QED
        BY <1>7, <1>8, <1>10, <2>2, <4>1
    <3>4. corner \in Int
      BY <1>11
    <3> HIDE DEF corner, length
    <3> QED
      BY <1>1, <1>6, <3>2, <3>3, <3>4
  <2> QED
    BY <2>1, <2>2
<1> HIDE DEF corner, length
<1>13. crop[1] = corner /\ crop[2] = Least(S, corner + length)
  BY <1>4, <1>11 DEF Most
<1>14. seen = Least(S, b)
  BY DEF seen
<1> HIDE DEF crop
<1>15. crop[1] <= Most(0, a) + Slack /\ 0 <= crop[1] /\ (a >= 0 => crop[1] >= a - Slack)
  BY <1>1, <1>11, <1>13 DEF Most
<1>16. crop[2] <= S /\ crop[2] >= seen - Slack /\ (a >= 0 => crop[2] <= b + Slack)
  BY <1>1, <1>6, <1>11, <1>12, <1>13 DEF Least
<1> QED
  BY <1>3, <1>14, <1>15, <1>16 DEF crop, S

-----------------------------------------------------------------------------

\* The layout is known by its number of features.
LEMMA LayoutIsRead ==
    ASSUME NEW n \in Predictions, NEW feat \in Expected..(Expected + 1), n > Expected + 1
    PROVE  /\ Layout(feat, n) = [feat |-> feat, preds |-> n, transposed |-> FALSE]
           /\ Layout(n, feat) = [feat |-> feat, preds |-> n, transposed |-> TRUE]
<1>1. Expected \in Int /\ n \in Int /\ feat \in Int /\ feat >= Expected /\ feat <= Expected + 1
  BY GeometryAssumption DEF Expected
<1>2. LooksLikeFeatures(feat) /\ ~LooksLikeFeatures(n)
  BY <1>1 DEF LooksLikeFeatures
<1> QED
  BY <1>2 DEF Layout

IsCropOf(a, b) ==
    LET parsed == parseOutput1D(Seen(a), Seen(b)) IN box = Crop(parsed[1], parsed[2])

GeometryInv ==
    /\ size \in Sizes
    /\ stage = "predicted" =>
         \E a, b \in Int : a < b /\ object = <<a, b>> /\ box = <<Seen(a), Seen(b)>>
    /\ stage = "parsed" =>
         \E a, b \in Int : a < b /\ object = <<a, b>> /\ box = parseOutput1D(Seen(a), Seen(b))
    /\ stage = "cropped" =>
         \/ object = <<0, 0>>
         \/ \E a, b \in Int : a < b /\ object = <<a, b>> /\ IsCropOf(a, b)
    /\ stage \in {"frame", "predicted", "parsed", "cropped"}

(* The crop taken for an object lies in the frame and holds its visible part *)
(* up to the rounding, and the output's layout is read right: for any frame  *)
(* sizes, input size and number of classes.                                  *)
THEOREM BoxesAlwaysComeBack == GeometrySpec => []BoxesComeBack
<1>1. GeometryInit => GeometryInv
  BY DEF GeometryInit, GeometryInv, Sizes
<1>2. GeometryInv /\ [GeometryNext]_geometry_vars => GeometryInv'
  <2> SUFFICES ASSUME GeometryInv, [GeometryNext]_geometry_vars
               PROVE  GeometryInv'
    OBVIOUS
  <2>1. CASE NextFrame
    BY <2>1, GeometryAssumption DEF NextFrame, GeometryInv, Sizes
  <2>2. CASE letterbox
    <3>1. PICK a \in Int, b \in Int : a < b /\ object' = <<a, b>> /\ box' = <<Seen(a), Seen(b)>>
      <4>1. Side \in Int /\ Overhang \in Int
        BY GeometryAssumption, SizesAreNumbers DEF GeometryInv
      <4> QED
        BY <2>2, <4>1 DEF letterbox, Seen
    <3>2. UNCHANGED size /\ stage' = "predicted"
      BY <2>2 DEF letterbox
    <3>3. Seen(a)' = Seen(a) /\ Seen(b)' = Seen(b)
      BY <3>2 DEF Seen, Side, PastedAt, PadTwice, NewSide, Large
    <3> QED
      BY <3>1, <3>2, <3>3 DEF GeometryInv
  <2>3. CASE parseOutput
    <3>1. PICK a \in Int, b \in Int : a < b /\ object = <<a, b>> /\ box = <<Seen(a), Seen(b)>>
      BY <2>3 DEF parseOutput, GeometryInv
    <3>2. UNCHANGED <<size, object>> /\ stage' = "parsed"
          /\ box' = parseOutput1D(Seen(a), Seen(b))
      BY <2>3, <3>1 DEF parseOutput
    <3>3. parseOutput1D(Seen(a), Seen(b))' = parseOutput1D(Seen(a), Seen(b))
      BY <3>2 DEF parseOutput1D, Unmap, Over, Seen, Side, PastedAt, PadTwice, NewSide, Large
    <3> QED
      BY <3>1, <3>2, <3>3 DEF GeometryInv
  <2>4. CASE segmentHsv
    <3>1. PICK a \in Int, b \in Int :
             a < b /\ object = <<a, b>> /\ box = parseOutput1D(Seen(a), Seen(b))
      BY <2>4 DEF segmentHsv, GeometryInv
    <3>2. UNCHANGED <<size, object>> /\ stage' = "cropped" /\ IsCropOf(a, b)'
      <4>1. UNCHANGED <<size, object>> /\ stage' = "cropped" /\ box' = Crop(box[1], box[2])
        BY <2>4 DEF segmentHsv
      <4>2. Side' = Side /\ Large' = Large
        BY <4>1 DEF Side, Large
      <4>3. Over' = Over /\ NewSide' = NewSide /\ PadTwice' = PadTwice /\ PastedAt' = PastedAt
        BY <4>2 DEF Over, NewSide, PadTwice, PastedAt
      <4>4. Seen(a)' = Seen(a) /\ Seen(b)' = Seen(b)
        BY <4>2, <4>3 DEF Seen
      <4>5. parseOutput1D(Seen(a), Seen(b))' = parseOutput1D(Seen(a), Seen(b))
        BY <4>2, <4>3, <4>4 DEF parseOutput1D, Unmap
      <4>6. IsCropOf(a, b)'
        BY <3>1, <4>1, <4>2, <4>5 DEF IsCropOf, Crop
      <4> QED
        BY <4>1, <4>6
    <3> QED
      BY <3>1, <3>2 DEF GeometryInv
  <2>5. CASE UNCHANGED geometry_vars
    <3>1. UNCHANGED <<stage, size, object, box>>
      BY <2>5 DEF geometry_vars
    <3>2. ASSUME NEW a \in Int, NEW b \in Int
          PROVE  /\ Seen(a)' = Seen(a) /\ Seen(b)' = Seen(b)
                 /\ parseOutput1D(Seen(a), Seen(b))' = parseOutput1D(Seen(a), Seen(b))
                 /\ IsCropOf(a, b)' = IsCropOf(a, b)
      <4>1. Side' = Side /\ Large' = Large
        BY <3>1 DEF Side, Large
      <4>2. Over' = Over /\ NewSide' = NewSide /\ PadTwice' = PadTwice /\ PastedAt' = PastedAt
        BY <4>1 DEF Over, NewSide, PadTwice, PastedAt
      <4>3. Seen(a)' = Seen(a) /\ Seen(b)' = Seen(b)
        BY <4>1, <4>2 DEF Seen
      <4>4. parseOutput1D(Seen(a), Seen(b))' = parseOutput1D(Seen(a), Seen(b))
        BY <4>1, <4>2, <4>3 DEF parseOutput1D, Unmap
      <4>5. IsCropOf(a, b)' = IsCropOf(a, b)
        BY <3>1, <4>1, <4>4 DEF IsCropOf, Crop
      <4> QED
        BY <4>3, <4>4, <4>5
    <3> QED
      BY <3>1, <3>2 DEF GeometryInv
  <2> QED
    BY <2>1, <2>2, <2>3, <2>4, <2>5 DEF GeometryNext
<1>3. GeometryInv => BoxesComeBack
  <2> SUFFICES ASSUME GeometryInv, stage = "cropped"
               PROVE  BoxesComeBack
    BY DEF BoxesComeBack
  <2>1. CASE object = <<0, 0>>
    BY <2>1, LayoutIsRead DEF BoxesComeBack
  <2>2. ASSUME NEW a \in Int, NEW b \in Int, a < b, object = <<a, b>>, IsCropOf(a, b)
        PROVE  BoxesComeBack
    <3>1. object[1] = a /\ object[2] = b
      BY <2>2
    <3>2. size \in Sizes
      BY DEF GeometryInv
    <3>3. a < Side /\ b > 0 =>
            /\ 0 <= box[1] /\ box[2] <= Side
            /\ box[1] <= Most(0, a) + Slack
            /\ box[2] >= Least(Side, b) - Slack
            /\ a >= 0 => box[1] >= a - Slack /\ box[2] <= b + Slack
      BY <2>2, <3>2, CropHoldsObject DEF IsCropOf
    <3> QED
      BY <3>1, <3>3, LayoutIsRead DEF BoxesComeBack
  <2> QED
    BY <2>1, <2>2 DEF GeometryInv
<1> QED
  BY <1>1, <1>2, <1>3, PTL DEF GeometrySpec


-----------------------------------------------------------------------------
(* The aim solver, for any measures, tables and constants.                   *)

LEMMA AimConstants ==
    /\ known_balloon_diameter \in Nat /\ known_balloon_diameter > 0
    /\ focal_length_px \in Nat /\ focal_length_px > 0
    /\ min_distance \in Nat /\ min_distance > 0 /\ max_distance \in Nat
    /\ min_distance <= max_distance
    /\ muzzle_velocity \in Nat /\ muzzle_velocity > 0 /\ fps \in Nat /\ InferenceDelay \in Nat
    /\ FrameWidth \in Nat /\ FrameWidth > 0
    /\ \A r \in Radii : r \in Nat /\ r > 0
    /\ \A h \in Heights : h \in Int
    /\ \A v \in Velocities : v \in Int
    /\ \A l \in LidarReadings : l \in Int
    /\ \A o \in LidarOffsets : o \in Int
    /\ \A d \in Distances : d \in Int
    /\ \A e \in TableEntries : e.distance \in Int /\ e.offset \in Int
    /\ NaN \notin Int
<1>1. UNION {Radii, Heights, Velocities, LidarReadings, LidarOffsets, Distances} \subseteq Int
  BY AimAssumption
<1>2. /\ \A r \in Radii : r \in Int
      /\ \A h \in Heights : h \in Int
      /\ \A v \in Velocities : v \in Int
      /\ \A l \in LidarReadings : l \in Int
      /\ \A o \in LidarOffsets : o \in Int
      /\ \A d \in Distances : d \in Int
  BY <1>1
<1> QED
  BY <1>2, AimAssumption

LEMMA Quotients ==
    /\ \A a, b \in Int : b > 0 => a \div b \in Int
    /\ \A a, b \in Int : b > 0 /\ a >= b => a \div b >= 1
    /\ \A a, b \in Int : b > 0 /\ a >= 0 => a \div b >= 0
  OBVIOUS

LEMMA Products ==
    ASSUME NEW a \in Nat, NEW b \in Nat, a >= 1
    PROVE  a * b \in Nat /\ a * b >= b
  OBVIOUS

LEMMA Clamped ==
    ASSUME NEW v \in Int, NEW lo \in Int, NEW hi \in Int, lo <= hi
    PROVE  Clamp(v, lo, hi) \in lo..hi
  BY DEF Clamp, Smaller

LEMMA RadiusGivesDistance ==
    ASSUME NEW r \in Nat, r > 0
    PROVE  /\ fromBalloonRadius(r).distance \in Nat /\ fromBalloonRadius(r).distance >= 1
           /\ fromBalloonRadius(r).confidence \in Nat /\ fromBalloonRadius(r).confidence >= 1
<1>1. (known_balloon_diameter * focal_length_px) \div (2 * r) \in Int
  <2>1. known_balloon_diameter * focal_length_px \in Int
    BY AimConstants
  <2> QED
    BY <2>1, Quotients
<1> DEFINE q == (known_balloon_diameter * focal_length_px) \div (2 * r)
<1>2. fromBalloonRadius(r) = [distance   |-> Clamp(q, min_distance, max_distance),
                              confidence |-> Smaller(100, 2 * r)]
  BY DEF fromBalloonRadius
<1> HIDE DEF q
<1>3. Clamp(q, min_distance, max_distance) \in min_distance..max_distance
  BY <1>1, Clamped, AimConstants DEF q
<1>4. Smaller(100, 2 * r) \in Nat /\ Smaller(100, 2 * r) >= 1
  BY DEF Smaller
<1> QED
  BY <1>2, <1>3, <1>4, AimConstants

LEMMA HeightGivesDistance ==
    ASSUME NEW h \in Int
    PROVE  /\ fromBboxHeight(h).distance \in Nat
           /\ fromBboxHeight(h).confidence \in Nat
           /\ fromBboxHeight(h).confidence > 0 => fromBboxHeight(h).distance >= 1
<1>1. CASE h <= 0
  BY <1>1 DEF fromBboxHeight
<1>2. CASE h > 0
  <2> DEFINE q == (RealHeight * focal_length_px) \div h
  <2>1. q \in Int
    BY <1>2, Quotients, AimConstants DEF RealHeight
  <2>2. fromBboxHeight(h) = [distance   |-> Clamp(q, min_distance, max_distance),
                             confidence |-> Smaller(100, h)]
    BY <1>2 DEF fromBboxHeight
  <2> HIDE DEF q
  <2>3. Clamp(q, min_distance, max_distance) \in min_distance..max_distance
    BY <2>1, Clamped, AimConstants
  <2>4. Smaller(100, h) \in Nat
    BY <1>2 DEF Smaller
  <2> QED
    BY <2>2, <2>3, <2>4, AimConstants
<1> QED
  BY <1>1, <1>2

LEMMA CombinedIsPositive ==
    ASSUME NEW r \in Nat, r > 0, NEW h \in Int
    PROVE  combined(r, h) \in Int /\ combined(r, h) >= 1
<1> DEFINE d1 == fromBalloonRadius(r).distance
           c1 == fromBalloonRadius(r).confidence
           d2 == fromBboxHeight(h).distance
           c2 == fromBboxHeight(h).confidence
<1>1. d1 \in Nat /\ d1 >= 1 /\ c1 \in Nat /\ c1 >= 1
  BY RadiusGivesDistance
<1>2. d2 \in Nat /\ c2 \in Nat /\ (c2 > 0 => d2 >= 1)
  BY HeightGivesDistance
<1>3. combined(r, h) = IF c1 > 0 /\ c2 > 0 THEN (d1 * c1 + d2 * c2) \div (c1 + c2)
                       ELSE IF c1 > 0 THEN d1 ELSE d2
  BY DEF combined
<1> HIDE DEF d1, c1, d2, c2
<1>4. CASE c2 > 0
  <2>1. d1 * c1 \in Nat /\ d1 * c1 >= c1
    BY <1>1, Products
  <2>2. d2 * c2 \in Nat /\ d2 * c2 >= c2
    BY <1>2, <1>4, Products
  <2>3. d1 * c1 + d2 * c2 \in Int /\ d1 * c1 + d2 * c2 >= c1 + c2 /\ c1 + c2 \in Int /\ c1 + c2 > 0
    BY <1>1, <1>2, <2>1, <2>2
  <2>4. (d1 * c1 + d2 * c2) \div (c1 + c2) \in Int /\ (d1 * c1 + d2 * c2) \div (c1 + c2) >= 1
    BY <2>3, Quotients
  <2>5. combined(r, h) = (d1 * c1 + d2 * c2) \div (c1 + c2)
    BY <1>1, <1>3, <1>4
  <2> QED
    BY <2>4, <2>5
<1>5. CASE c2 = 0
  BY <1>1, <1>3, <1>5
<1> QED
  BY <1>2, <1>4, <1>5

LEMMA AimIsInFrame ==
    ASSUME NEW center \in Int, NEW v \in Int, NEW r \in Nat, r > 0, NEW h \in Int,
           NEW range \in Int, NEW offset \in Int
    PROVE  LET aim == solve(center, v, r, h, range, offset)
           IN  aim.distance > 0 /\ aim.corrected \in 0..(FrameWidth - 1)
<1> DEFINE estimate == combined(r, h)
           distance == WithLidar(estimate, range, offset)
           lead     == LeadPx(v, distance)
           drop     == DropPx(distance)
<1>1. estimate \in Int /\ estimate >= 1
  BY CombinedIsPositive
<1>2. solve(center, v, r, h, range, offset) =
        [valid |-> TRUE, distance |-> distance,
         corrected |-> clampToFrame(IF lead = NaN THEN lead ELSE (center + lead) + drop)]
  BY DEF solve
<1> HIDE DEF estimate
<1>3. distance \in Int /\ distance > 0
  BY <1>1 DEF WithLidar, adjustLidarRangeToTurretCenter
<1> HIDE DEF distance
<1>4. FlightTime(distance) \in Int
  <2>1. 1000 * distance \in Int
    BY <1>3
  <2> QED
    BY <2>1, Quotients, AimConstants DEF FlightTime
<1>5. lead \in Int
  <2>1. lead = (v * fps * (FlightTime(distance) + InferenceDelay)) \div 1000
    BY <1>3 DEF LeadPx
  <2>2. v * fps * (FlightTime(distance) + InferenceDelay) \in Int
    BY <1>4, AimConstants
  <2> QED
    BY <2>1, <2>2, Quotients
<1>6. drop \in Int
  <2>1. drop = (2943 * FlightTime(distance) * FlightTime(distance)) \div (10000 * distance)
    BY <1>3 DEF DropPx
  <2>2. 2943 * FlightTime(distance) * FlightTime(distance) \in Int
    BY <1>4
  <2>3. 10000 * distance \in Int /\ 10000 * distance > 0
    BY <1>3
  <2> QED
    BY <2>1, <2>2, <2>3, Quotients
<1> HIDE DEF lead, drop
<1>7. lead # NaN /\ (center + lead) + drop # NaN /\ (center + lead) + drop \in Int
  BY <1>5, <1>6, AimConstants
<1>8. clampToFrame((center + lead) + drop) = Clamp((center + lead) + drop, 0, FrameWidth - 1)
  BY <1>7 DEF clampToFrame
<1>9. Clamp((center + lead) + drop, 0, FrameWidth - 1) \in 0..(FrameWidth - 1)
  <2>1. FrameWidth - 1 \in Int /\ 0 <= FrameWidth - 1
    BY AimConstants
  <2> QED
    BY <1>7, <2>1, Clamped
<1> QED
  BY <1>2, <1>3, <1>7, <1>8, <1>9

-----------------------------------------------------------------------------
(* The table.                                                                *)

IsTable(t) == t \in Seq(TableEntries)

\* A point between two offsets.
LEMMA Interpolation ==
    ASSUME NEW lo \in Int, NEW hi \in Int, NEW part \in Int, NEW width \in Int,
           0 <= part, part <= width, width > 0
    PROVE  LET q == (part * (hi - lo)) \div width
           IN  /\ lo + q \in Int
               /\ (lo <= lo + q /\ lo + q <= hi) \/ (hi <= lo + q /\ lo + q <= lo)
<1> DEFINE rise == hi - lo
<1>1. rise \in Int
  OBVIOUS
<1>2. \A r \in Int : r >= 0 => 0 <= part * r /\ part * r <= width * r
  OBVIOUS
<1>3. \A r \in Int : r <= 0 => part * r <= 0 /\ part * r >= width * r
  OBVIOUS
<1>4. \A a, r \in Int : a <= width * r /\ a >= 0 => a \div width \in 0..r
  OBVIOUS
<1>5. \A a, r \in Int : a >= width * r /\ a <= 0 => a \div width \in Int /\ r <= a \div width /\ a \div width <= 0
  OBVIOUS
<1>6. part * rise \in Int
  BY <1>1
<1>7. CASE rise >= 0
  <2>1. (part * rise) \div width \in 0..rise
    BY <1>1, <1>2, <1>4, <1>6, <1>7
  <2> QED
    BY <2>1
<1>8. CASE rise <= 0
  <2>1. (part * rise) \div width \in Int /\ rise <= (part * rise) \div width
        /\ (part * rise) \div width <= 0
    BY <1>1, <1>3, <1>5, <1>6, <1>8
  <2> QED
    BY <2>1
<1> QED
  BY <1>1, <1>7, <1>8

LEMMA FirstOne ==
    ASSUME NEW n \in Nat, NEW S \in SUBSET (2..n), S # {}
    PROVE  \E k \in S : \A j \in 2..(k - 1) : j \notin S
<1>1. S \subseteq Nat
  OBVIOUS
<1>2. PICK k \in S : \A j \in S : <<j, k>> \notin OpToRel(<, Nat)
  BY <1>1, NatLessThanWellFounded, WFMin
<1>3. \A j \in S : ~(j < k)
  BY <1>1, <1>2 DEF OpToRel
<1> QED
  BY <1>1, <1>3

LEMMA BetweenIsBetween ==
    ASSUME NEW t, IsTable(t), t # <<>>, NEW d \in Int,
           d > t[1].distance, d < t[Len(t)].distance
    PROVE  \E i \in 2..Len(t) :
              /\ Between(t, d) \in Int
              /\ \/ t[i - 1].offset <= Between(t, d) /\ Between(t, d) <= t[i].offset
                 \/ t[i].offset <= Between(t, d) /\ Between(t, d) <= t[i - 1].offset
<1>1. /\ Len(t) \in Nat /\ Len(t) >= 1
      /\ \A i \in 1..Len(t) : t[i].distance \in Int /\ t[i].offset \in Int
  <2>1. \A i \in 1..Len(t) : t[i] \in TableEntries
    BY DEF IsTable
  <2>2. Len(t) \in Nat /\ Len(t) >= 1
    BY DEF IsTable
  <2> QED
    BY <2>1, <2>2, AimConstants
<1> DEFINE First(k) == d <= t[k].distance /\ \A j \in 2..(k - 1) : d > t[j].distance
           i == CHOOSE k \in 2..Len(t) : First(k)
<1>2. i \in 2..Len(t) /\ First(i)
  <2> DEFINE S == {k \in 2..Len(t) : d <= t[k].distance}
  <2>1. Len(t) \in S
    BY <1>1
  <2>2. PICK k \in S : \A j \in 2..(k - 1) : j \notin S
    <3>1. S \in SUBSET (2..Len(t)) /\ S # {}
      BY <2>1
    <3> HIDE DEF S
    <3> QED
      BY <1>1, <3>1, FirstOne
  <2>3. k \in 2..Len(t) /\ First(k)
    BY <1>1, <2>2
  <2> HIDE DEF First
  <2> QED
    BY <2>3
<1> DEFINE width == t[i].distance - t[i - 1].distance
           rise == t[i].offset - t[i - 1].offset
           part == d - t[i - 1].distance
<1>3. Between(t, d) = IF width = 0 THEN NaN ELSE t[i - 1].offset + ((part * rise) \div width)
  BY DEF Between
<1>4. d <= t[i].distance /\ \A j \in 2..(i - 1) : d > t[j].distance
  BY <1>2
<1> HIDE DEF i, First
<1>5. t[i - 1].distance < d
  BY <1>1, <1>2, <1>4
<1>6. /\ t[i].distance \in Int /\ t[i - 1].distance \in Int
      /\ t[i].offset \in Int /\ t[i - 1].offset \in Int
  BY <1>1, <1>2
<1>7. width \in Int /\ part \in Int /\ 0 <= part /\ part <= width /\ width > 0
  <2>1. d <= t[i].distance
    BY <1>4
  <2>2. \A a, b \in Int : a < d /\ d <= b =>
           b - a \in Int /\ d - a \in Int /\ 0 <= d - a /\ d - a <= b - a /\ b - a > 0
    OBVIOUS
  <2> QED
    BY <2>1, <2>2, <1>5, <1>6, Zenon
<1>8. Between(t, d) = t[i - 1].offset + ((part * rise) \div width)
  BY <1>3, <1>7
<1> HIDE DEF width, part
<1> DEFINE q == (part * rise) \div width
<1>9. /\ t[i - 1].offset + q \in Int
      /\ \/ t[i - 1].offset <= t[i - 1].offset + q /\ t[i - 1].offset + q <= t[i].offset
         \/ t[i].offset <= t[i - 1].offset + q /\ t[i - 1].offset + q <= t[i - 1].offset
  BY <1>6, <1>7, Interpolation
<1> QED
  BY <1>2, <1>8, <1>9

LEMMA TableGivesOffset ==
    ASSUME NEW t, IsTable(t), NEW d \in Int
    PROVE  LET offset == interpolateFromTable(t, d)
               offsets == IF t = <<>> THEN {0} ELSE {t[i].offset : i \in DOMAIN t}
           IN  offset # NaN /\ \E low, high \in offsets : low <= offset /\ offset <= high
<1> DEFINE offset == interpolateFromTable(t, d)
           offsets == IF t = <<>> THEN {0} ELSE {t[i].offset : i \in DOMAIN t}
<1> SUFFICES offset \in Int /\ \E low, high \in offsets : low <= offset /\ offset <= high
  BY AimConstants
<1>1. CASE t = <<>>
  BY <1>1 DEF interpolateFromTable
<1>2. CASE t # <<>>
  <2>1. /\ Len(t) \in Nat /\ Len(t) >= 1 /\ DOMAIN t = 1..Len(t)
        /\ \A i \in 1..Len(t) : t[i].distance \in Int /\ t[i].offset \in Int
    <3>1. \A i \in 1..Len(t) : t[i] \in TableEntries
      BY DEF IsTable
    <3>2. Len(t) \in Nat /\ Len(t) >= 1 /\ DOMAIN t = 1..Len(t)
      BY <1>2 DEF IsTable
    <3> QED
      BY <3>1, <3>2, AimConstants
  <2>2. offsets = {t[i].offset : i \in 1..Len(t)}
    BY <1>2, <2>1
  <2>3. \A i \in 1..Len(t) : t[i].offset \in offsets
    BY <2>2
  <2> HIDE DEF offsets
  <2>4. CASE offset \in {t[1].offset, t[Len(t)].offset}
    BY <2>1, <2>3, <2>4
  <2>5. CASE offset \notin {t[1].offset, t[Len(t)].offset}
    <3>1. d > t[1].distance /\ d < t[Len(t)].distance /\ offset = Between(t, d)
      BY <1>2, <2>1, <2>5 DEF interpolateFromTable, FirstCovers
    <3>2. PICK i \in 2..Len(t) :
              /\ Between(t, d) \in Int
              /\ \/ t[i - 1].offset <= Between(t, d) /\ Between(t, d) <= t[i].offset
                 \/ t[i].offset <= Between(t, d) /\ Between(t, d) <= t[i - 1].offset
      BY <1>2, <3>1, BetweenIsBetween
    <3>3. t[i].offset \in offsets /\ t[i - 1].offset \in offsets
      BY <2>1, <2>3
    <3> HIDE DEF offset
    <3> QED
      BY <3>1, <3>2, <3>3
  <2> QED
    BY <2>4, <2>5
<1> QED
  BY <1>1, <1>2

AimInv == IsTable(lookup_table) /\ AimIsANumber

(* The aim is a point of the frame at a distance that is not zero, and the   *)
(* correction is one between two of the table's, for any measures the        *)
(* sensors report and any table: no division by zero on any path.            *)
THEOREM AimIsAlwaysANumber == AimSpec => []AimIsANumber
<1>1. AimInit => AimInv
  BY DEF AimInit, AimInv, IsTable, AimIsANumber, NoResult
<1>2. AimInv /\ [AimNext]_aim_vars => AimInv'
  <2> SUFFICES ASSUME AimInv, [AimNext]_aim_vars
               PROVE  AimInv'
    OBVIOUS
  <2>1. CASE solveAim
    <3>1. PICK center \in {0, FrameWidth \div 2, FrameWidth - 1}, v \in Velocities, r \in Radii,
               h \in Heights, range \in LidarReadings, o \in LidarOffsets :
            result' = [call |-> "solve", aim |-> solve(center, v, r, h, range, o)]
      BY <2>1 DEF solveAim
    <3>2. center \in Int /\ v \in Int /\ r \in Nat /\ r > 0 /\ h \in Int /\ range \in Int /\ o \in Int
      BY AimConstants
    <3> DEFINE aim == solve(center, v, r, h, range, o)
    <3>3. aim.distance > 0 /\ aim.corrected \in 0..(FrameWidth - 1)
      BY <3>2, AimIsInFrame
    <3> HIDE DEF aim
    <3>4. result'.call = "solve" /\ result'.aim = aim
      BY <3>1 DEF aim
    <3> QED
      BY <2>1, <3>3, <3>4 DEF solveAim, AimInv, IsTable, AimIsANumber
  <2>2. CASE Correct
    <3>1. PICK d \in Distances :
            result' = [call |-> "table", offset |-> interpolateFromTable(lookup_table, d)]
      BY <2>2 DEF Correct
    <3>2. UNCHANGED lookup_table /\ IsTable(lookup_table) /\ d \in Int
      BY <2>2, AimConstants DEF Correct, AimInv
    <3> DEFINE offset == interpolateFromTable(lookup_table, d)
               offsets == IF lookup_table = <<>> THEN {0}
                          ELSE {lookup_table[i].offset : i \in DOMAIN lookup_table}
    <3>3. offset # NaN /\ \E low, high \in offsets : low <= offset /\ offset <= high
      BY <3>2, TableGivesOffset
    <3>4. result'.call = "table" /\ result'.offset = offset
      BY <3>1
    <3>5. offsets' = offsets
      BY <3>2
    <3> HIDE DEF offset
    <3> QED
      BY <3>2, <3>3, <3>4, <3>5 DEF AimInv, IsTable, AimIsANumber
  <2>3. CASE addTableEntry
    <3>0. PICK e \in TableEntries :
            \E place \in Bijection(DOMAIN Append(lookup_table, e), DOMAIN Append(lookup_table, e)) :
               lookup_table' = [i \in DOMAIN Append(lookup_table, e) |->
                                  Append(lookup_table, e)[place[i]]]
      BY <2>3 DEF addTableEntry
    <3> DEFINE all == Append(lookup_table, e)
    <3>1. PICK place \in Bijection(DOMAIN all, DOMAIN all) :
            lookup_table' = [i \in DOMAIN all |-> all[place[i]]]
      BY <3>0
    <3>2. all \in Seq(TableEntries)
      BY DEF AimInv, IsTable
    <3>3. place \in [DOMAIN all -> DOMAIN all]
      BY <3>1 DEF Bijection, Injection
    <3> HIDE DEF all
    <3>4. lookup_table' = [i \in 1..Len(all) |-> all[place[i]]] /\ Len(all) \in Nat
          /\ \A i \in 1..Len(all) : all[place[i]] \in TableEntries
      BY <3>1, <3>2, <3>3 DEF all
    <3>5. IsTable(lookup_table')
      BY <3>4 DEF IsTable
    <3> QED
      BY <2>3, <3>5 DEF addTableEntry, AimInv, IsTable, AimIsANumber, NoResult
  <2>4. CASE Used \/ UNCHANGED aim_vars
    BY <2>4 DEF Used, aim_vars, AimInv, IsTable, AimIsANumber, NoResult
  <2> QED
    BY <2>1, <2>2, <2>3, <2>4 DEF AimNext
<1>3. AimInv => AimIsANumber
  BY DEF AimInv
<1> QED
  BY <1>1, <1>2, <1>3, PTL DEF AimSpec
=============================================================================
