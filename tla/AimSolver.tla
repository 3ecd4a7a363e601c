------------------------------ MODULE AimSolver ------------------------------
(***************************************************************************)
(* From a balloon to the point to aim at: distance by pinhole camera or    *)
(* lidar, lead and drop over the flight time, and the correction table     *)
(* BallisticsManager keeps.  Lengths are centimetres, speeds centimetres   *)
(* per second or pixels per frame, confidences hundredths; quotients are   *)
(* rounded down.                                                           *)
(***************************************************************************)
EXTENDS Integers, Sequences, Functions

CONSTANTS
    known_balloon_diameter, focal_length_px, min_distance, max_distance,
    min_radius_px,              \* of the segmentor: no balloon is smaller
    muzzle_velocity, fps, InferenceDelay,   \* the delay in milliseconds
    FrameWidth,
    Radii, Heights, Velocities, LidarReadings, LidarOffsets,    \* what is measured
    TableEntries,               \* entries a correction table may have
    Distances,                  \* distances looked up in it
    MaxTable,                   \* bound on its length
    NaN                         \* what a float division by zero gives

ASSUME AimAssumption ==
    /\ known_balloon_diameter \in Nat \ {0} /\ focal_length_px \in Nat \ {0}
    /\ min_distance \in Nat \ {0} /\ max_distance \in Nat /\ min_distance <= max_distance
    /\ min_radius_px \in Nat \ {0} /\ \A r \in Radii : r >= min_radius_px
    /\ muzzle_velocity \in Nat \ {0} /\ fps \in Nat /\ InferenceDelay \in Nat
    /\ FrameWidth \in Nat \ {0} /\ MaxTable \in Nat
    /\ UNION {Radii, Heights, Velocities, LidarReadings, LidarOffsets, Distances} \subseteq Int
    /\ \A e \in TableEntries : e.distance \in Int /\ e.offset \in Int
    /\ NaN \notin Int

VARIABLES
    lookup_table,   \* [distance, offset] by distance
    result          \* of the last call: an aim or an interpolated offset

aim_vars == <<lookup_table, result>>

NoEcho == -1

Smaller(a, b) == IF a < b THEN a ELSE b
Clamp(v, lo, hi) == IF v < lo THEN lo ELSE Smaller(v, hi)

-----------------------------------------------------------------------------
\* Pinhole estimates: [distance, confidence], both 0 when nothing is measured.
fromBalloonRadius(radius) ==
    IF radius <= 0 THEN [distance |-> 0, confidence |-> 0]
    ELSE [distance   |-> Clamp((known_balloon_diameter * focal_length_px) \div (2 * radius),
                               min_distance, max_distance),
          confidence |-> Smaller(100, 2 * radius)]

RealHeight == 25
fromBboxHeight(height) ==
    IF height <= 0 THEN [distance |-> 0, confidence |-> 0]
    ELSE [distance   |-> Clamp((RealHeight * focal_length_px) \div height,
                               min_distance, max_distance),
          confidence |-> Smaller(100, height)]

combined(radius, height) ==
    LET e1 == fromBalloonRadius(radius)
        e2 == fromBboxHeight(height)
    IN  IF e1.confidence > 0 /\ e2.confidence > 0
        THEN (e1.distance * e1.confidence + e2.distance * e2.confidence)
               \div (e1.confidence + e2.confidence)
        ELSE IF e1.confidence > 0 THEN e1.distance ELSE e2.distance

\* The lidar sits LidarOffset before or behind the turret's centre, on its axis.
adjustLidarRangeToTurretCenter(range, offset) ==
    IF range <= 0 THEN 0
    ELSE IF range + offset >= 0 THEN range + offset ELSE -(range + offset)

\* A lidar without an echo (nothing, or 0) leaves the camera's estimate.
WithLidarUnchecked(estimate, range, offset) ==
    IF range = NoEcho THEN estimate ELSE adjustLidarRangeToTurretCenter(range, offset)
WithLidar(estimate, range, offset) ==
    IF range # NoEcho /\ range > 0 /\ adjustLidarRangeToTurretCenter(range, offset) > 0
    THEN adjustLidarRangeToTurretCenter(range, offset)
    ELSE estimate

clampToFrame(x) == IF x = NaN THEN x ELSE Clamp(x, 0, FrameWidth - 1)

\* The lead goes from pixels to metres and back: by px_to_m = distance/600, which
\* cancels unless it is 0.  Milliseconds of flight and processing.
FlightTime(distance) == (1000 * distance) \div muzzle_velocity
LeadPx(velocity, distance) ==
    IF distance = 0 THEN NaN
    ELSE (velocity * fps * (FlightTime(distance) + InferenceDelay)) \div 1000
\* 0.5 * 981 * 600 = 294300 for seconds, over 10^6 for milliseconds.
DropPx(distance) ==
    IF distance = 0 THEN 0
    ELSE (2943 * FlightTime(distance) * FlightTime(distance)) \div (10000 * distance)

\* The horizontal axis carries the lead, the vertical one the drop as well.
solve(center, velocity, radius, height, range, offset) ==
    LET distance == WithLidar(combined(radius, height), range, offset)
        lead     == LeadPx(velocity, distance)
    IN  [valid     |-> TRUE,
         distance  |-> distance,
         corrected |-> clampToFrame(IF lead = NaN THEN lead
                                    ELSE center + lead + DropPx(distance))]

-----------------------------------------------------------------------------
Sorted(table) == \A i \in 1..(Len(table) - 1) : table[i].distance <= table[i + 1].distance

Between(table, distance) ==
    LET i == CHOOSE k \in 2..Len(table) :
               /\ distance <= table[k].distance
               /\ \A j \in 2..(k - 1) : distance > table[j].distance
        width == table[i].distance - table[i - 1].distance
        rise  == table[i].offset - table[i - 1].offset
    IN  IF width = 0 THEN NaN
        ELSE table[i - 1].offset + ((distance - table[i - 1].distance) * rise) \div width

\* An entry at the distance itself, looked for from the second one on.
FirstCoversBelow(table, distance) == distance < table[1].distance
FirstCovers(table, distance) == distance <= table[1].distance

interpolateFromTable(table, distance) ==
    IF table = <<>> THEN 0
    ELSE IF FirstCovers(table, distance) THEN table[1].offset
    ELSE IF distance >= table[Len(table)].distance THEN table[Len(table)].offset
    ELSE Between(table, distance)

-----------------------------------------------------------------------------
NoResult == [call |-> "none"]

AimInit == result = NoResult /\ lookup_table = <<>>

solveAim ==
    /\ result = NoResult
    /\ \E center \in {0, FrameWidth \div 2, FrameWidth - 1}, v \in Velocities, r \in Radii,
          h \in Heights, range \in LidarReadings, offset \in LidarOffsets :
          result' = [call |-> "solve", aim |-> solve(center, v, r, h, range, offset)]
    /\ UNCHANGED lookup_table

\* calculate() and applyCorrection() look a distance up.
Correct ==
    /\ result = NoResult
    /\ \E d \in Distances :
          result' = [call |-> "table", offset |-> interpolateFromTable(lookup_table, d)]
    /\ UNCHANGED lookup_table

\* push_back and sort, by distance; equal distances end up in any order.
addTableEntry ==
    /\ result = NoResult /\ UNCHANGED result
    /\ Len(lookup_table) < MaxTable
    /\ \E e \in TableEntries :
          LET all == Append(lookup_table, e)
          IN  \E place \in Bijection(DOMAIN all, DOMAIN all) :
                 lookup_table' = [i \in DOMAIN all |-> all[place[i]]] /\ Sorted(lookup_table')

\* The caller has used the answer.
Used == result # NoResult /\ result' = NoResult /\ UNCHANGED lookup_table

AimNext == solveAim \/ Correct \/ addTableEntry \/ Used

AimSpec == AimInit /\ [][AimNext]_aim_vars

-----------------------------------------------------------------------------
(***************************************************************************)
(* A valid aim is a point of the frame at a distance that is not zero,     *)
(* whatever the lidar reports; and the correction for a distance, be it    *)
(* before, at, between or behind the entries, of which two may share a     *)
(* distance, lies within the table's offsets.  No division by zero.        *)
(***************************************************************************)
AimIsANumber ==
    /\ result.call = "solve" =>
         result.aim.distance > 0 /\ result.aim.corrected \in 0..(FrameWidth - 1)
    /\ result.call = "table" =>
         LET offsets == IF lookup_table = <<>> THEN {0}
                        ELSE {lookup_table[i].offset : i \in DOMAIN lookup_table}
         IN  /\ result.offset # NaN
             /\ \E low, high \in offsets : low <= result.offset /\ result.offset <= high
=============================================================================
