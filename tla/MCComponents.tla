----------------------------- MODULE MCComponents -----------------------------
(* Small instances of every part. *)
EXTENDS Components, MCConfigManager

\* Rule engine: three classes, one of them without a configured rule (an ORDER
\* adds it), ranges that exclude one distance for F16, as raspi/config does, and
\* a class no rule can name.
Rule(lo, hi, prio) == [min |-> lo, max |-> hi, priority |-> prio]
ConfigRulesDef == ("Drone" :> Rule(0, 2, 1)) @@ ("F16" :> Rule(1, 2, 1))
TargetsDef == [cls : {"Drone", "F16"}, aff : {"Friend", "Foe"}, is_lost : {FALSE},
               distance : {0, 2}]
              \union
              [cls : {"Missile", "Unknown"}, aff : {"Foe"}, is_lost : {FALSE}, distance : {0}]
              \union
              [cls : {"F16"}, aff : {"Unknown"}, is_lost : BOOLEAN, distance : {2, 3}]
EverywhereDef == [pan_min |-> -1, pan_max |-> 1, tilt_min |-> 0, tilt_max |-> 0]
OrderRequestsDef ==
    {s \in [1..3 -> {"Drone", "F16", "Missile"}] : IsInjective(s) \/ s[1] = s[3]}
      \union {<<"Missile">>, <<"unknown", "F16">>, <<"unknown", "Missile", "F16", "Drone">>}

\* Turret driver.
CONSTANTS origin, left
PosesDef == {origin, left}

\* Tracker: objects that overlap, that are only near, and that do neither.
At(x, w) == [x |-> x, y |-> 0, w |-> w, h |-> 10]
Det(x, w, c, a) == [bbox |-> At(x, w), cls |-> c, affiliation |-> a]
ScenesDef ==
    {<<Det(0, 10, "kDrone", a)>> : a \in Affiliations}
      \union {<<Det(0, 10, "kDrone", "Foe"), Det(x, w, "kFriendly", "Friend")>> :
                 x \in {4, 9}, w \in {10, 22}}
      \union {<<Det(24, 10, "kFriendly", "Friend")>>}

\* Detector geometry: frames wider and narrower than high, larger and smaller
\* than the model's input, with sides that do not divide.
FrameSizesDef == {<<12, 9>>, <<9, 12>>, <<7, 10>>, <<10, 7>>, <<5, 4>>, <<4, 5>>,
                  <<6, 20>>, <<20, 6>>, <<6, 6>>}

\* Aim solver.
TableEntriesDef == {[distance |-> 2, offset |-> 9], [distance |-> 2, offset |-> -4],
                    [distance |-> 9, offset |-> 7]}
VelocitiesDef == {-20, 0, 20}
LidarReadingsDef == {NoEcho, 0, 5, 1000}
LidarOffsetsDef == {-5, 0, 5}
=============================================================================
