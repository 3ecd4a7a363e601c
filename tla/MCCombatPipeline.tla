--------------------------- MODULE MCCombatPipeline ---------------------------
(* Small instances of CombatPipeline.  The durations keep the order of the   *)
(* configured ones (lock 150, burst 500, cooldown 1000 ms, watchdog 500 ms). *)
EXTENDS CombatPipeline

Rule(lo, hi, prio) == [min |-> lo, max |-> hi, priority |-> prio]
DroneRules == ("Drone" :> Rule(0, 2, 0))
TwoRules   == ("Drone" :> Rule(0, 2, 1)) @@ ("F16" :> Rule(1, 2, 0))

Look(c, a) == [cls |-> c, aff |-> a]
SomeLooks  == {Look("Drone", "Foe"), Look("Drone", "Friend"), Look("Drone", "Unknown")}
TwoLooks   == {Look("Drone", "Foe"), Look("F16", "Foe"), Look("F16", "Unknown")}

Aim(pan, tilt, on, dist) == [pan |-> pan, tilt |-> tilt, within |-> on, distance |-> dist]
OnTarget   == Aim(0, 0, TRUE, 1)
SomeAims   == {OnTarget, Aim(1, 0, FALSE, 1)}
AllAims    == {OnTarget, Aim(1, 0, TRUE, 1), Aim(-1, 1, FALSE, 1), Aim(0, 0, TRUE, 3)}
TwoAims    == {OnTarget, Aim(0, 0, FALSE, 2)}

Fence(a, b, c, d) == [pan_min |-> a, pan_max |-> b, tilt_min |-> c, tilt_max |-> d]
OneFence   == {Fence(0, 1, 0, 0)}
Narrow     == {Fence(0, 0, 0, 0)}
\* The whole area, its right half given the wrong way round, and one without
\* the start pose.
SomeFences == {Fence(-1, 1, 0, 1), Fence(1, 0, 0, 1), Fence(1, 1, 1, 1)}

Left    == {[pan |-> -1, tilt |-> 0]}
FourWays == {[pan |-> -1, tilt |-> 0], [pan |-> 1, tilt |-> 0],
             [pan |-> 0, tilt |-> -1], [pan |-> 0, tilt |-> 1]}

SwapOrders == {<<"Drone", "F16">>, <<"F16", "Drone">>}
=============================================================================
