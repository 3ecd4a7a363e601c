-------------------------- MODULE MCCombatCooldown --------------------------
(* CombatPipeline with a history variable: for how long the fire order has   *)
(* been down, which no part of the program records across a reset.           *)
EXTENDS MCCombatPipeline

VARIABLE quiet

\* At the start nothing was fired: the wait counts as over.
CooldownInit == CombatInit /\ quiet = cooldown

CooldownNext ==
    \/ /\ Tick
       /\ quiet' = IF lastFire THEN 0 ELSE IF quiet < cooldown THEN quiet + 1 ELSE quiet
    \/ /\ handleNetworkCommand \/ ToggleAutonomous \/ processFrame \/ CameraChanges
       /\ quiet' = IF lastFire' \/ lastFire THEN 0 ELSE quiet

CooldownSpec == CooldownInit /\ [][CooldownNext]_<<combat_vars, quiet>>

(***************************************************************************)
(* What raspi/include/sancak/trigger_controller.hpp says of cooldown_ms,   *)
(* the waiting time between two shots: fire is not ordered again until the *)
(* fire order has been down for the cooldown.                              *)
(***************************************************************************)
WaitsBetweenShots ==
    [][~lastFire /\ lastFire' => quiet >= cooldown]_<<combat_vars, quiet>>
=============================================================================
