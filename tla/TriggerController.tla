-------------------------- MODULE TriggerController --------------------------
(***************************************************************************)
(* The trigger discipline of raspi/src/sancak/trigger_controller.cpp: a    *)
(* target must stay within the aim tolerance for lock_duration, the fire   *)
(* line is then held for burst_duration and kept down for cooldown.        *)
(*                                                                         *)
(* steady_clock readings are modelled by ages: lock_age and state_age are  *)
(* the time since lock_start_time_ and state_start_.  Every comparison of  *)
(* the code is "age >= duration", so an age may saturate at AgeMax, which  *)
(* bounds the state without bounding the behaviour.                        *)
(***************************************************************************)
EXTENDS Integers

CONSTANTS lock_duration_ms, burst_duration_ms, cooldown_ms, \* as configured
          AgeMax                                            \* where ages saturate

NonNegative(d) == IF d < 0 THEN 0 ELSE d

\* initialize() clamps the configured values.
lock_duration  == NonNegative(lock_duration_ms)
burst_duration == NonNegative(burst_duration_ms)
cooldown       == NonNegative(cooldown_ms)

ASSUME DurationAssumption ==
    /\ lock_duration_ms \in Int /\ burst_duration_ms \in Int /\ cooldown_ms \in Int
    /\ AgeMax \in Nat
    /\ AgeMax >= lock_duration /\ AgeMax >= burst_duration /\ AgeMax >= cooldown

VARIABLES
    trg_state,  \* state_
    lock_age,   \* now - lock_start_time_, Unset for time_point{}
    state_age,  \* now - state_start_, Unset for time_point{}
    fire_flag   \* what the last update returned; FALSE after a reset

trg_vars == <<trg_state, lock_age, state_age, fire_flag>>

Unset == -1
Ages  == {Unset} \union 0..AgeMax

Older(age) == IF age = Unset \/ age = AgeMax THEN age ELSE age + 1

TriggerTypeOK ==
    /\ trg_state \in {"SEARCHING", "LOCKING", "FIRING", "COOLDOWN"}
    /\ lock_age \in Ages /\ state_age \in Ages
    /\ fire_flag \in BOOLEAN

-----------------------------------------------------------------------------
TriggerInit ==
    /\ trg_state = "SEARCHING"
    /\ lock_age = Unset /\ state_age = Unset
    /\ fire_flag = FALSE

reset ==
    /\ trg_state' = "SEARCHING"
    /\ lock_age' = Unset /\ state_age' = Unset
    /\ fire_flag' = FALSE

\* The lock timer after the head of update(): stopped off target, started on it.
LockTimer(within) == CASE ~within                     -> Unset
                       [] within /\ lock_age = Unset  -> 0
                       [] OTHER                       -> lock_age

Steady(within) == within /\ LockTimer(within) >= lock_duration

\* Faulty variant: an on-target frame restarts the burst timer.
KeepFiringRestarted(within) ==
    /\ trg_state = "FIRING" /\ state_age < burst_duration
    /\ lock_age' = LockTimer(within)
    /\ state_age' = IF within THEN 0 ELSE state_age
    /\ fire_flag' = TRUE
    /\ UNCHANGED trg_state

KeepFiring(within) ==
    /\ trg_state = "FIRING" /\ state_age < burst_duration
    /\ lock_age' = LockTimer(within)
    /\ fire_flag' = TRUE
    /\ UNCHANGED <<trg_state, state_age>>

EndBurst ==
    /\ trg_state = "FIRING" /\ state_age >= burst_duration
    /\ trg_state' = "COOLDOWN" /\ state_age' = 0 /\ lock_age' = Unset
    /\ fire_flag' = FALSE

CoolDown(within) ==
    /\ trg_state = "COOLDOWN" /\ state_age < cooldown
    /\ lock_age' = LockTimer(within)
    /\ fire_flag' = FALSE
    /\ UNCHANGED <<trg_state, state_age>>

\* Faulty variant: the time spent on target while cooling down counts as lock.
EndCooldownStillLocked(within) ==
    /\ trg_state = "COOLDOWN" /\ state_age >= cooldown
    /\ trg_state' = IF within THEN "LOCKING" ELSE "SEARCHING"
    /\ lock_age' = LockTimer(within)
    /\ fire_flag' = FALSE
    /\ UNCHANGED state_age

\* Faulty variant: LOCKING is entered without starting the lock timer.
EndCooldownUntimed(within) ==
    /\ trg_state = "COOLDOWN" /\ state_age >= cooldown
    /\ trg_state' = IF within THEN "LOCKING" ELSE "SEARCHING"
    /\ lock_age' = Unset
    /\ fire_flag' = FALSE
    /\ UNCHANGED state_age

EndCooldown(within) ==
    /\ trg_state = "COOLDOWN" /\ state_age >= cooldown
    /\ trg_state' = IF within THEN "LOCKING" ELSE "SEARCHING"
    /\ lock_age' = IF within THEN 0 ELSE Unset
    /\ fire_flag' = FALSE
    /\ UNCHANGED state_age

TakeAim(within) ==
    /\ trg_state \in {"SEARCHING", "LOCKING"} /\ ~Steady(within)
    /\ trg_state' = IF within THEN "LOCKING" ELSE "SEARCHING"
    /\ lock_age' = LockTimer(within)
    /\ fire_flag' = FALSE
    /\ UNCHANGED state_age

OpenFire(within) ==
    /\ trg_state \in {"SEARCHING", "LOCKING"} /\ Steady(within)
    /\ trg_state' = "FIRING" /\ state_age' = 0 /\ lock_age' = Unset
    /\ fire_flag' = TRUE

\* update(target_center, crosshair_center); "within" is its distance test.
update(within) ==
    \/ KeepFiring(within) \/ EndBurst
    \/ CoolDown(within)   \/ EndCooldown(within)
    \/ TakeAim(within)    \/ OpenFire(within)

\* Time passes between two calls.
TriggerTick ==
    /\ lock_age' = Older(lock_age) /\ state_age' = Older(state_age)
    /\ UNCHANGED <<trg_state, fire_flag>>

TriggerNext == reset \/ TriggerTick \/ \E within \in BOOLEAN : update(within)

TriggerSpec == TriggerInit /\ [][TriggerNext]_trg_vars

-----------------------------------------------------------------------------
(***************************************************************************)
(* The fire flag is up exactly while the machine is in FIRING, whatever    *)
(* order update, reset and the clock come in (the value update returns and *)
(* the state it stores are assigned on different paths of the function).   *)
(***************************************************************************)
FlagIsFiring == fire_flag <=> trg_state = "FIRING"

(***************************************************************************)
(* Whichever path led there, the timers the next update will read are      *)
(* running: state_start_ while firing or cooling down, lock_start_time_    *)
(* while locking; and neither runs while searching off target.             *)
(***************************************************************************)
TimersRun ==
    /\ trg_state \in {"FIRING", "COOLDOWN"} => state_age # Unset
    /\ trg_state = "LOCKING" => lock_age # Unset
    /\ trg_state = "SEARCHING" => lock_age = Unset

\* The inductive invariant behind the theorems of CombatPipeline_proofs.
TriggerInv == TriggerTypeOK /\ FlagIsFiring /\ TimersRun

(***************************************************************************)
(* The module keeps the promise FireDiscipline states: how long the line   *)
(* must stay down before it may go up, and how long it may stay up.        *)
(***************************************************************************)
WaitLeft ==
    CASE trg_state = "COOLDOWN" -> NonNegative(cooldown - state_age) + lock_duration
      [] trg_state = "LOCKING"  -> NonNegative(lock_duration - lock_age)
      [] OTHER                  -> lock_duration

Discipline == INSTANCE FireDiscipline WITH
    Lock <- lock_duration, Burst <- burst_duration, Cooldown <- cooldown,
    HeldMax <- AgeMax,
    fire <- fire_flag, wait <- WaitLeft,
    held <- IF trg_state = "FIRING" THEN state_age ELSE 0

KeepsDiscipline == Discipline!DisciplineSpec
=============================================================================
