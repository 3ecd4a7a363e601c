---------------------------- MODULE FireDiscipline ----------------------------
(***************************************************************************)
(* What the trigger promises to whoever watches only the fire line:        *)
(*   - the line goes up only when nothing is left to wait for;             *)
(*   - a burst that runs its course costs Cooldown + Lock of waiting;      *)
(*   - only time shortens the wait; losing the aim may lengthen it;        *)
(*   - once held for Burst, the line can only come down;                   *)
(*   - an owner may abandon the engagement at any time, which drops the    *)
(*     line, and also what is left of a cooldown: a fresh Lock is then all *)
(*     there is to wait for.                                               *)
(***************************************************************************)
EXTENDS Integers

CONSTANTS Lock, Burst, Cooldown, HeldMax
VARIABLES fire, \* the fire line
          wait, \* how long it must still stay down
          held  \* how long it has been up (saturating at HeldMax), 0 when down

Down == fire = FALSE /\ held = 0

DisciplineInit == Down /\ wait = Lock

TimePasses ==
    /\ fire' = fire
    /\ held' = IF fire /\ held < HeldMax THEN held + 1 ELSE held
    /\ wait' \in {wait, wait - 1} /\ wait' >= 0

LineUp ==
    /\ Down /\ wait = 0
    /\ fire' = TRUE /\ held' = 0 /\ wait' = Lock

BurstOver ==
    /\ fire /\ held >= Burst
    /\ fire' = FALSE /\ held' = 0 /\ wait' = Cooldown + Lock

AimDisturbed ==
    /\ Down /\ Down'
    /\ wait' >= wait /\ wait' <= Cooldown + Lock

Abandon == fire' = FALSE /\ held' = 0 /\ wait' = Lock

\* Time does not pass through the end of a burst unnoticed for ever: the line
\* may be up past Burst only until its owner next looks at it.
DisciplineNext == TimePasses \/ LineUp \/ BurstOver \/ AimDisturbed \/ Abandon

DisciplineSpec == DisciplineInit /\ [][DisciplineNext]_<<fire, wait, held>>
=============================================================================
