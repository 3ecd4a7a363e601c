---------------------------- MODULE MCBalloonRange ----------------------------
(* Few hues, two saturations, two SETs on their way. *)
EXTENDS BalloonRange

ConfigHsvDef == [H_MIN |-> 0, H_MAX |-> 1, S_MIN |-> 1, S_MAX |-> 2]
=============================================================================
