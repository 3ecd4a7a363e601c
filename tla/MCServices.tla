----------------------------- MODULE MCServices -----------------------------
(* FIRE, a manual step and an aim that runs into both servo limits. *)
EXTENDS Services

Cmd(kind, dx, dy) == [kind |-> kind, dx |-> dx, dy |-> dy]
BoardCommandsDef == {Cmd("FIRE", 0, 0), Cmd("MOVE", 1, 0), Cmd("TARGET", -900, 700)}
=============================================================================
