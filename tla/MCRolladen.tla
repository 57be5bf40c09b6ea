----------------------------- MODULE MCRolladen -----------------------------
(***************************************************************************)
(* Instances of Rolladen for TLC: a short shutter, one button, one group   *)
(* of its own and one of somebody else, and the positions that take every  *)
(* branch of HES_ROLLADEN_POSITION_SET.                                    *)
(***************************************************************************)
EXTENDS Rolladen

MCGruppen == {2}
MCBusgruppen == {1, 2, 3}
MCSetPositionen == {0, 50, 100, 200, 201}
MCDefPositionen == {0, 50, 100}
MCKeineDefPositionen == {}
=============================================================================
