---------------------------- MODULE MCZeitdienst -----------------------------
(***************************************************************************)
(* Three boards; the slowest to take over is the one of the lowest level.  *)
(***************************************************************************)
EXTENDS Zeitdienst

MCBoards == 1..3
MClevel == <<1, 2, 3>>
MCtakeover == <<5, 4, 5>>
MCinterval == <<1, 1, 2>>
==============================================================================
