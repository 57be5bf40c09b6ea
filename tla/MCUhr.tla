------------------------------- MODULE MCUhr --------------------------------
(***************************************************************************)
(* A day of 3 hours of 2 minutes of 8 seconds, and int of 32 values: a day *)
(* is longer than int, as it is on the board (86400 and 65536), and two    *)
(* deviations look like none: 32, and half of it.                          *)
(***************************************************************************)
EXTENDS Uhr

MCTage == <<2, 1>>
MCJahre == {1}
MCTageKurz == <<1, 1>>
MCEchtzeiten == {0, 16, 21, 32}
MCEchtzeitenWenige == {21, 46}
=============================================================================
