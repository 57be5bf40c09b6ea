----------------------------- MODULE Motorrelais -----------------------------
(***************************************************************************)
(* What the shutter control promises the motor.  Two relays drive it: the  *)
(* power relay, and the direction relay behind it (the wiring diagram at   *)
(* the top of rolladen.c).  Switching the direction under load, or         *)
(* applying power to contacts that are still moving, destroys them, so     *)
(* each relay has to rest before the other one may switch.  Time is        *)
(* counted in ticks of the 100 ms timer, each counter up to a cap.         *)
(***************************************************************************)
EXTENDS Naturals

CONSTANTS DirPause,    \* ticks without power before the direction may switch
          PowerPause   \* ticks after a direction change before power may come

VARIABLES power,   \* 1: the power relay has pulled in
          dir,     \* 0 = up, 1 = down
          aus,     \* ticks since power went off, 0 while it is on
          ruhe     \* ticks since the direction relay switched

relais == <<power, dir, aus, ruhe>>

Saettigung(n, cap) == IF n >= cap THEN cap ELSE n

Init == power = 0 /\ dir = 0 /\ aus = DirPause /\ ruhe = PowerPause

(* A tick in which neither relay switches. *)
Warten == /\ aus' = IF power = 1 THEN 0 ELSE Saettigung(aus + 1, DirPause)
          /\ ruhe' = Saettigung(ruhe + 1, PowerPause)
          /\ UNCHANGED <<power, dir>>

(* The motor starts in the direction the relay points to; the tick that    *)
(* switches it on may be the one that completes the pause.                 *)
Einschalten == /\ power = 0
               /\ ruhe + 1 >= PowerPause
               /\ power' = 1
               /\ aus' = 0
               /\ ruhe' = Saettigung(ruhe + 1, PowerPause)
               /\ UNCHANGED dir

Ausschalten == /\ power = 1
               /\ power' = 0
               /\ aus' = 0
               /\ ruhe' = Saettigung(ruhe + 1, PowerPause)
               /\ UNCHANGED dir

(* The direction relay switches, the motor being without power for long    *)
(* enough.                                                                 *)
Umschalten == /\ power = 0
              /\ aus + 1 >= DirPause
              /\ dir' = 1 - dir
              /\ aus' = Saettigung(aus + 1, DirPause)
              /\ ruhe' = 0
              /\ UNCHANGED power

Next == Warten \/ Einschalten \/ Ausschalten \/ Umschalten

Spec == Init /\ [][Next]_relais
=============================================================================
