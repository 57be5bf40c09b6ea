-------------------------------- MODULE Usv ---------------------------------
(***************************************************************************)
(* The uninterruptible power supply (usv-modul usvstatemachine.c): the     *)
(* idle handler usv_state_handler measures voltages one after the other    *)
(* and switches the relay between grid and battery; the timer interrupt    *)
(* runs usv_timer_handler every 10 ms, at any point of the idle handler.   *)
(*                                                                         *)
(* A voltage is one of three ranges: up to 23 V ("leer"), up to 24 V       *)
(* ("schwach"), above ("gut").  The buffer follows the grid or the         *)
(* battery, whichever the relay connects, and breaks down on the grid      *)
(* under overload.  The minima and maxima kept for display, the LEDs and   *)
(* the answers to requests for them are left out.                          *)
(***************************************************************************)
EXTENDS Integers

CONSTANTS T_BAT,     \* 200: ticks of rest after switching to the battery
          T_NETZ,    \* 10: ticks of rest after switching to the grid
          ZURUECK,   \* 30: switch_back_counter
          TAKT       \* 100: ticks of a second, and reload of timer_counter

ASSUME UsvAssumption == /\ T_BAT \in Nat \ {0} /\ T_NETZ \in 1..T_BAT
                        /\ ZURUECK \in Nat \ {0} /\ TAKT \in Nat \ {0}

VARIABLES on_battery,           \* and the relay, which always follows it
          usv_timer, switch_back_counter, timer_counter,
          wo,                   \* where usv_state_handler stands
          netz, batterie, ueberlast,   \* the world
          seit,                 \* observer: ticks since the relay switched
          grund                 \* observer: why it switched last

usvVars == <<on_battery, usv_timer, switch_back_counter, timer_counter, wo,
             netz, batterie, ueberlast, seit, grund>>
zaehler == <<usv_timer, switch_back_counter, timer_counter>>
welt == <<netz, batterie, ueberlast>>

Bereiche == {"leer", "schwach", "gut"}
SeitMax == T_BAT + (ZURUECK + 1) * (TAKT + 1)

UsvInit == /\ on_battery = FALSE
           /\ usv_timer = 0 /\ switch_back_counter = 0 /\ timer_counter = 0
           /\ wo = "start"
           /\ netz \in Bereiche /\ batterie \in Bereiche /\ ueberlast \in BOOLEAN
           /\ seit = SeitMax /\ grund = "keiner"

-----------------------------------------------------------------------------
(* The world changes.                                                      *)
Umwelt == /\ \/ \E b \in Bereiche : netz' = b /\ UNCHANGED <<batterie, ueberlast>>
             \/ \E b \in Bereiche : batterie' = b /\ UNCHANGED <<netz, ueberlast>>
             \/ \E u \in BOOLEAN : ueberlast' = u /\ UNCHANGED <<netz, batterie>>
          /\ UNCHANGED <<on_battery, zaehler, wo, seit, grund>>

(* U_puffer() <= _23_V.                                                    *)
puffer_bricht == IF on_battery THEN batterie = "leer" ELSE netz = "leer" \/ ueberlast

(* Mutant: the seconds are not counted.                                    *)
Mut_sekunde == /\ timer_counter' = IF timer_counter = 0 THEN TAKT ELSE timer_counter - 1
               /\ UNCHANGED switch_back_counter

(* timer_counter is compared with 0 before it is decremented, and so a     *)
(* "second" has TAKT + 1 ticks.                                            *)
sekunde == /\ timer_counter' = IF timer_counter = 0 THEN TAKT ELSE timer_counter - 1
           /\ switch_back_counter' = IF timer_counter = 0 /\ switch_back_counter > 0
                                     THEN switch_back_counter - 1 ELSE switch_back_counter

usv_timer_handler == /\ usv_timer' = IF usv_timer > 0 THEN usv_timer - 1 ELSE 0
                     /\ sekunde
                     /\ seit' = IF seit < SeitMax THEN seit + 1 ELSE seit
                     /\ UNCHANGED <<on_battery, wo, welt, grund>>

-----------------------------------------------------------------------------
(* usv_state_handler, one measurement after the other.                     *)
ruht == /\ wo = "start" /\ usv_timer # 0
        /\ UNCHANGED usvVars

misst_puffer == /\ wo = "start" /\ usv_timer = 0
                /\ wo' = IF puffer_bricht THEN "U_bat" ELSE "U_NT"
                /\ UNCHANGED <<on_battery, zaehler, welt, seit, grund>>

nichts_tun == /\ \/ wo = "U_bat" /\ (batterie = "gut" <=> on_battery)
                 \/ wo = "U_NT" /\ ~(netz = "gut" /\ switch_back_counter = 0 /\ on_battery)
              /\ wo' = "start"
              /\ UNCHANGED <<on_battery, zaehler, welt, seit, grund>>

switch_to_battery ==
  /\ wo = "U_bat" /\ batterie = "gut" /\ ~on_battery
  /\ on_battery' = TRUE /\ usv_timer' = T_BAT
  /\ seit' = 0 /\ grund' = "puffer"
  /\ wo' = "setze_counter"
  /\ UNCHANGED <<switch_back_counter, timer_counter, welt>>

(* Mutant: the time in which the supply must not react is left out.        *)
Mut_switch_to_netzbetrieb(g) ==
  /\ on_battery' = FALSE
  /\ seit' = 0 /\ grund' = g
  /\ wo' = "start"
  /\ UNCHANGED <<usv_timer, switch_back_counter, timer_counter, welt>>

switch_to_netzbetrieb(g) ==
  /\ on_battery' = FALSE /\ usv_timer' = T_NETZ
  /\ seit' = 0 /\ grund' = g
  /\ wo' = "start"
  /\ UNCHANGED <<switch_back_counter, timer_counter, welt>>

setze_counter == /\ wo = "setze_counter"
                 /\ switch_back_counter' = ZURUECK
                 /\ wo' = "start"
                 /\ UNCHANGED <<on_battery, usv_timer, timer_counter, welt, seit, grund>>

batterie_leer == /\ wo = "U_bat" /\ batterie # "gut" /\ on_battery
                 /\ switch_to_netzbetrieb("batterie_leer")

(* Mutant: the hysteresis is forgotten.                                    *)
Mut_netz_da == /\ wo = "U_NT" /\ netz = "gut" /\ on_battery
               /\ switch_to_netzbetrieb("netz_da")

netz_da == /\ wo = "U_NT" /\ netz = "gut" /\ switch_back_counter = 0 /\ on_battery
           /\ switch_to_netzbetrieb("netz_da")

usv_state_handler == \/ ruht \/ misst_puffer \/ nichts_tun
                     \/ switch_to_battery \/ setze_counter \/ batterie_leer \/ netz_da

UsvNext == Umwelt \/ usv_timer_handler \/ usv_state_handler

UsvSpec == UsvInit /\ [][UsvNext]_usvVars

(* The interrupt and the idle callbacks keep running.                      *)
UsvFairSpec == UsvSpec /\ WF_usvVars(usv_timer_handler) /\ WF_usvVars(usv_state_handler)

-----------------------------------------------------------------------------
(***************************************************************************)
(* Properties                                                              *)
(***************************************************************************)
UsvTypeOK == /\ on_battery \in BOOLEAN
             /\ usv_timer \in 0..T_BAT
             /\ switch_back_counter \in 0..ZURUECK /\ timer_counter \in 0..TAKT
             /\ wo \in {"start", "U_bat", "U_NT", "setze_counter"}
             /\ netz \in Bereiche /\ batterie \in Bereiche /\ ueberlast \in BOOLEAN
             /\ seit \in 0..SeitMax
             /\ grund \in {"keiner", "puffer", "batterie_leer", "netz_da"}

(* usvstatemachine.c:99-101: the relay never chatters, whatever the         *)
(* voltages do between two measurements: it rests for T_BAT ticks on the   *)
(* battery and for T_NETZ ticks on the grid.                               *)
PrelltNicht == [][on_battery' # on_battery => seit >= IF on_battery THEN T_BAT ELSE T_NETZ]_usvVars

(* The supply returns to a grid that is back only after almost all of      *)
(* ZURUECK periods of the counter, wherever in its period it was started.  *)
WartetAufNetz ==
  [][on_battery /\ ~on_battery' /\ grund' = "netz_da"
       => seit > (ZURUECK - 1) * (TAKT + 1)]_usvVars

(* A buffer that breaks down is fed again as long as the battery is        *)
(* charged, and a grid that is back for good is used again once the        *)
(* battery has settled, which is measured after the buffer.                *)
PufferKommt == (puffer_bricht /\ batterie = "gut") ~> (~puffer_bricht \/ batterie # "gut")
NetzKommt == \A b \in Bereiche :
  <>[](netz = "gut" /\ ~ueberlast /\ batterie = b) => <>[](~on_battery)
VersorgungKommt == PufferKommt /\ NetzKommt

(* usvstatemachine.c:225 "Fuehestens nach 30sec zurueckschalten".          *)
Nach30Sekunden ==
  [][on_battery /\ ~on_battery' /\ grund' = "netz_da" => seit >= ZURUECK * TAKT]_usvVars
=============================================================================
