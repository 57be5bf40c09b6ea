----------------------------- MODULE Lichtzone ------------------------------
(***************************************************************************)
(* A light zone (controllerboard lichtzone.c, lichtzone.h): it turns the   *)
(* presses of buttons into POWER_GROUP_ON and POWER_GROUP_OFF for its      *)
(* action groups, switches off after a time, and stays on for four hours   *)
(* after three quick presses.                                              *)
(*                                                                         *)
(* A zone is a record z of its state; k is its configuration, with the     *)
(* groups as sets (255 is no group).  Every operator gives the record      *)
(* after the handler, without the frames the handler sends.                *)
(***************************************************************************)
EXTENDS Integers

CONSTANTS EXT_TIMERINIT, EXT_SEC_COUNTER_MAX

Lichtzustaende == {"OFF", "ON", "ON_EXT"}
Dunkel == [state |-> "OFF", timer |-> 0, klicks |-> 0, sek |-> 0]

(* lichtzone_setup_timer: the highest bit says seconds instead of minutes. *)
setup_timer(delay) == IF delay >= 128 THEN delay - 128 ELSE delay * 60

(* Every TASTER_DOWN counts for the triple click, whatever its group.      *)
klick(z) == [z EXCEPT !.sek = IF @ = 0 THEN 1 ELSE @, !.klicks = (@ + 1) % 256]

dreifach(z) == z.klicks >= 3 /\ z.sek > 0 /\ z.sek < EXT_SEC_COUNTER_MAX

(* The toggle groups; z has counted the press already.                     *)
einschalten(k, z) == [z EXCEPT !.state = "ON",
                               !.timer = IF k.delay # 0 THEN setup_timer(k.delay) ELSE @]
ausschalten(k, z) == IF k.delay # 0 THEN Dunkel ELSE [z EXCEPT !.state = "OFF"]

toggle(k, z) ==
  CASE dreifach(z) -> [state |-> "ON_EXT", timer |-> EXT_TIMERINIT, klicks |-> 0, sek |-> 0]
    [] ~dreifach(z) /\ z.state = "ON_EXT" -> ausschalten(k, z)
    [] ~dreifach(z) /\ z.state = "OFF" -> einschalten(k, z)
    [] ~dreifach(z) /\ z.state = "ON" ->
         IF k.delay # 0 THEN einschalten(k, z) ELSE ausschalten(k, z)

(* A running timer is only started again, and nobody is told.              *)
toggle_informiert(k, z) == dreifach(z) \/ z.state # "ON" \/ k.delay = 0

(* Mutant: a zone that is off takes no notice of its off groups.           *)
Mut_down_informiert(k, z, g) ==
  \/ g \in k.toggle /\ toggle_informiert(k, klick(z))
  \/ g \in k.off /\ z.state # "OFF"
  \/ g \in k.on

down_informiert(k, z, g) == \/ g \in k.toggle /\ toggle_informiert(k, klick(z))
                            \/ g \in k.off \cup k.on

down(k, z, g) == CASE g \in k.toggle -> toggle(k, klick(z))
                   [] g \in k.off -> [klick(z) EXCEPT !.state = "OFF", !.timer = 0]
                   [] g \in k.on -> einschalten(k, klick(z))
                   [] g \notin k.toggle \cup k.off \cup k.on -> klick(z)

group_on(k, z) == IF z.state = "ON_EXT" THEN z ELSE einschalten(k, z)
group_off(z) == [z EXCEPT !.state = "OFF", !.timer = 0]
set_timer(z, t) == [z EXCEPT !.timer = t]

(* lichtzone_timer_handler, once a second.                                 *)
timer_laeuft(k, z) == k.delay # 0 /\ z.timer > 0
abgelaufen(k, z) == timer_laeuft(k, z) /\ z.timer = 1

zone_sekunde(k, z) ==
  LET weiter == z.sek >= 1 /\ z.sek + 1 < EXT_SEC_COUNTER_MAX
  IN  [state |-> IF abgelaufen(k, z) THEN "OFF" ELSE z.state,
       timer |-> IF timer_laeuft(k, z) THEN z.timer - 1 ELSE z.timer,
       klicks |-> IF z.sek >= 1 /\ ~weiter THEN 0 ELSE z.klicks,
       sek |-> IF weiter THEN z.sek + 1 ELSE 0]
=============================================================================
