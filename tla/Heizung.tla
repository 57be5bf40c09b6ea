------------------------------ MODULE Heizung ------------------------------
(***************************************************************************)
(* One heating valve (heizung.c), the zones of time it heats by            *)
(* (zeitzone.c), a window contact (reedkontakt.c), a temperature sensor    *)
(* (tempsensor.c) and the pump of the heating (zentralheizungspumpe.c), as *)
(* functions from the record of a device to its next one.  The timer       *)
(* handlers are called once a second.                                      *)
(***************************************************************************)
EXTENDS Integers, Sequences, FiniteSets, SequencesExt

CONSTANTS
  k,                  \* configuration: id, periode, hysterese, zeitzonen, doppelt
  BYTE,               \* 255: the largest value of a uint8_t
  TAKT,               \* 5: the valve is set in every call after so many
  HEIZSTOP,           \* 60: seconds a window contact stops the heating
  BEDARF, VERZUG,     \* 60 and 210: seconds between two reports of the demand,
                      \* and from opening the valve to the report
  PFLEGE,             \* 600: seconds a valve is exercised
  REED, INTERVALL,    \* 5, config.interval: seconds between two reports of an
                      \* open window, of the temperature
  MAX_ANZ_HEIZUNGEN,  \* 15: valves the pump keeps
  EINSCHALT_SCHWELLE, AUSSCHALT_SCHWELLE   \* 10 and 5: percent

ASSUME HeizungAssumption ==
  /\ {BYTE, TAKT, HEIZSTOP, BEDARF, VERZUG, PFLEGE, REED, INTERVALL,
      MAX_ANZ_HEIZUNGEN} \subseteq Nat \ {0}
  /\ {BEDARF, VERZUG, INTERVALL} \subseteq 0..BYTE
  /\ k.id \in Nat /\ k.periode \in Nat /\ k.hysterese \in Nat
  /\ k.doppelt \in BOOLEAN
  /\ AUSSCHALT_SCHWELLE \in Nat /\ EINSCHALT_SCHWELLE > AUSSCHALT_SCHWELLE

uint8(n) == n % (BYTE + 1)
Modi == {"OFF", "MANUAL", "THERMOSTAT", "AUTOMATIK"}

(* timer_counter is not initialised; from TAKT on its value makes no       *)
(* difference.  darlingtonoutput_init has switched the pin off.            *)
heizung_init(t) ==
  [mode |-> "OFF", manual_rate |-> 0, pwm_counter |-> 0, pwm_width |-> 0,
   pwm_end |-> 0, waermebedarf_counter |-> k.id % 64,
   received_interval_counter |-> BYTE, measure_value |-> 0,
   duration_counter |-> 0, thermostat_temp |-> 0, reed_heiz_stop_counter |-> 0,
   ventilpflege_counter |-> 0, timer_counter |-> t, pin |-> 0]

-----------------------------------------------------------------------------
(* Zones of time.  t is the clock, [day_of_week, minute]; a zone has its   *)
(* days and its first and last minute.                                     *)
time_matches(z, t) ==
  LET t2 == IF z.to < z.from THEN z.to + 1440 ELSE z.to
      tnow == IF z.to < z.from /\ t.minute < z.from THEN t.minute + 1440 ELSE t.minute
  IN  t.day_of_week \in z.day_pattern /\ z.from <= tnow /\ tnow <= t2

zeitzone_matches(id, zonen, t) == id \in DOMAIN zonen /\ time_matches(zonen[id], t)

(* The first line of config whose zone matches; 0 for none (-1).           *)
heizung_get_matching_zeitzone_index(zonen, t) ==
  SelectInSeq(k.zeitzonen, LAMBDA id : zeitzone_matches(id, zonen, t))

-----------------------------------------------------------------------------
(* The pulse width modulation of the valve.                                *)
MutOhneUpdate(h) == h

heizung_update_heizstop(h) ==
  IF h.reed_heiz_stop_counter > 0 THEN [h EXCEPT !.pwm_end = k.periode, !.pwm_width = 0] ELSE h

heizung_set_pwm(h, rate) ==
  IF h.reed_heiz_stop_counter > 0 THEN heizung_update_heizstop(h)
  ELSE [h EXCEPT !.pwm_end = k.periode, !.pwm_width = (k.periode * rate) \div 100]

(* The AVR library divides by 0 with all bits of the result set.           *)
heizung_get_pwm(h) ==
  IF h.mode = "OFF" THEN 0
  ELSE IF h.pwm_end = 0 THEN 255 ELSE ((h.pwm_width * 100) \div h.pwm_end) % 256

heizung_handle_pwm(h) ==
  LET neu == h.pwm_counter + 1 >= h.pwm_end
      c == IF neu THEN 0 ELSE h.pwm_counter + 1
  IN  [h EXCEPT !.pwm_counter = c,
                !.pin = IF c >= h.pwm_width THEN 0 ELSE IF neu THEN 1 ELSE @]

heizung_set_pwm_by_temp(h, soll, ist) ==
  IF heizung_get_pwm(h) > 0 /\ ist > soll + k.hysterese THEN heizung_set_pwm(h, 0)
  ELSE IF heizung_get_pwm(h) = 0 /\ ist < soll - k.hysterese
       THEN [heizung_set_pwm(h, 100) EXCEPT !.waermebedarf_counter = VERZUG]
       ELSE h

-----------------------------------------------------------------------------
(* heizung_timer_handler, in its order: the counters of a second, the      *)
(* valve in every call after TAKT, the demand.                             *)
Weniger(n) == IF n > 0 THEN n - 1 ELSE 0

(* The counter of the exercise, in the second in which it is n.            *)
heizung_check_ventilpflege(h, n, t) ==
  IF /\ h.mode = "OFF" /\ n = 0
     /\ t.day_of_week = 7 /\ t.minute = k.id * 3 + 720
  THEN PFLEGE ELSE n

Sekundentakt(h, t) ==
  heizung_update_heizstop(
    [heizung_handle_pwm(h) EXCEPT
       !.ventilpflege_counter = heizung_check_ventilpflege(h, Weniger(@), t),
       !.received_interval_counter = IF @ = BYTE THEN @ ELSE @ + 1,
       !.duration_counter = Weniger(@),
       !.mode = IF h.duration_counter = 1 THEN "AUTOMATIK" ELSE @,
       !.reed_heiz_stop_counter = Weniger(@)])

(* The valve by the mode; temps are the temperatures of the lines.         *)
Regle(h, t, zonen, temps) ==
  LET i == heizung_get_matching_zeitzone_index(zonen, t)
      gemessen == h.received_interval_counter < BYTE
  IN  CASE h.mode = "OFF" ->
             [heizung_set_pwm(h, IF h.ventilpflege_counter > 0 THEN 100 ELSE 0)
                EXCEPT !.manual_rate = 0,
                       !.pin = IF h.ventilpflege_counter > 0 THEN 1 ELSE 0]
        [] h.mode = "MANUAL" -> heizung_set_pwm(h, h.manual_rate)
        [] h.mode = "AUTOMATIK" /\ gemessen ->
             IF i # 0 THEN heizung_set_pwm_by_temp(h, temps[i], h.measure_value)
             ELSE heizung_set_pwm(h, 0)
        [] h.mode = "THERMOSTAT" /\ gemessen ->
             heizung_set_pwm_by_temp(h, h.thermostat_temp, h.measure_value)
        [] OTHER -> h

Rate(h) == heizung_get_pwm(h) * (IF k.doppelt THEN 2 ELSE 1) % 256

Stelle(h, t, zonen, temps) ==
  IF h.timer_counter >= TAKT THEN Regle([h EXCEPT !.timer_counter = 0], t, zonen, temps)
  ELSE [h EXCEPT !.timer_counter = @ + 1]

(* Mutant: every call of a heating that is off returns before. *)
MutKehrtImmer(r) == r.mode = "OFF"

(* The demands that are reported, of a valve r that has been set.  A call  *)
(* that sets the valve of a heating that is off returns before.            *)
Kehrt(r) == r.mode = "OFF" /\ r.timer_counter = 0
Bedarfe(r) == IF ~Kehrt(r) /\ r.waermebedarf_counter = 0 THEN {Rate(r)} ELSE {}
Gemeldet(r) ==
  IF Kehrt(r) THEN r
  ELSE [r EXCEPT !.waermebedarf_counter = IF @ = 0 THEN BEDARF ELSE @ - 1]

(* heizung_can_callback: the messages that change the device.              *)
SetModeOff(h) == [h EXCEPT !.mode = "OFF"]
SetModeAutomatik(h) == [h EXCEPT !.mode = "AUTOMATIK"]
SetModeManual(h, rate, dauer) ==
  [h EXCEPT !.mode = "MANUAL", !.manual_rate = rate, !.duration_counter = dauer]
SetModeThermostat(h, temp, dauer) ==
  [h EXCEPT !.mode = "THERMOSTAT", !.thermostat_temp = temp, !.duration_counter = dauer]

MutAlterWert(h, temp) == [h EXCEPT !.measure_value = temp]

OneWireTemperature(h, temp) ==
  [h EXCEPT !.measure_value = temp, !.received_interval_counter = 0]
ReedkontaktOffen(h) == [h EXCEPT !.reed_heiz_stop_counter = HEIZSTOP]

-----------------------------------------------------------------------------
(* Window contact: the device after a second and whether it reports an     *)
(* open window; STATE_CHANGE is for other devices.                         *)
reedkontakt_init(gruppe, offen) == [timer_counter |-> gruppe, last_state |-> offen]

reedkontakt_timer_handler(r, offen) ==
  [r |-> [timer_counter |-> IF ~offen THEN 0
                            ELSE IF r.timer_counter = 0 THEN REED - 1
                            ELSE r.timer_counter - 1,
          last_state |-> offen],
   meldet |-> offen /\ r.timer_counter = 0]

(* Temperature sensor: a measurement is started two seconds before it is   *)
(* read.  gelesen is what the one-wire bus returns.                        *)
tempsensor_init(c) == [timer_counter |-> c, convert_sent |-> FALSE, temperature |-> 0]

tempsensor_timer_handler(s, gelesen) ==
  LET gestartet == s.convert_sent \/ s.timer_counter = 2
      liest == s.timer_counter = 0 /\ gestartet
  IN  [s |-> [timer_counter |-> uint8((IF liest THEN INTERVALL ELSE s.timer_counter) - 1),
              convert_sent |-> gestartet /\ ~liest,
              temperature |-> IF liest THEN gelesen ELSE s.temperature],
       meldet |-> liest]

-----------------------------------------------------------------------------
(* Pump: the demands by valve, in slots with id 255 when empty, and the    *)
(* frames it sends to the power port of the pump.                          *)
LEER == 255
zentralheizungspumpe_init ==
  [n \in 1..MAX_ANZ_HEIZUNGEN |-> [id |-> LEER, waermebedarf |-> 0]]

Feld(p, id) == SelectInSeq(p, LAMBDA f : f.id = id)
Ersetzt(p, n, id, b) == [p EXCEPT ![n] = [id |-> id, waermebedarf |-> b]]

waermebedarfSpeichern(p, id, b) ==
  CASE Feld(p, id) # 0 -> Ersetzt(p, Feld(p, id), id, b)
    [] Feld(p, id) = 0 /\ Feld(p, LEER) # 0 -> Ersetzt(p, Feld(p, LEER), id, b)
    [] OTHER -> p

(* The sum is cast to a uint8_t before it is divided.                      *)
getMittlererWaermebedarf(p) ==
  LET heizt == SelectSeq(p, LAMBDA f : f.waermebedarf > 0)
      gesamt == FoldLeft(LAMBDA s, f : s + f.waermebedarf, 0, heizt)
  IN  IF gesamt = 0 THEN 0 ELSE (gesamt % 256) \div Len(heizt)

zentralheizungspumpe_can_callback(p, id, b) ==
  LET q == waermebedarfSpeichern(p, id, b)
      mittel == getMittlererWaermebedarf(q)
  IN  [p |-> q,
       sendet |-> IF mittel >= EINSCHALT_SCHWELLE THEN {"ON"}
                  ELSE IF mittel <= AUSSCHALT_SCHWELLE THEN {"OFF"} ELSE {}]
=============================================================================
