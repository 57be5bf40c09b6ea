----------------------------- MODULE Heizkreis -----------------------------
(***************************************************************************)
(* A heating circuit over three boards: the board of the valve, the board  *)
(* with the window contact and the temperature sensor, and the board of    *)
(* the pump, which also hears other valves.  Each of the first two runs    *)
(* its one-second handlers once a second, in any order; a frame reaches    *)
(* the other boards before their next handler, or is lost.  Windows,       *)
(* temperatures, the clock, users, other valves and failing boards are the *)
(* environment.                                                            *)
(***************************************************************************)
EXTENDS Heizung

CONSTANTS
  Befehle,         \* what users send: [typ, and rate or temp, dauer]
  Temperaturen,    \* of the room
  Uhrzeiten, uhr0, \* of the clock; the first one
  Zonen,           \* what the zone of time may be set to
  Zone, zone0, temps0,   \* group of the zone; its and the lines' first values
  Andere, Raten,   \* other valves and the demands they report
  Gruppe,          \* of the window contact
  Start,           \* first values of the counter of the sensor
  Vorraete         \* bounds, one of which a behaviour starts with: what users
                   \* send, how often other parts of the environment act

ASSUME HeizkreisAssumption ==
  /\ Vorraete \subseteq [befehle : SUBSET Befehle, fenster : Nat, temp : Nat, uhr : Nat,
                          zone : Nat, verlust : Nat, neustart : Nat,
                          andere : Nat, defekt : 0..1]
  /\ \A b \in Befehle : b.typ \in Modi
  /\ uhr0 \in Uhrzeiten /\ Andere \cap {k.id, LEER} = {}
  /\ Cardinality(Andere) < MAX_ANZ_HEIZUNGEN
  /\ Start \subseteq 0..BYTE /\ Gruppe \in 0..7 /\ Len(temps0) = Len(k.zeitzonen)

VARIABLES
  h,               \* the valve
  zonen, temps,    \* zones of time and temperatures of the lines, in RAM and EEPROM
  reed, sensor,    \* window contact and temperature sensor
  pumpe, relais,   \* demands the pump keeps, state of its power port
  fenster, temp, uhr, defekt,   \* window open; room; clock; no sensor on the wire
  dran,            \* boards that have not run their handlers in this second
  vorrat,          \* what is left of the bounds
  offen            \* observer: seconds of the valve since the window is open

anlage == <<h, zonen, temps, reed, sensor, pumpe, relais>>
umgebung == <<fenster, temp, uhr, defekt>>
vars == <<anlage, umgebung, dran, vorrat, offen>>

Bretter == {"Ventil", "Fuehler"}

(* The deadline: two seconds of the valve until the contact is read, Gruppe *)
(* if its board has just started or REED - 1 if the board of the valve has, *)
(* REED for a lost report, one second in which the valve is stopped and one *)
(* in which it is closed.                                                   *)
FRIST == 4 + Max({Gruppe, REED - 1}) + REED * Max({v.verlust : v \in Vorraete})

Init ==
  /\ h \in {heizung_init(t) : t \in 0..TAKT}
  /\ uhr = uhr0 /\ temp \in Temperaturen /\ fenster = FALSE /\ defekt = FALSE
  /\ zonen = [z \in {Zone} |-> zone0] /\ temps = temps0
  /\ reed = reedkontakt_init(Gruppe, fenster)
  /\ sensor \in {tempsensor_init(c) : c \in Start}
  /\ pumpe = zentralheizungspumpe_init /\ relais = "OFF"
  /\ dran = Bretter /\ vorrat \in Vorraete /\ offen = 0

Verbraucht(was, n) == /\ vorrat[was] >= n
                      /\ vorrat' = [vorrat EXCEPT ![was] = @ - n]

Getan(b) == dran' = IF dran = {b} THEN Bretter ELSE dran \ {b}

-----------------------------------------------------------------------------
(* A report of the demand at the pump, and its frame at the power port;    *)
(* either may be lost.                                                     *)
Bedarfsmeldung(id, b, weg) ==
  LET c == zentralheizungspumpe_can_callback(pumpe, id, b)
  IN  IF "bedarf" \in weg THEN UNCHANGED <<pumpe, relais>>
      ELSE /\ pumpe' = c.p
           /\ relais' \in IF c.sendet = {} \/ "schalten" \in weg THEN {relais} ELSE c.sendet

(* The second of the board of the valve: heizung_timer_handler.            *)
Ventil ==
  /\ "Ventil" \in dran /\ Getan("Ventil")
  /\ \E s \in {Sekundentakt(h, uhr)} : \E r \in {Stelle(s, uhr, zonen, temps)} :
       /\ h' = Gemeldet(r)
       /\ \/ Bedarfe(r) = {} /\ UNCHANGED <<pumpe, relais, vorrat>>
          \/ \E b \in Bedarfe(r), weg \in {{}, {"bedarf"}, {"schalten"}} :
               /\ Bedarfsmeldung(k.id, b, weg)
               /\ Verbraucht("verlust", Cardinality(weg))
  /\ offen' = IF fenster /\ offen < FRIST THEN offen + 1 ELSE offen
  /\ UNCHANGED <<zonen, temps, reed, sensor, umgebung>>

(* The second of the board of contact and sensor.  A wire without a sensor *)
(* reads as ones: -1.                                                      *)
Fuehler ==
  /\ "Fuehler" \in dran /\ Getan("Fuehler")
  /\ LET r == reedkontakt_timer_handler(reed, fenster)
         s == tempsensor_timer_handler(sensor, IF defekt THEN -1 ELSE temp)
         gesendet == (IF r.meldet THEN {"reed"} ELSE {}) \cup
                     (IF s.meldet THEN {"temp"} ELSE {})
     IN  /\ reed' = r.r /\ sensor' = s.s
         /\ \E da \in SUBSET gesendet :
              /\ Verbraucht("verlust", Cardinality(gesendet \ da))
              /\ LET g == IF "reed" \in da THEN ReedkontaktOffen(h) ELSE h
                 IN  h' = IF "temp" \in da THEN OneWireTemperature(g, s.s.temperature) ELSE g
  /\ UNCHANGED <<zonen, temps, pumpe, relais, umgebung, offen>>

-----------------------------------------------------------------------------
(* heizung_can_callback for what users send: the mode, the temperature of  *)
(* a line; zeitzone_can_callback: another zone of time.                    *)
heizung_can_callback(b) ==
  CASE b.typ = "OFF" -> SetModeOff(h)
    [] b.typ = "AUTOMATIK" -> SetModeAutomatik(h)
    [] b.typ = "MANUAL" -> SetModeManual(h, b.rate, b.dauer)
    [] b.typ = "THERMOSTAT" -> SetModeThermostat(h, b.temp, b.dauer)

Befehl(b) ==
  /\ b \in vorrat.befehle /\ vorrat' = [vorrat EXCEPT !.befehle = @ \ {b}]
  /\ h' = heizung_can_callback(b)
  /\ UNCHANGED <<zonen, temps, reed, sensor, pumpe, relais, umgebung, dran, offen>>

SolltempWriteLine(i, t) ==
  /\ Verbraucht("zone", 1)
  /\ temps' = [temps EXCEPT ![i] = t]
  /\ UNCHANGED <<h, zonen, reed, sensor, pumpe, relais, umgebung, dran, offen>>

ZeitzoneWriteDetails(z) ==
  /\ Verbraucht("zone", 1)
  /\ zonen' = [zonen EXCEPT ![Zone] = z]
  /\ UNCHANGED <<h, temps, reed, sensor, pumpe, relais, umgebung, dran, offen>>

(* Another valve reports its demand.                                       *)
AnderesVentil(id, b) ==
  /\ Verbraucht("andere", 1)
  /\ Bedarfsmeldung(id, b, {})
  /\ UNCHANGED <<h, zonen, temps, reed, sensor, umgebung, dran, offen>>

-----------------------------------------------------------------------------
(* Boards that start again.                                                *)
VentilNeustart ==
  /\ Verbraucht("neustart", 1)
  /\ h' \in {heizung_init(t) : t \in 0..TAKT}
  /\ offen' = 0
  /\ UNCHANGED <<zonen, temps, reed, sensor, pumpe, relais, umgebung, dran>>

FuehlerNeustart ==
  /\ Verbraucht("neustart", 1)
  /\ reed' = reedkontakt_init(Gruppe, fenster)
  /\ sensor' \in {tempsensor_init(c) : c \in Start}
  /\ offen' = 0
  /\ UNCHANGED <<h, zonen, temps, pumpe, relais, umgebung, dran>>

PumpeNeustart ==
  /\ Verbraucht("neustart", 1)
  /\ pumpe' = zentralheizungspumpe_init
  /\ UNCHANGED <<h, zonen, temps, reed, sensor, relais, umgebung, dran, offen>>

(* The rest of the environment. *)
Fenster ==
  /\ Verbraucht("fenster", 1)
  /\ fenster' = ~fenster /\ offen' = 0
  /\ UNCHANGED <<anlage, temp, uhr, defekt, dran>>

Raum ==
  /\ Verbraucht("temp", 1)
  /\ temp' \in Temperaturen \ {temp}
  /\ UNCHANGED <<anlage, fenster, uhr, defekt, dran, offen>>

Uhr ==
  /\ Verbraucht("uhr", 1)
  /\ uhr' \in Uhrzeiten \ {uhr}
  /\ UNCHANGED <<anlage, fenster, temp, defekt, dran, offen>>

Kabelbruch ==
  /\ Verbraucht("defekt", 1)
  /\ defekt' = TRUE
  /\ UNCHANGED <<anlage, fenster, temp, uhr, dran, offen>>

Umgebung ==
  \/ \E b \in Befehle : Befehl(b)
  \/ \E i \in DOMAIN temps, t \in Temperaturen : SolltempWriteLine(i, t)
  \/ \E z \in Zonen : ZeitzoneWriteDetails(z)
  \/ \E id \in Andere, b \in Raten : AnderesVentil(id, b)
  \/ VentilNeustart \/ FuehlerNeustart \/ PumpeNeustart
  \/ Fenster \/ Raum \/ Uhr \/ Kabelbruch

Next == Ventil \/ Fuehler \/ Umgebung

(* The timers of the boards go on; nothing is demanded of the environment. *)
Spec == Init /\ [][Next]_vars /\ WF_vars(Ventil) /\ WF_vars(Fuehler)

-----------------------------------------------------------------------------
(* A window that stays open closes the valve, whatever the mode, although  *)
(* reports of the contact are lost (heizung_can_callback, REEDKONTAKT_OFFEN;*)
(* heizung_update_heizstop).  Only a valve that is exercised opens for a   *)
(* second from time to time: ventilpflege sets the pin itself.             *)
FensterOffenZu ==
  offen >= FRIST => h.pin = 0 \/ h.ventilpflege_counter > 0

(* What the mode asks of the valve: nothing within the hysteresis.  A rate *)
(* that MANUAL left behind counts as on: a cold room does not raise it.  A *)
(* mode that was set before the valve was set once finds pwm_end 0; the    *)
(* division by it says that the valve is open (heizung.c:79), so that it   *)
(* is not opened, however cold the room.                                   *)
Soll == LET i == heizung_get_matching_zeitzone_index(zonen, uhr)
        IN  CASE h.mode = "AUTOMATIK" /\ i # 0 -> {temps[i]}
              [] h.mode = "THERMOSTAT" -> {h.thermostat_temp}
              [] OTHER -> {}

Geregelt ==
  /\ h.mode = "OFF" /\ h.ventilpflege_counter = 0 => h.pin = 0
  /\ h.mode = "MANUAL" => h.pwm_width = (k.periode * h.manual_rate) \div 100
  /\ h.mode = "AUTOMATIK" /\ Soll = {} => h.pin = 0
  /\ \A s \in Soll : /\ temp < s - k.hysterese => h.pwm_width > 0 \/ h.pwm_end = 0
                     /\ temp > s + k.hysterese => h.pin = 0

(* Only a user, a start of the board and the end of a duration change the  *)
(* mode.  The duration is that of the last MANUAL or THERMOSTAT command,   *)
(* although OFF or AUTOMATIK came after it: a heating that was switched    *)
(* off may go on again by itself (heizung.c:229).                          *)
Moduswechsel ==
  h'.mode # h.mode /\ UNCHANGED <<vorrat.befehle, vorrat.neustart>> =>
    h.duration_counter = 1 /\ h'.mode = "AUTOMATIK"

(* When the environment has come to rest with the window closed and a      *)
(* sensor on the wire, the valve is what its mode, zone of time and the    *)
(* temperature of the room ask for, but for a cold room whose valve was    *)
(* never set; the mode is what users and durations made it                 *)
(* (heizung_timer_handler, tempsensor_timer_handler).                      *)
Regelt ==
  /\ <>[](~fenster /\ ~defekt) => <>[]Geregelt
  /\ [][Moduswechsel]_vars

(* And the pump knows the demand as the valve computes it, has it once,    *)
(* and runs by the mean of the demands (waermebedarfSpeichern,             *)
(* getMittlererWaermebedarf), although reports are lost and the pump       *)
(* starts again.  Two exceptions: from 256 percent on the sum is cast to a *)
(* byte (zentralheizungspumpe.c:97), so that three open valves switch the  *)
(* pump off; and a window that stops the valve of a cold room postpones    *)
(* the report again and again (heizung.c:183).                             *)
Melden == SelectSeq(pumpe, LAMBDA f : f.waermebedarf > 0)
Summe == FoldLeft(LAMBDA s, f : s + f.waermebedarf, 0, Melden)
Mittel == IF Melden = << >> THEN 0 ELSE Summe \div Len(Melden)

Versorgt ==
  /\ Feld(pumpe, k.id) # 0
  /\ pumpe[Feld(pumpe, k.id)].waermebedarf = Rate(h)
  /\ Summe < 256 /\ Mittel >= EINSCHALT_SCHWELLE => relais = "ON"
  /\ Summe < 256 /\ Mittel <= AUSSCHALT_SCHWELLE => relais = "OFF"

Verschoben == h.reed_heiz_stop_counter > 0 /\ h.waermebedarf_counter > BEDARF

PumpeFolgt == []<>Verschoben \/ <>[]Versorgt

(* Deviations: off stays off until somebody says otherwise.                *)
AusBleibtAus == [][h.mode = "OFF" => h'.mode = "OFF" \/ vorrat' # vorrat]_vars

(* The pump runs by the demands, however many there are ...                *)
PumpeFolgtAllen ==
  []<>Verschoben \/ <>[](Mittel >= EINSCHALT_SCHWELLE => relais = "ON")

(* ... and also hears of a valve that a window keeps closed.               *)
PumpeFolgtImmer == <>[]Versorgt

(* A cold room is heated.                                                  *)
RegeltImmer ==
  <>[](~fenster /\ ~defekt) =>
    <>[](\A s \in Soll : temp < s - k.hysterese => h.pwm_width > 0)
=============================================================================
