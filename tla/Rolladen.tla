------------------------------ MODULE Rolladen ------------------------------
(***************************************************************************)
(* One roller shutter of the controller board                              *)
(* (firmwares/controllerboard-1612-v01/rolladen.c).  The variables are the *)
(* fields of device_data_rolladen and the two relay outputs; frames of the *)
(* bus change the pending command and the target, the 100 ms timer handler *)
(* runs the state machine that switches the relays.  Frame handlers and    *)
(* the timer handler run on the main loop of one board, so each is one     *)
(* atomic action.                                                          *)
(***************************************************************************)
EXTENDS Integers, FiniteSets

CONSTANTS Laufzeit,          \* config.laufzeit: 10ths of a second bottom..top
          MaxRekalib,        \* config.max_rekalib
          Taster,            \* config.taster
          Gruppen,           \* config.gruppe0 .. gruppe3
          Busgruppen,        \* groups and buttons that appear in frames
          SetPositionen,     \* data[3] of HES_ROLLADEN_POSITION_SET frames
          DefPositionen,     \* data[3] of HES_ROLLADEN_DEFINE_POSITION frames
          DirPause,          \* ticks, see Motorrelais
          PowerPause

ASSUME RolladenAssumption ==
  /\ Laufzeit \in Nat \ {0}
  /\ MaxRekalib \in Nat
  /\ SetPositionen \subseteq Nat
  /\ DefPositionen \subseteq Nat
  /\ DirPause \in Nat \ {0}
  /\ PowerPause \in Nat \ {0}

VARIABLES state,            \* lowlevel_state
          command,          \* lowlevel_command, pending until a state takes it
          wait_counter,     \* lowlevel_wait_counter, in ticks
          last_dir,         \* lowlevel_last_dir
          up_event_counter, \* hilevel_up_event_counter
          laufzeit,         \* position in 10ths of a second, 0 at the bottom
          soll_laufzeit,    \* target, or KeinSoll
          summe_laufzeit,   \* way since the last calibration
          port_power,       \* the pin of the power relay
          port_dir,         \* the pin of the direction relay
          aus,              \* observer: ticks since port_power went 0 (capped)
          ruhe              \* observer: ticks since port_dir changed (capped)

lowlevel == <<state, wait_counter, last_dir, port_power, port_dir>>
weg == <<laufzeit, summe_laufzeit>>
zeiten == <<aus, ruhe>>
vars == <<lowlevel, command, up_event_counter, weg, soll_laufzeit, zeiten>>

Zustaende == {"STOP", "AUF_WAIT", "AUF", "STOP_WAIT_1", "AB_WAIT_1",
              "AB_WAIT_2", "AB", "STOP_WAIT_2", "STOP_WAIT_3",
              "DIR_CHANGE_WAIT_1", "DIR_CHANGE_WAIT_2", "DIR_CHANGE_WAIT_3"}
Befehle == {"READY", "STOP", "AUF", "AB", "DIR_CHANGE"}

(* The sentinel -1 of soll_laufzeit: no target. *)
KeinSoll == -1

(* Division of C: it rounds towards zero. *)
CDiv(a, b) == IF a >= 0 THEN a \div b ELSE -((-a) \div b)

min_laufzeit == -((Laufzeit * 5) \div 10)
max_laufzeit == (Laufzeit * 15) \div 10

is_in_group(g) == g = Taster \/ g \in Gruppen

get_position ==
  LET pos == CDiv(100 * laufzeit, Laufzeit) + 1
  IN  IF pos < 0 THEN 0 ELSE IF pos > 100 THEN 100 ELSE pos

define_position(pos) ==
  LET lz == ((pos + 1) * Laufzeit) \div 100
  IN  IF lz > Laufzeit THEN Laufzeit ELSE lz

soll_laufzeit_zu(prozent) ==
  CASE prozent = 0   -> min_laufzeit
    [] prozent = 100 -> max_laufzeit
    [] OTHER         -> (Laufzeit * prozent) \div 100

(* Mutant: the upper limit is forgotten. *)
MutAlignNurUnten(lz) == IF lz < 0 THEN 0 ELSE lz

laufzeit_align(lz) ==
  IF lz < 0 THEN 0 ELSE IF lz > Laufzeit THEN Laufzeit ELSE lz

(* rolladen_init sets everything but the pins, which are the board's.      *)
Init == /\ summe_laufzeit = 0
        /\ laufzeit = Laufzeit
        /\ soll_laufzeit = KeinSoll
        /\ command = "READY"
        /\ state = "STOP"
        /\ wait_counter = 6
        /\ last_dir = "AB"
        /\ up_event_counter = -1
        /\ port_power = 0
        /\ port_dir = 0
        /\ aus = DirPause
        /\ ruhe = PowerPause

-----------------------------------------------------------------------------
(* The frames: rolladen_can_callback.  Frames that do not concern this     *)
(* shutter, and position requests, which only send an answer, change       *)
(* nothing.                                                                *)

(* The button starts the shutter against its last direction or stops it;   *)
(* in a wait state it only arms the counter.                               *)
TasterDown(g) ==
  /\ g = Taster
  /\ \/ /\ state = "STOP"
        /\ command' = IF last_dir = "AUF" THEN "AB" ELSE "AUF"
        /\ soll_laufzeit' = KeinSoll
     \/ /\ state \in {"AUF", "AB"}
        /\ command' = "STOP"
        /\ soll_laufzeit' = KeinSoll
     \/ /\ state \notin {"STOP", "AUF", "AB"}
        /\ UNCHANGED <<command, soll_laufzeit>>
  /\ up_event_counter' = 7
  /\ UNCHANGED <<lowlevel, weg, zeiten>>

TasterUp(g) ==
  /\ g = Taster
  /\ up_event_counter' = -1
  /\ UNCHANGED <<lowlevel, command, weg, soll_laufzeit, zeiten>>

(* 200 and 201 come from a pair of buttons: fully down, fully up.          *)
SollPos(d3) == CASE d3 = 200 -> 0 [] d3 = 201 -> 100 [] OTHER -> d3

PositionSet(g, d3) ==
  /\ is_in_group(g)
  /\ \/ /\ state = "STOP"
        /\ \/ /\ get_position < SollPos(d3)
              /\ command' = "AUF"
              /\ soll_laufzeit' = soll_laufzeit_zu(SollPos(d3))
           \/ /\ get_position > SollPos(d3) + 1
              /\ command' = "AB"
              /\ soll_laufzeit' = soll_laufzeit_zu(SollPos(d3))
           \/ /\ get_position \in {SollPos(d3), SollPos(d3) + 1}
              /\ soll_laufzeit' = KeinSoll
              /\ UNCHANGED command
     \/ /\ state \in {"AUF", "AB"}
        /\ d3 >= 200
        /\ command' = "STOP"
        /\ soll_laufzeit' = KeinSoll
  /\ UNCHANGED <<lowlevel, up_event_counter, weg, zeiten>>

DefinePosition(g, d3) ==
  /\ is_in_group(g)
  /\ laufzeit' = define_position(d3)
  /\ UNCHANGED <<lowlevel, command, up_event_counter, soll_laufzeit,
                 summe_laufzeit, zeiten>>

-----------------------------------------------------------------------------
(* The 100 ms timer: rolladen_lowlevel_timer_handler.                      *)

(* Mutants: the wait is skipped, or the counter is never decremented. *)
MutGewartetNull == 0
MutGewartetNie == wait_counter

gewartet == IF wait_counter > 0 THEN wait_counter - 1 ELSE 0

(* A transition of the switch over lowlevel_state: next state, wait time   *)
(* to load, levels of the two pins.                                        *)
Nach(s, wait, power, dir) ==
  /\ state' = s
  /\ wait_counter' = wait
  /\ port_power' = power
  /\ port_dir' = dir

(* Transitions at the end of a wait; the pending command c stays.          *)
WarteEnde(c) ==
  /\ gewartet = 0
  /\ c = command
  /\ \/ /\ state = "AUF_WAIT"
        /\ Nach("AUF", 0, port_power, port_dir)
        /\ last_dir' = "AUF"
     \/ /\ state = "AB_WAIT_1"
        /\ Nach("AB_WAIT_2", 3, 1, port_dir)
        /\ UNCHANGED last_dir
     \/ /\ state = "AB_WAIT_2"
        /\ Nach("AB", 0, port_power, port_dir)
        /\ last_dir' = "AB"
     \/ /\ state = "STOP_WAIT_2"
        /\ Nach("STOP_WAIT_3", 3, port_power, 0)
        /\ UNCHANGED last_dir
     \/ /\ state \in {"STOP_WAIT_1", "STOP_WAIT_3"}
        /\ Nach("STOP", 0, port_power, port_dir)
        /\ UNCHANGED last_dir
     \/ /\ state = "DIR_CHANGE_WAIT_1"
        /\ Nach("AB_WAIT_1", 3, port_power, 1)
        /\ UNCHANGED last_dir
     \/ /\ state = "DIR_CHANGE_WAIT_2"
        /\ Nach("DIR_CHANGE_WAIT_3", 3, port_power, 0)
        /\ UNCHANGED last_dir
     \/ /\ state = "DIR_CHANGE_WAIT_3"
        /\ Nach("AUF_WAIT", 3, 1, port_dir)
        /\ UNCHANGED last_dir

(* Mutant: the command stays pending after a state took it. *)
MutKommandoBleibt(c) ==
  /\ c = command
  /\ \/ /\ state = "STOP" /\ command = "AUF"
        /\ Nach("AUF_WAIT", 3, 1, port_dir)
     \/ /\ state = "AUF" /\ command = "STOP"
        /\ Nach("STOP_WAIT_1", 3, 0, port_dir)
  /\ UNCHANGED last_dir

(* Transitions that take the pending command.                              *)
Kommando(c) ==
  /\ c = "READY"
  /\ \/ /\ state = "STOP" /\ command = "AUF"
        /\ Nach("AUF_WAIT", 3, 1, port_dir)
     \/ /\ state = "STOP" /\ command = "AB"
        /\ Nach("AB_WAIT_1", 2, port_power, 1)
     \/ /\ state = "AUF" /\ command = "STOP"
        /\ Nach("STOP_WAIT_1", 3, 0, port_dir)
     \/ /\ state = "AUF" /\ command = "DIR_CHANGE"
        /\ Nach("DIR_CHANGE_WAIT_1", 6, 0, port_dir)
     \/ /\ state = "AB" /\ command = "STOP"
        /\ Nach("STOP_WAIT_2", 6, 0, port_dir)
     \/ /\ state = "AB" /\ command = "DIR_CHANGE"
        /\ Nach("DIR_CHANGE_WAIT_2", 6, 0, port_dir)
  /\ UNCHANGED last_dir

(* At standstill a change of direction becomes a start for the next tick.  *)
Gegenrichtung(c) ==
  /\ state = "STOP" /\ command = "DIR_CHANGE"
  /\ c = IF last_dir = "AB" THEN "AUF" ELSE "AB"
  /\ Nach(state, gewartet, port_power, port_dir)
  /\ UNCHANGED last_dir

(* Neither the wait is over nor a command concerns this state.             *)
Bleibt(c) ==
  /\ \/ state = "STOP" /\ command \notin {"AUF", "AB", "DIR_CHANGE"}
     \/ state \in {"AUF", "AB"} /\ command \notin {"STOP", "DIR_CHANGE"}
     \/ state \notin {"STOP", "AUF", "AB"} /\ gewartet > 0
  /\ c = command
  /\ Nach(state, gewartet, port_power, port_dir)
  /\ UNCHANGED last_dir

(* The switch; it leaves the command c pending.                            *)
lowlevel_switch(c) ==
  WarteEnde(c) \/ Kommando(c) \/ Gegenrichtung(c) \/ Bleibt(c)

(* Without a TASTER_UP within 0.7 s the shutter changes its direction.     *)
hilevel(c) ==
  /\ up_event_counter' = IF up_event_counter > 0 THEN up_event_counter - 1
                         ELSE up_event_counter
  /\ command' = IF up_event_counter = 1 THEN "DIR_CHANGE" ELSE c

zaehlt_auf == state \in {"AUF_WAIT", "AUF"}
zaehlt_ab  == state \in {"AB_WAIT_1", "AB_WAIT_2", "AB"}

(* No way is counted; a shutter that comes to a stop is aligned.           *)
steht(c) ==
  /\ ~(zaehlt_auf' \/ zaehlt_ab')
  /\ laufzeit' = IF state # "STOP" /\ state' = "STOP"
                 THEN laufzeit_align(laufzeit) ELSE laufzeit
  /\ UNCHANGED <<summe_laufzeit, soll_laufzeit>>
  /\ hilevel(c)

(* summe_laufzeit is only compared with max_rekalib, so it stops there.    *)
summe == IF summe_laufzeit < MaxRekalib THEN summe_laufzeit + 1 ELSE MaxRekalib

(* The end position is reached: below max_rekalib the counted one, from    *)
(* there on half a way further, where the shutter is certainly at its stop *)
(* and the count can be calibrated.                                        *)
rekalib == ~(summe < MaxRekalib)
oben(lz)  == IF rekalib THEN lz > max_laufzeit ELSE lz >= Laufzeit
unten(lz) == IF rekalib THEN lz < min_laufzeit ELSE lz <= 0

(* One tick of the way: the target, then the end switch, which returns     *)
(* from the handler and so skips the button counter.                       *)
strecke(c, lz, erreicht, ende, endwert) ==
  /\ soll_laufzeit' = IF erreicht THEN KeinSoll ELSE soll_laufzeit
  /\ \/ /\ ende
        /\ laufzeit' = IF rekalib THEN endwert ELSE lz
        /\ summe_laufzeit' = IF rekalib THEN 0 ELSE summe
        /\ command' = "STOP"
        /\ UNCHANGED up_event_counter
     \/ /\ ~ende
        /\ laufzeit' = lz
        /\ summe_laufzeit' = summe
        /\ hilevel(IF erreicht THEN "STOP" ELSE c)

streckeAuf(c) ==
  /\ zaehlt_auf'
  /\ strecke(c, laufzeit + 1,
             soll_laufzeit # KeinSoll /\ laufzeit + 1 >= soll_laufzeit,
             oben(laufzeit + 1), Laufzeit)

streckeAb(c) ==
  /\ zaehlt_ab'
  /\ strecke(c, laufzeit - 1,
             soll_laufzeit # KeinSoll /\ laufzeit - 1 <= soll_laufzeit,
             unten(laufzeit - 1), 0)

timer_handler ==
  \E c \in Befehle : lowlevel_switch(c) /\ (steht(c) \/ streckeAuf(c) \/ streckeAb(c))

Saettigung(n, cap) == IF n >= cap THEN cap ELSE n

Timer ==
  /\ timer_handler
  /\ aus' = IF port_power' = 1 \/ port_power = 1 THEN 0
            ELSE Saettigung(aus + 1, DirPause)
  /\ ruhe' = IF port_dir' # port_dir THEN 0
             ELSE Saettigung(ruhe + 1, PowerPause)

(* Mutants: the reload forgets the pending command, or the position. *)
MutReloadBefehlBleibt ==
  /\ summe_laufzeit' = 0
  /\ laufzeit' = Laufzeit
  /\ soll_laufzeit' = KeinSoll
  /\ Nach("STOP", 6, port_power, port_dir)
  /\ last_dir' = "AB"
  /\ up_event_counter' = -1
  /\ UNCHANGED <<command, zeiten>>
MutReloadWegBleibt ==
  /\ soll_laufzeit' = KeinSoll
  /\ command' = "READY"
  /\ Nach("STOP", 6, port_power, port_dir)
  /\ last_dir' = "AB"
  /\ up_event_counter' = -1
  /\ UNCHANGED <<weg, zeiten>>

(* HES_CONFIG_RELOAD: devices_load_config zeroes the device data and calls *)
(* rolladen_init; the output pins keep their level.                        *)
ConfigReload ==
  /\ summe_laufzeit' = 0
  /\ laufzeit' = Laufzeit
  /\ soll_laufzeit' = KeinSoll
  /\ command' = "READY"
  /\ Nach("STOP", 6, port_power, port_dir)
  /\ last_dir' = "AB"
  /\ up_event_counter' = -1
  /\ UNCHANGED zeiten

-----------------------------------------------------------------------------
Frame == \E g \in Busgruppen :
           \/ TasterDown(g)
           \/ TasterUp(g)
           \/ \E d3 \in SetPositionen : PositionSet(g, d3)
           \/ \E d3 \in DefPositionen : DefinePosition(g, d3)

Next == Timer \/ Frame

(* The life of a shutter between two loads of its configuration.           *)
Spec == Init /\ [][Next]_vars

(* The timer flags are polled by the idle handler of a main loop that      *)
(* never blocks for good.                                                  *)
FairSpec == Spec /\ WF_vars(Timer)

SpecReload == Init /\ [][Next \/ ConfigReload]_vars
-----------------------------------------------------------------------------
(***************************************************************************)
(* Properties                                                              *)
(***************************************************************************)

(* The fields keep their ranges; the wait counter never exceeds the six    *)
(* ticks rolladen.c loads, the button counter its seven.                   *)
TypeOK ==
  /\ state \in Zustaende
  /\ command \in Befehle
  /\ wait_counter \in 0..6
  /\ last_dir \in {"AUF", "AB"}
  /\ up_event_counter \in (-1)..7
  /\ laufzeit \in Int
  /\ soll_laufzeit \in Int
  /\ summe_laufzeit \in 0..MaxRekalib
  /\ port_power \in {0, 1}
  /\ port_dir \in {0, 1}
  /\ aus \in 0..DirPause
  /\ ruhe \in 0..PowerPause

(* The detailed state machine only ever switches the relays the way        *)
(* Motorrelais allows: direction without power and after DirPause ticks,   *)
(* power PowerPause ticks after a direction change (rolladen.c:383-525).   *)
Relais == INSTANCE Motorrelais WITH power <- port_power, dir <- port_dir
SchontRelais == Relais!Spec

(* A command meets a state that consumes it: STOP is pending only while    *)
(* the way is counted, AUF and AB only at standstill.  A STOP left over in *)
(* another state would end the next journey at once.                       *)
BefehlPasst ==
  /\ command = "STOP" => zaehlt_auf \/ zaehlt_ab
  /\ command \in {"AUF", "AB"} => state = "STOP"

(* Whatever the journeys, stops, reversals and definitions before it, a    *)
(* standing shutter has a position between bottom and top, and a moving    *)
(* one is never counted beyond the calibration way, although the wait      *)
(* states cannot be stopped in.  (For a way of at least 14 ticks.)         *)
PositionInGrenzen ==
  /\ state = "STOP" => laufzeit \in 0..Laufzeit
  /\ laufzeit \in min_laufzeit..max_laufzeit

(* A motor that runs stops again: end switches, target or button, but      *)
(* never a motor left under power (endabschaltung, rolladen.c:545-604).    *)
(* It needs an installation whose position nobody redefines for ever.  And *)
(* a start command that was accepted reaches the motor.                    *)
FaehrtUndSteht ==
  /\ (state = "STOP" /\ command \in {"AUF", "AB"}) ~> (port_power = 1)
  /\ <>[][\A g \in Busgruppen, d3 \in DefPositionen : ~DefinePosition(g, d3)]_vars
       => ((port_power = 1) ~> (port_power = 0))

(* rolladen.c:38: the direction relay may switch 500 ms after standstill   *)
(* at the earliest.                                                        *)
DirNach500ms == [][port_dir' # port_dir => aus + 1 >= 5]_vars

(* The same rule without its figure: the direction relay never switches    *)
(* under load, a reload of the configuration included.                     *)
DirNurStromlos ==
  [][port_dir' # port_dir => port_power = 0 /\ port_power' = 0]_vars

(* rolladen.c:106: a button pressed while the shutter moves deactivates    *)
(* the target.                                                             *)
ManuellHatVorrang ==
  [][(\E g \in Busgruppen : TasterDown(g)) /\ port_power = 1
       => soll_laufzeit' = KeinSoll]_vars

(* rolladen.c:126: the shutter waits after rolladen_init; the counter it   *)
(* loads is the time left before the first start.                          *)
InitialWarten ==
  [][state = "STOP" /\ state' # "STOP" => wait_counter <= 1]_vars

(* rolladen.c:576: while the way down is counted the shutter is moving.    *)
ZaehltNurFahrt == zaehlt_ab => port_power = 1
=============================================================================
