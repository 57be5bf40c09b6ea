---------------------------- MODULE RelaisProofs ----------------------------
(***************************************************************************)
(* Proofs about the two devices that switch a relay under load.  Rolladen, *)
(* for every running time, calibration threshold, group set and frame      *)
(* content: type correctness, that commands meet a state that takes them,  *)
(* that the state machine implements Motorrelais, and that the counted     *)
(* position stays between the ends.  Usv, for every choice of the times:   *)
(* types, that the relay never chatters, and that the supply waits before  *)
(* it returns to the grid.                                                 *)
(***************************************************************************)
EXTENDS Rolladen, Usv, TLAPS

(* The constants derived from Laufzeit are integers. *)
LEMMA GrenzenInt == min_laufzeit \in Int /\ max_laufzeit \in Int
  BY RolladenAssumption DEF min_laufzeit, max_laufzeit

(* The target of a position command is an integer. *)
LEMMA SollInt ==
  ASSUME NEW d3 \in Nat PROVE soll_laufzeit_zu(SollPos(d3)) \in Int
<1>1. SollPos(d3) \in Nat
  BY DEF SollPos
<1>2. QED
  BY <1>1, RolladenAssumption, GrenzenInt DEF soll_laufzeit_zu

(* A defined position is an integer. *)
LEMMA DefineInt == ASSUME NEW d3 \in Nat PROVE define_position(d3) \in Int
  BY RolladenAssumption DEF define_position

-----------------------------------------------------------------------------
(* Frames and the switch of the timer handler keep the types.              *)
LEMMA FrameTyp == TypeOK /\ Frame => TypeOK'
<1> SUFFICES ASSUME TypeOK, NEW g \in Busgruppen,
                    \/ TasterDown(g)
                    \/ TasterUp(g)
                    \/ \E d3 \in SetPositionen : PositionSet(g, d3)
                    \/ \E d3 \in DefPositionen : DefinePosition(g, d3)
             PROVE  TypeOK'
  BY DEF Frame
<1> USE DEF TypeOK, lowlevel, weg, zeiten, Befehle, KeinSoll
<1>1. CASE TasterDown(g)
  BY <1>1 DEF TasterDown
<1>2. CASE TasterUp(g)
  BY <1>2 DEF TasterUp
<1>3. CASE \E d3 \in SetPositionen : PositionSet(g, d3)
  <2>1. PICK d3 \in SetPositionen : PositionSet(g, d3)
    BY <1>3
  <2>2. soll_laufzeit_zu(SollPos(d3)) \in Int
    BY RolladenAssumption, SollInt
  <2>3. QED
    BY <2>1, <2>2 DEF PositionSet
<1>4. CASE \E d3 \in DefPositionen : DefinePosition(g, d3)
  <2>1. PICK d3 \in DefPositionen : DefinePosition(g, d3)
    BY <1>4
  <2>2. define_position(d3) \in Int
    BY RolladenAssumption, DefineInt
  <2>3. QED
    BY <2>1, <2>2 DEF DefinePosition
<1>5. QED
  BY <1>1, <1>2, <1>3, <1>4

LowlevelTyp == /\ state \in Zustaende
               /\ wait_counter \in 0..6
               /\ last_dir \in {"AUF", "AB"}
               /\ port_power \in {0, 1}
               /\ port_dir \in {0, 1}

LEMMA SwitchTyp ==
  ASSUME TypeOK, NEW c \in Befehle, lowlevel_switch(c) PROVE LowlevelTyp'
<1> USE DEF TypeOK, LowlevelTyp, Nach, gewartet
<1>1. CASE WarteEnde(c)
  BY <1>1 DEF WarteEnde, Zustaende
<1>2. CASE Kommando(c)
  BY <1>2 DEF Kommando, Zustaende
<1>3. CASE Gegenrichtung(c)
  BY <1>3 DEF Gegenrichtung
<1>4. CASE Bleibt(c)
  BY <1>4 DEF Bleibt
<1>5. QED
  BY <1>1, <1>2, <1>3, <1>4 DEF lowlevel_switch

WegTyp == /\ command \in Befehle
          /\ up_event_counter \in (-1)..7
          /\ laufzeit \in Int
          /\ soll_laufzeit \in Int
          /\ summe_laufzeit \in 0..MaxRekalib

LEMMA HilevelTyp ==
  ASSUME TypeOK, NEW c \in Befehle, hilevel(c)
  PROVE  command' \in Befehle /\ up_event_counter' \in (-1)..7
  BY DEF TypeOK, hilevel, Befehle

LEMMA StreckeTyp ==
  ASSUME TypeOK, NEW c \in Befehle, NEW lz \in Int, NEW endwert \in Int,
         NEW erreicht, NEW ende,
         strecke(c, lz, erreicht, ende, endwert)
  PROVE  WegTyp'
<1>1. summe \in 0..MaxRekalib
  BY RolladenAssumption DEF TypeOK, summe
<1>2. (IF erreicht THEN "STOP" ELSE c) \in Befehle
  BY DEF Befehle
<1>3. CASE ende
  BY <1>1, <1>3, RolladenAssumption DEF strecke, TypeOK, WegTyp, KeinSoll, Befehle
<1>4. CASE ~ende
  BY <1>1, <1>2, <1>4, HilevelTyp DEF strecke, TypeOK, WegTyp, KeinSoll
<1>5. QED
  BY <1>3, <1>4

LEMMA TimerTyp == TypeOK /\ Timer => TypeOK'
<1> SUFFICES ASSUME TypeOK, Timer PROVE TypeOK'
  OBVIOUS
<1>1. PICK c \in Befehle : /\ lowlevel_switch(c)
                           /\ steht(c) \/ streckeAuf(c) \/ streckeAb(c)
  BY DEF Timer, timer_handler
<1>2. LowlevelTyp'
  BY <1>1, SwitchTyp
<1>3. WegTyp'
  <2>1. CASE steht(c)
    BY <2>1, HilevelTyp, RolladenAssumption
       DEF steht, TypeOK, WegTyp, laufzeit_align
  <2>2. CASE streckeAuf(c)
    <3> DEFINE erreicht == soll_laufzeit # KeinSoll
                             /\ laufzeit + 1 >= soll_laufzeit
               ende == oben(laufzeit + 1)
    <3>1. laufzeit + 1 \in Int /\ Laufzeit \in Int
      BY RolladenAssumption DEF TypeOK
    <3>2. strecke(c, laufzeit + 1, erreicht, ende, Laufzeit)
      BY <2>2 DEF streckeAuf
    <3> HIDE DEF erreicht, ende
    <3>3. QED
      BY <3>1, <3>2, StreckeTyp
  <2>3. CASE streckeAb(c)
    <3> DEFINE erreicht == soll_laufzeit # KeinSoll
                             /\ laufzeit - 1 <= soll_laufzeit
               ende == unten(laufzeit - 1)
    <3>1. laufzeit - 1 \in Int /\ 0 \in Int
      BY DEF TypeOK
    <3>2. strecke(c, laufzeit - 1, erreicht, ende, 0)
      BY <2>3 DEF streckeAb
    <3> HIDE DEF erreicht, ende
    <3>3. QED
      BY <3>1, <3>2, StreckeTyp
  <2>4. QED
    BY <1>1, <2>1, <2>2, <2>3
<1>4. aus' \in 0..DirPause /\ ruhe' \in 0..PowerPause
  BY RolladenAssumption DEF TypeOK, Timer, Saettigung
<1>5. QED
  BY <1>2, <1>3, <1>4 DEF TypeOK, LowlevelTyp, WegTyp

LEMMA ReloadTyp == TypeOK /\ ConfigReload => TypeOK'
  BY RolladenAssumption
  DEF TypeOK, ConfigReload, Nach, zeiten, KeinSoll, Befehle, Zustaende

LEMMA InitTyp == Init => TypeOK
  BY RolladenAssumption DEF Init, TypeOK, KeinSoll, Befehle, Zustaende

(* The fields keep their ranges through every frame and every run of the   *)
(* timer handler (rolladen.c:214-339, 383-617), a reload included.         *)
THEOREM TypKorrekt == SpecReload => []TypeOK
<1>1. TypeOK /\ [Next \/ ConfigReload]_vars => TypeOK'
  <2> SUFFICES ASSUME TypeOK, [Next \/ ConfigReload]_vars PROVE TypeOK'
    OBVIOUS
  <2>1. CASE Timer
    BY <2>1, TimerTyp
  <2>2. CASE Frame
    BY <2>2, FrameTyp
  <2>3. CASE ConfigReload
    BY <2>3, ReloadTyp
  <2>4. CASE UNCHANGED vars
    BY <2>4 DEF TypeOK, vars, lowlevel, weg, zeiten
  <2>5. QED
    BY <2>1, <2>2, <2>3, <2>4 DEF Next
<1>2. QED
  BY <1>1, InitTyp, PTL DEF SpecReload
-----------------------------------------------------------------------------
(* The strengthening for the relays: in every state the pins have one      *)
(* level, and the time already rested plus the wait still to come covers   *)
(* the pause the next switching needs.                                     *)
Pins ==
  /\ state \in {"AUF_WAIT", "AUF", "AB_WAIT_2", "AB"} <=> port_power = 1
  /\ state \in {"AB_WAIT_1", "AB_WAIT_2", "AB", "STOP_WAIT_2",
                "DIR_CHANGE_WAIT_2"} <=> port_dir = 1

DirRast ==
  /\ state \in {"STOP", "AB_WAIT_1", "STOP_WAIT_3"} => aus + 1 >= DirPause
  /\ state = "STOP_WAIT_1" => aus + wait_counter + 1 >= DirPause
  /\ state \in {"STOP_WAIT_2", "DIR_CHANGE_WAIT_1", "DIR_CHANGE_WAIT_2"}
       => aus + wait_counter >= DirPause

PowerRast ==
  /\ state \in {"STOP", "AUF_WAIT", "AUF", "AB_WAIT_2", "AB", "STOP_WAIT_1"}
       => ruhe + 1 >= PowerPause
  /\ state \in {"AB_WAIT_1", "STOP_WAIT_3", "DIR_CHANGE_WAIT_3"}
       => ruhe + wait_counter >= PowerPause

Rast == TypeOK /\ Pins /\ DirRast /\ PowerRast

(* The time observers after a run of the timer handler.                    *)
Uhr == /\ aus' = IF port_power' = 1 \/ port_power = 1 THEN 0
                 ELSE Saettigung(aus + 1, DirPause)
       /\ ruhe' = IF port_dir' # port_dir THEN 0
                  ELSE Saettigung(ruhe + 1, PowerPause)

LEMMA SwitchPins ==
  ASSUME Rast, NEW c \in Befehle, lowlevel_switch(c) PROVE Pins'
<1> USE DEF Rast, TypeOK, Zustaende, Pins, Nach
<1>1. CASE WarteEnde(c)
  BY <1>1 DEF WarteEnde
<1>2. CASE Kommando(c)
  BY <1>2 DEF Kommando
<1>3. CASE Gegenrichtung(c)
  BY <1>3 DEF Gegenrichtung
<1>4. CASE Bleibt(c)
  BY <1>4 DEF Bleibt
<1>5. QED
  BY <1>1, <1>2, <1>3, <1>4 DEF lowlevel_switch

LEMMA SwitchRast ==
  ASSUME DirPause <= 4, PowerPause <= 2,
         Rast, NEW c \in Befehle, lowlevel_switch(c), Uhr
  PROVE  DirRast' /\ PowerRast'
<1> USE RolladenAssumption DEF Rast, TypeOK, Zustaende, Pins, DirRast, PowerRast,
        Nach, gewartet, Uhr, Saettigung
<1>1. CASE WarteEnde(c)
  BY <1>1 DEF WarteEnde
<1>2. CASE Kommando(c)
  BY <1>2 DEF Kommando
<1>3. CASE Gegenrichtung(c)
  BY <1>3 DEF Gegenrichtung
<1>4. CASE Bleibt(c)
  BY <1>4 DEF Bleibt
<1>5. QED
  BY <1>1, <1>2, <1>3, <1>4 DEF lowlevel_switch

(* Every run of the switch is one of the steps Motorrelais allows.         *)
LEMMA SwitchRelais ==
  ASSUME DirPause <= 4, PowerPause <= 2,
         Rast, NEW c \in Befehle, lowlevel_switch(c), Uhr
  PROVE  Relais!Next
<1> USE RolladenAssumption DEF Rast, TypeOK, Zustaende, Pins, DirRast, PowerRast,
        Nach, gewartet, Uhr, Saettigung, Relais!Next, Relais!Warten,
        Relais!Einschalten, Relais!Ausschalten, Relais!Umschalten,
        Relais!Saettigung
<1>1. CASE WarteEnde(c)
  BY <1>1 DEF WarteEnde
<1>2. CASE Kommando(c)
  BY <1>2 DEF Kommando
<1>3. CASE Gegenrichtung(c)
  BY <1>3 DEF Gegenrichtung
<1>4. CASE Bleibt(c)
  BY <1>4 DEF Bleibt
<1>5. QED
  BY <1>1, <1>2, <1>3, <1>4 DEF lowlevel_switch

(* A frame touches neither the state machine nor the pins.                 *)
LEMMA FrameLowlevel == Frame => UNCHANGED <<lowlevel, zeiten>>
  BY DEF Frame, TasterDown, TasterUp, PositionSet, DefinePosition,
         lowlevel, zeiten

(* For pauses of up to 400 ms before a direction change and up to 200 ms   *)
(* before power, the state machine implements Motorrelais: it never        *)
(* switches the direction under load nor either relay too early            *)
(* (rolladen.c:383-525), whatever frames arrive and whenever they do.      *)
THEOREM RelaisGeschont ==
  ASSUME DirPause <= 4, PowerPause <= 2 PROVE Spec => SchontRelais
<1>1. Init => Rast
  BY InitTyp, RolladenAssumption DEF Init, Rast, Pins, DirRast, PowerRast
<1>2. Rast /\ [Next]_vars => Rast' /\ [Relais!Next]_(Relais!relais)
  <2> SUFFICES ASSUME Rast, [Next]_vars
               PROVE  Rast' /\ [Relais!Next]_(Relais!relais)
    OBVIOUS
  <2>1. CASE Timer
    <3>1. PICK c \in Befehle : lowlevel_switch(c)
      BY <2>1 DEF Timer, timer_handler
    <3>2. Uhr
      BY <2>1 DEF Timer, Uhr
    <3>3. TypeOK'
      BY <2>1, TimerTyp DEF Rast
    <3>4. QED
      BY <3>1, <3>2, <3>3, SwitchPins, SwitchRast, SwitchRelais DEF Rast
  <2>2. CASE Frame
    BY <2>2, FrameTyp, FrameLowlevel
       DEF Rast, Pins, DirRast, PowerRast, lowlevel, zeiten, Relais!relais
  <2>3. CASE UNCHANGED vars
    BY <2>3 DEF Rast, TypeOK, Pins, DirRast, PowerRast, vars, lowlevel, weg,
                zeiten, Relais!relais
  <2>4. QED
    BY <2>1, <2>2, <2>3 DEF Next
<1>3. Init => Relais!Init
  BY DEF Init, Relais!Init
<1>4. QED
  BY <1>1, <1>2, <1>3, PTL DEF Spec, SchontRelais, Relais!Spec
-----------------------------------------------------------------------------
(* The command the switch leaves pending fits the state it leads to.       *)
LEMMA SwitchBefehl ==
  ASSUME TypeOK, BefehlPasst, NEW c \in Befehle, lowlevel_switch(c)
  PROVE  /\ c = "STOP" => (zaehlt_auf \/ zaehlt_ab)'
         /\ c \in {"AUF", "AB"} => state' = "STOP"
<1> USE DEF TypeOK, BefehlPasst, zaehlt_auf, zaehlt_ab, Nach, Befehle
<1>1. CASE WarteEnde(c)
  BY <1>1 DEF WarteEnde
<1>2. CASE Kommando(c)
  BY <1>2 DEF Kommando
<1>3. CASE Gegenrichtung(c)
  BY <1>3 DEF Gegenrichtung
<1>4. CASE Bleibt(c)
  BY <1>4 DEF Bleibt
<1>5. QED
  BY <1>1, <1>2, <1>3, <1>4 DEF lowlevel_switch

(* Counting adds only a STOP, and only while the way is counted.           *)
LEMMA StreckeBefehl ==
  ASSUME NEW c, steht(c) \/ streckeAuf(c) \/ streckeAb(c)
  PROVE  \/ command' = "STOP" /\ (zaehlt_auf \/ zaehlt_ab)'
         \/ command' = "DIR_CHANGE"
         \/ command' = c
  BY DEF steht, streckeAuf, streckeAb, strecke, hilevel

(* No command is ever left over in a state that does not consume it, a     *)
(* reload of the configuration at any moment included (rolladen.c:227-310, *)
(* 391-481, 538-604).                                                      *)
THEOREM BefehlPasstImmer == SpecReload => []BefehlPasst
<1>1. Init => BefehlPasst
  BY DEF Init, BefehlPasst
<1>2. TypeOK /\ BefehlPasst /\ [Next \/ ConfigReload]_vars => BefehlPasst'
  <2> SUFFICES ASSUME TypeOK, BefehlPasst, [Next \/ ConfigReload]_vars
               PROVE  BefehlPasst'
    OBVIOUS
  <2>1. CASE Timer
    <3>1. PICK c \in Befehle : /\ lowlevel_switch(c)
                               /\ steht(c) \/ streckeAuf(c) \/ streckeAb(c)
      BY <2>1 DEF Timer, timer_handler
    <3>2. QED
      BY <3>1, SwitchBefehl, StreckeBefehl DEF BefehlPasst
  <2>2. CASE Frame
    BY <2>2 DEF Frame, TasterDown, TasterUp, PositionSet, DefinePosition,
                BefehlPasst, zaehlt_auf, zaehlt_ab, lowlevel
  <2>3. CASE ConfigReload
    BY <2>3 DEF ConfigReload, BefehlPasst
  <2>4. CASE UNCHANGED vars
    BY <2>4 DEF BefehlPasst, zaehlt_auf, zaehlt_ab, vars, lowlevel
  <2>5. QED
    BY <2>1, <2>2, <2>3, <2>4 DEF Next
<1>3. QED
  BY <1>1, <1>2, TypKorrekt, PTL DEF SpecReload
-----------------------------------------------------------------------------
(* The strengthening for the position.  While the way since the last       *)
(* calibration is below max_rekalib, a count beyond an end comes with a    *)
(* pending STOP, and the part of the way that no STOP can shorten is what  *)
(* the wait states still have to count: four ticks up, seven ticks down    *)
(* (three of AB_WAIT_1 after a reversal, three of AB_WAIT_2, one of AB).   *)
Wartet == state \in {"AUF_WAIT", "AB_WAIT_1", "AB_WAIT_2"}
            => wait_counter \in 1..3

UeberOben ==
  /\ zaehlt_auf => laufzeit >= 0
  /\ zaehlt_auf /\ laufzeit > Laufzeit => command = "STOP"
  /\ \A w \in 1..3 : state = "AUF_WAIT" /\ wait_counter = w
                       => laufzeit <= Laufzeit + 4 - w
  /\ state = "AUF" => laufzeit <= Laufzeit + 4

UeberUnten ==
  /\ zaehlt_ab => laufzeit <= Laufzeit
  /\ zaehlt_ab /\ laufzeit < 0 => command = "STOP"
  /\ \A w \in 1..3 : state = "AB_WAIT_1" /\ wait_counter = w
                       => laufzeit >= w - 4
  /\ \A w \in 1..3 : state = "AB_WAIT_2" /\ wait_counter = w
                       => laufzeit >= w - 7
  /\ state = "AB" => laufzeit >= -7

Umkehr == state \in {"DIR_CHANGE_WAIT_1", "DIR_CHANGE_WAIT_2",
                     "DIR_CHANGE_WAIT_3"} => laufzeit \in 0..Laufzeit

Ueberlauf == summe_laufzeit < MaxRekalib => UeberOben /\ UeberUnten /\ Umkehr

Weg == TypeOK /\ Wartet /\ PositionInGrenzen /\ Ueberlauf

(* From 14 ticks on, the calibration way is longer than any overrun.       *)
LEMMA GrenzenWeit ==
  ASSUME Laufzeit >= 14
  PROVE  /\ min_laufzeit \in Int /\ min_laufzeit <= -7
         /\ max_laufzeit \in Int /\ max_laufzeit >= Laufzeit + 7
  BY RolladenAssumption DEF min_laufzeit, max_laufzeit

(* A position defined from outside lies between bottom and top.            *)
LEMMA DefineGrenzen ==
  ASSUME NEW d3 \in Nat PROVE define_position(d3) \in 0..Laufzeit
<1>1. (d3 + 1) * Laufzeit \in Nat
  BY RolladenAssumption
<1>2. ((d3 + 1) * Laufzeit) \div 100 \in Nat
  BY <1>1
<1>3. QED
  BY <1>2, RolladenAssumption DEF define_position

(* How the switch reaches a state that counts upwards.                     *)
LEMMA SwitchAuf ==
  ASSUME TypeOK, NEW c \in Befehle, lowlevel_switch(c), zaehlt_auf'
  PROVE  \/ /\ state \in {"STOP", "DIR_CHANGE_WAIT_3"}
            /\ state' = "AUF_WAIT" /\ wait_counter' = 3
         \/ /\ state = "AUF_WAIT" /\ state' = "AUF_WAIT" /\ c = command
            /\ wait_counter' = wait_counter - 1 /\ wait_counter' >= 1
         \/ /\ state = "AUF_WAIT" /\ state' = "AUF" /\ c = command
            /\ wait_counter <= 1 /\ wait_counter' = 0
         \/ /\ state = "AUF" /\ state' = "AUF"
            /\ c = command /\ command # "STOP"
<1> USE DEF TypeOK, zaehlt_auf, Nach, gewartet
<1>1. CASE WarteEnde(c)
  BY <1>1 DEF WarteEnde
<1>2. CASE Kommando(c)
  BY <1>2 DEF Kommando
<1>3. CASE Gegenrichtung(c)
  BY <1>3 DEF Gegenrichtung
<1>4. CASE Bleibt(c)
  BY <1>4 DEF Bleibt
<1>5. QED
  BY <1>1, <1>2, <1>3, <1>4 DEF lowlevel_switch

(* How the switch reaches a state that counts downwards.                   *)
LEMMA SwitchAb ==
  ASSUME TypeOK, NEW c \in Befehle, lowlevel_switch(c), zaehlt_ab'
  PROVE  \/ /\ state \in {"STOP", "DIR_CHANGE_WAIT_1"}
            /\ state' = "AB_WAIT_1" /\ wait_counter' \in {2, 3}
         \/ /\ state = "AB_WAIT_1" /\ state' = "AB_WAIT_1" /\ c = command
            /\ wait_counter' = wait_counter - 1 /\ wait_counter' >= 1
         \/ /\ state = "AB_WAIT_1" /\ state' = "AB_WAIT_2" /\ c = command
            /\ wait_counter <= 1 /\ wait_counter' = 3
         \/ /\ state = "AB_WAIT_2" /\ state' = "AB_WAIT_2" /\ c = command
            /\ wait_counter' = wait_counter - 1 /\ wait_counter' >= 1
         \/ /\ state = "AB_WAIT_2" /\ state' = "AB" /\ c = command
            /\ wait_counter <= 1 /\ wait_counter' = 0
         \/ /\ state = "AB" /\ state' = "AB"
            /\ c = command /\ command # "STOP"
<1> USE DEF TypeOK, zaehlt_ab, Nach, gewartet
<1>1. CASE WarteEnde(c)
  BY <1>1 DEF WarteEnde
<1>2. CASE Kommando(c)
  BY <1>2 DEF Kommando
<1>3. CASE Gegenrichtung(c)
  BY <1>3 DEF Gegenrichtung
<1>4. CASE Bleibt(c)
  BY <1>4 DEF Bleibt
<1>5. QED
  BY <1>1, <1>2, <1>3, <1>4 DEF lowlevel_switch

(* A reversal starts from a state that counts, and only without a pending  *)
(* STOP; a standing shutter starts with its position between the ends.     *)
LEMMA SwitchUmkehr ==
  ASSUME TypeOK, NEW c \in Befehle, lowlevel_switch(c),
         state' \in {"DIR_CHANGE_WAIT_1", "DIR_CHANGE_WAIT_2",
                     "DIR_CHANGE_WAIT_3"}
  PROVE  \/ state \in {"DIR_CHANGE_WAIT_1", "DIR_CHANGE_WAIT_2",
                       "DIR_CHANGE_WAIT_3"}
         \/ state \in {"AUF", "AB"} /\ command # "STOP"
<1> USE DEF TypeOK, Nach
<1>1. CASE WarteEnde(c)
  BY <1>1 DEF WarteEnde
<1>2. CASE Kommando(c)
  BY <1>2 DEF Kommando
<1>3. CASE Gegenrichtung(c)
  BY <1>3 DEF Gegenrichtung
<1>4. CASE Bleibt(c)
  BY <1>4 DEF Bleibt
<1>5. QED
  BY <1>1, <1>2, <1>3, <1>4 DEF lowlevel_switch

LEMMA AufWeg ==
  ASSUME Laufzeit >= 14, Weg, TypeOK', NEW c \in Befehle,
         lowlevel_switch(c), streckeAuf(c)
  PROVE  Weg'
<1>0. /\ Laufzeit \in Int /\ MaxRekalib \in Int /\ Laufzeit >= 14
      /\ min_laufzeit \in Int /\ min_laufzeit <= -7
      /\ max_laufzeit \in Int /\ max_laufzeit >= Laufzeit + 7
      /\ laufzeit \in Int /\ wait_counter \in Int /\ summe_laufzeit \in Int
      /\ laufzeit' \in Int /\ wait_counter' \in Int /\ summe_laufzeit' \in Int
  BY RolladenAssumption, GrenzenWeit DEF Weg, TypeOK
<1> USE <1>0 DEF Weg
<1>1. zaehlt_auf' /\ ~zaehlt_ab' /\ state' # "STOP" /\ Umkehr'
  BY DEF streckeAuf, zaehlt_auf, zaehlt_ab, Umkehr
<1>2. Wartet'
  BY <1>1, SwitchAuf DEF Wartet, zaehlt_auf
<1>3. CASE rekalib
  <2>1. CASE oben(laufzeit + 1)
    <3>1. laufzeit' = Laufzeit /\ command' = "STOP"
      BY <1>3, <2>1 DEF streckeAuf, strecke
    <3>2. PositionInGrenzen'
      BY <3>1 DEF PositionInGrenzen
    <3>3. UeberOben'
      BY <1>2, <3>1 DEF UeberOben, Wartet
    <3>4. UeberUnten'
      BY <1>1 DEF UeberUnten, zaehlt_ab
    <3>5. QED
      BY <1>1, <1>2, <3>2, <3>3, <3>4 DEF Ueberlauf
  <2>2. CASE ~oben(laufzeit + 1)
    <3>1. laufzeit' = laufzeit + 1 /\ laufzeit + 1 <= max_laufzeit
      BY <1>3, <2>2 DEF streckeAuf, strecke, oben
    <3>2. ~(summe_laufzeit' < MaxRekalib)
      BY <1>3, <2>2 DEF streckeAuf, strecke, rekalib
    <3>3. QED
      BY <1>1, <1>2, <3>1, <3>2 DEF PositionInGrenzen, Ueberlauf
  <2>3. QED
    BY <2>1, <2>2
<1>4. CASE ~rekalib
  <2>1. summe_laufzeit < MaxRekalib
    BY <1>4 DEF rekalib, summe
  <2>2. laufzeit' = laufzeit + 1 /\ (laufzeit + 1 >= Laufzeit => command' = "STOP")
    BY <1>4 DEF streckeAuf, strecke, oben
  <2>3. /\ laufzeit' >= 0
        /\ \A w \in 1..3 : state' = "AUF_WAIT" /\ wait_counter' = w
                             => laufzeit' <= Laufzeit + 4 - w
        /\ state' = "AUF" => laufzeit' <= Laufzeit + 4
    <3>1. CASE state \in {"STOP", "DIR_CHANGE_WAIT_3"}
      <4>1. laufzeit \in 0..Laufzeit
        BY <2>1, <3>1 DEF PositionInGrenzen, Ueberlauf, Umkehr
      <4>2. state' = "AUF_WAIT" /\ wait_counter' = 3
        BY <1>1, <3>1, SwitchAuf
      <4>3. QED
        BY <2>2, <4>1, <4>2
    <3>2. CASE state = "AUF_WAIT"
      <4>1. laufzeit >= 0 /\ laufzeit + wait_counter <= Laufzeit + 4
        BY <2>1, <3>2 DEF Ueberlauf, UeberOben, zaehlt_auf, Wartet
      <4>2. wait_counter \in 1..3
        BY <3>2 DEF Wartet
      <4>3. \/ state' = "AUF_WAIT" /\ wait_counter' = wait_counter - 1
            \/ state' = "AUF"
        BY <1>1, <3>2, SwitchAuf
      <4>4. QED
        BY <2>2, <4>1, <4>2, <4>3
    <3>3. CASE state = "AUF"
      <4>1. laufzeit >= 0 /\ (laufzeit > Laufzeit => command = "STOP")
        BY <2>1, <3>3 DEF Ueberlauf, UeberOben, zaehlt_auf
      <4>2. state' = "AUF" /\ command # "STOP"
        BY <1>1, <3>3, SwitchAuf
      <4>3. QED
        BY <2>2, <4>1, <4>2
    <3>4. QED
      BY <1>1, <3>1, <3>2, <3>3, SwitchAuf
  <2>4. laufzeit' > Laufzeit => command' = "STOP"
    BY <2>2
  <2>5. UeberUnten'
    BY <1>1 DEF UeberUnten, zaehlt_ab
  <2>6. UeberOben'
    BY <2>3, <2>4 DEF UeberOben
  <2>7. PositionInGrenzen'
    <3>1. laufzeit' <= Laufzeit + 4
      BY <1>1, <1>2, <2>3 DEF zaehlt_auf, Wartet
    <3>2. QED
      BY <1>1, <2>3, <3>1 DEF PositionInGrenzen
  <2>8. QED
    BY <1>1, <1>2, <2>5, <2>6, <2>7 DEF Ueberlauf
<1>5. QED
  BY <1>3, <1>4

LEMMA AbWeg ==
  ASSUME Laufzeit >= 14, Weg, TypeOK', NEW c \in Befehle,
         lowlevel_switch(c), streckeAb(c)
  PROVE  Weg'
<1>0. /\ Laufzeit \in Int /\ MaxRekalib \in Int /\ Laufzeit >= 14
      /\ min_laufzeit \in Int /\ min_laufzeit <= -7
      /\ max_laufzeit \in Int /\ max_laufzeit >= Laufzeit + 7
      /\ laufzeit \in Int /\ wait_counter \in Int /\ summe_laufzeit \in Int
      /\ laufzeit' \in Int /\ wait_counter' \in Int /\ summe_laufzeit' \in Int
  BY RolladenAssumption, GrenzenWeit DEF Weg, TypeOK
<1> USE <1>0 DEF Weg
<1>1. zaehlt_ab' /\ ~zaehlt_auf' /\ state' # "STOP" /\ Umkehr'
  BY DEF streckeAb, zaehlt_auf, zaehlt_ab, Umkehr
<1>2. Wartet'
  BY <1>1, SwitchAb DEF Wartet, zaehlt_ab
<1>3. CASE rekalib
  <2>1. CASE unten(laufzeit - 1)
    <3>1. laufzeit' = 0 /\ command' = "STOP"
      BY <1>3, <2>1 DEF streckeAb, strecke
    <3>2. PositionInGrenzen'
      BY <3>1 DEF PositionInGrenzen
    <3>3. UeberUnten'
      BY <1>2, <3>1 DEF UeberUnten, Wartet
    <3>4. UeberOben'
      BY <1>1 DEF UeberOben, zaehlt_auf
    <3>5. QED
      BY <1>1, <1>2, <3>2, <3>3, <3>4 DEF Ueberlauf
  <2>2. CASE ~unten(laufzeit - 1)
    <3>1. laufzeit' = laufzeit - 1 /\ laufzeit - 1 >= min_laufzeit
      BY <1>3, <2>2 DEF streckeAb, strecke, unten
    <3>2. ~(summe_laufzeit' < MaxRekalib)
      BY <1>3, <2>2 DEF streckeAb, strecke, rekalib
    <3>3. QED
      BY <1>1, <1>2, <3>1, <3>2 DEF PositionInGrenzen, Ueberlauf
  <2>3. QED
    BY <2>1, <2>2
<1>4. CASE ~rekalib
  <2>1. summe_laufzeit < MaxRekalib
    BY <1>4 DEF rekalib, summe
  <2>2. laufzeit' = laufzeit - 1 /\ (laufzeit - 1 <= 0 => command' = "STOP")
    BY <1>4 DEF streckeAb, strecke, unten
  <2>3. /\ laufzeit' <= Laufzeit
        /\ \A w \in 1..3 : state' = "AB_WAIT_1" /\ wait_counter' = w
                             => laufzeit' >= w - 4
        /\ \A w \in 1..3 : state' = "AB_WAIT_2" /\ wait_counter' = w
                             => laufzeit' >= w - 7
        /\ state' = "AB" => laufzeit' >= -7
    <3>1. CASE state \in {"STOP", "DIR_CHANGE_WAIT_1"}
      <4>1. laufzeit \in 0..Laufzeit
        BY <2>1, <3>1 DEF PositionInGrenzen, Ueberlauf, Umkehr
      <4>2. state' = "AB_WAIT_1" /\ wait_counter' \in {2, 3}
        BY <1>1, <3>1, SwitchAb
      <4>3. QED
        BY <2>2, <4>1, <4>2
    <3>2. CASE state = "AB_WAIT_1"
      <4>1. laufzeit <= Laufzeit /\ laufzeit >= wait_counter - 4
        BY <2>1, <3>2 DEF Ueberlauf, UeberUnten, zaehlt_ab, Wartet
      <4>2. wait_counter \in 1..3
        BY <3>2 DEF Wartet
      <4>3. \/ state' = "AB_WAIT_1" /\ wait_counter' = wait_counter - 1
            \/ state' = "AB_WAIT_2" /\ wait_counter' = 3
        BY <1>1, <3>2, SwitchAb
      <4>4. QED
        BY <2>2, <4>1, <4>2, <4>3
    <3>3. CASE state = "AB_WAIT_2"
      <4>1. laufzeit <= Laufzeit /\ laufzeit >= wait_counter - 7
        BY <2>1, <3>3 DEF Ueberlauf, UeberUnten, zaehlt_ab, Wartet
      <4>2. wait_counter \in 1..3
        BY <3>3 DEF Wartet
      <4>3. \/ state' = "AB_WAIT_2" /\ wait_counter' = wait_counter - 1
            \/ state' = "AB"
        BY <1>1, <3>3, SwitchAb
      <4>4. QED
        BY <2>2, <4>1, <4>2, <4>3
    <3>4. CASE state = "AB"
      <4>1. laufzeit <= Laufzeit /\ (laufzeit < 0 => command = "STOP")
        BY <2>1, <3>4 DEF Ueberlauf, UeberUnten, zaehlt_ab
      <4>2. state' = "AB" /\ command # "STOP"
        BY <1>1, <3>4, SwitchAb
      <4>3. QED
        BY <2>2, <4>1, <4>2
    <3>5. QED
      BY <1>1, <3>1, <3>2, <3>3, <3>4, SwitchAb
  <2>4. laufzeit' < 0 => command' = "STOP"
    BY <2>2
  <2>5. UeberOben'
    BY <1>1 DEF UeberOben, zaehlt_auf
  <2>6. UeberUnten'
    BY <2>3, <2>4 DEF UeberUnten
  <2>7. PositionInGrenzen'
    <3>1. laufzeit' >= -7
      BY <1>1, <1>2, <2>3 DEF zaehlt_ab, Wartet
    <3>2. QED
      BY <1>1, <2>3, <3>1 DEF PositionInGrenzen
  <2>8. QED
    BY <1>1, <1>2, <2>5, <2>6, <2>7 DEF Ueberlauf
<1>5. QED
  BY <1>3, <1>4

LEMMA StehtWeg ==
  ASSUME Laufzeit >= 14, Weg, TypeOK', NEW c \in Befehle,
         lowlevel_switch(c), steht(c)
  PROVE  Weg'
<1>0. /\ Laufzeit \in Int /\ MaxRekalib \in Int /\ Laufzeit >= 14
      /\ min_laufzeit \in Int /\ min_laufzeit <= -7
      /\ max_laufzeit \in Int /\ max_laufzeit >= Laufzeit + 7
      /\ laufzeit \in Int /\ wait_counter \in Int /\ summe_laufzeit \in Int
      /\ laufzeit' \in Int /\ wait_counter' \in Int /\ summe_laufzeit' \in Int
  BY RolladenAssumption, GrenzenWeit DEF Weg, TypeOK
<1> USE <1>0 DEF Weg
<1>1. ~zaehlt_auf' /\ ~zaehlt_ab' /\ summe_laufzeit' = summe_laufzeit
  BY DEF steht
<1>2. PositionInGrenzen'
  BY DEF steht, laufzeit_align, PositionInGrenzen
<1>3. Wartet' /\ UeberOben' /\ UeberUnten'
  BY <1>1 DEF Wartet, UeberOben, UeberUnten, zaehlt_auf, zaehlt_ab
<1>4. summe_laufzeit < MaxRekalib => Umkehr'
  <2> SUFFICES ASSUME summe_laufzeit < MaxRekalib,
                      state' \in {"DIR_CHANGE_WAIT_1", "DIR_CHANGE_WAIT_2",
                                  "DIR_CHANGE_WAIT_3"}
               PROVE  laufzeit' \in 0..Laufzeit
    BY DEF Umkehr
  <2>1. laufzeit' = laufzeit
    BY DEF steht
  <2>2. laufzeit \in 0..Laufzeit
    BY SwitchUmkehr
       DEF Ueberlauf, UeberOben, UeberUnten, Umkehr, zaehlt_auf, zaehlt_ab
  <2>3. QED
    BY <2>1, <2>2
<1>5. QED
  BY <1>1, <1>2, <1>3, <1>4 DEF Ueberlauf

(* Frames start and stop a journey but never take back the STOP of an      *)
(* overrun; a position they define lies between the ends.                  *)
LEMMA FrameWeg ==
  ASSUME Laufzeit >= 14, Weg, TypeOK', Frame PROVE Weg'
<1>0. /\ Laufzeit \in Int /\ MaxRekalib \in Int /\ Laufzeit >= 14
      /\ min_laufzeit \in Int /\ min_laufzeit <= -7
      /\ max_laufzeit \in Int /\ max_laufzeit >= Laufzeit + 7
      /\ laufzeit \in Int /\ wait_counter \in Int /\ summe_laufzeit \in Int
      /\ laufzeit' \in Int /\ wait_counter' \in Int /\ summe_laufzeit' \in Int
  BY RolladenAssumption, GrenzenWeit DEF Weg, TypeOK
<1> USE <1>0 DEF Weg
<1>1. state' = state /\ wait_counter' = wait_counter
      /\ summe_laufzeit' = summe_laufzeit
  BY DEF Frame, TasterDown, TasterUp, PositionSet, DefinePosition, lowlevel, weg
<1>2. command' = command \/ command' = "STOP" \/ state = "STOP"
  BY DEF Frame, TasterDown, TasterUp, PositionSet, DefinePosition
<1>3. laufzeit' = laufzeit \/ laufzeit' \in 0..Laufzeit
  BY DefineGrenzen, RolladenAssumption
     DEF Frame, TasterDown, TasterUp, PositionSet, DefinePosition, weg
<1>4. Wartet' /\ PositionInGrenzen'
  BY <1>1, <1>3 DEF Wartet, PositionInGrenzen
<1>5. Ueberlauf'
  <2> SUFFICES ASSUME summe_laufzeit < MaxRekalib
               PROVE  UeberOben' /\ UeberUnten' /\ Umkehr'
    BY <1>1 DEF Ueberlauf
  <2>1. UeberOben'
    <3>1. CASE state = "AUF_WAIT"
      <4>1. wait_counter \in 1..3
        BY <3>1 DEF Wartet
      <4>2. /\ laufzeit >= 0 /\ laufzeit + wait_counter <= Laufzeit + 4
            /\ laufzeit > Laufzeit => command = "STOP"
        BY <3>1 DEF Ueberlauf, UeberOben, zaehlt_auf, Wartet
      <4>3. QED
        BY <1>1, <1>2, <1>3, <3>1, <4>1, <4>2 DEF UeberOben, zaehlt_auf
    <3>2. CASE state = "AUF"
      BY <1>1, <1>2, <1>3, <3>2 DEF Ueberlauf, UeberOben, zaehlt_auf
    <3>3. CASE state \notin {"AUF", "AUF_WAIT"}
      BY <1>1, <3>3 DEF UeberOben, zaehlt_auf
    <3>4. QED
      BY <3>1, <3>2, <3>3
  <2>2. UeberUnten'
    <3>1. CASE state \in {"AB_WAIT_1", "AB_WAIT_2"}
      <4>1. wait_counter \in 1..3
        BY <3>1 DEF Wartet
      <4>2. /\ laufzeit <= Laufzeit
            /\ laufzeit < 0 => command = "STOP"
            /\ \A w \in 1..3 : state = "AB_WAIT_1" /\ wait_counter = w
                                 => laufzeit >= w - 4
            /\ \A w \in 1..3 : state = "AB_WAIT_2" /\ wait_counter = w
                                 => laufzeit >= w - 7
        BY <3>1 DEF Ueberlauf, UeberUnten, zaehlt_ab
      <4>3. QED
        BY <1>1, <1>2, <1>3, <3>1, <4>1, <4>2 DEF UeberUnten, zaehlt_ab
    <3>2. CASE state = "AB"
      BY <1>1, <1>2, <1>3, <3>2 DEF Ueberlauf, UeberUnten, zaehlt_ab
    <3>3. CASE state \notin {"AB_WAIT_1", "AB_WAIT_2", "AB"}
      BY <1>1, <3>3 DEF UeberUnten, zaehlt_ab
    <3>4. QED
      BY <3>1, <3>2, <3>3
  <2>3. Umkehr'
    BY <1>1, <1>3 DEF Ueberlauf, Umkehr
  <2>4. QED
    BY <2>1, <2>2, <2>3
<1>6. QED
  BY <1>4, <1>5

LEMMA AnfangWeg ==
  ASSUME Laufzeit >= 14, state = "STOP", laufzeit = Laufzeit, TypeOK PROVE Weg
  BY RolladenAssumption, GrenzenWeit
  DEF Weg, Wartet, PositionInGrenzen, Ueberlauf, UeberOben, UeberUnten, Umkehr,
      zaehlt_auf, zaehlt_ab

(* For every shutter of at least 14 ticks: a standing one has a position   *)
(* between bottom and top and a moving one is never counted beyond the     *)
(* calibration way (rolladen.c:538-617), whatever frames and reloads of    *)
(* the configuration come in between.  A shorter one can be counted out of *)
(* that range by the wait states of a single reversal.                     *)
THEOREM PositionBleibtInGrenzen ==
  ASSUME Laufzeit >= 14 PROVE SpecReload => []PositionInGrenzen
<1>1. Init => Weg
  BY InitTyp, AnfangWeg DEF Init
<1>2. Weg /\ [Next \/ ConfigReload]_vars => Weg'
  <2> SUFFICES ASSUME Weg, [Next \/ ConfigReload]_vars PROVE Weg'
    OBVIOUS
  <2>1. CASE Timer
    <3>1. PICK c \in Befehle : /\ lowlevel_switch(c)
                               /\ steht(c) \/ streckeAuf(c) \/ streckeAb(c)
      BY <2>1 DEF Timer, timer_handler
    <3>2. TypeOK'
      BY <2>1, TimerTyp DEF Weg
    <3>3. QED
      BY <3>1, <3>2, AufWeg, AbWeg, StehtWeg
  <2>2. CASE Frame
    BY <2>2, FrameTyp, FrameWeg DEF Weg
  <2>3. CASE ConfigReload
    <3>1. TypeOK'
      BY <2>3, ReloadTyp DEF Weg
    <3>2. state' = "STOP" /\ laufzeit' = Laufzeit
      BY <2>3 DEF ConfigReload, Nach
    <3>3. QED
      BY <3>1, <3>2, RolladenAssumption, GrenzenWeit
      DEF Weg, Wartet, PositionInGrenzen, Ueberlauf, UeberOben, UeberUnten,
          Umkehr, zaehlt_auf, zaehlt_ab
  <2>4. CASE UNCHANGED vars
    BY <2>4 DEF Weg, TypeOK, Wartet, PositionInGrenzen, Ueberlauf, UeberOben,
                UeberUnten, Umkehr, zaehlt_auf, zaehlt_ab, vars, lowlevel, weg,
                zeiten
  <2>5. QED
    BY <2>1, <2>2, <2>3, <2>4 DEF Next
<1>3. Weg => PositionInGrenzen
  BY DEF Weg
<1>4. QED
  BY <1>1, <1>2, <1>3, PTL DEF SpecReload

-----------------------------------------------------------------------------
(* The power supply.                                                       *)
Dauer == IF on_battery THEN T_BAT ELSE T_NETZ

(* The ticks since the relay switched and the ticks of rest still to come  *)
(* add up to the time of rest; where the handler has begun to measure, no  *)
(* rest is left.  Neither alone is inductive.                              *)
Ruhe == /\ seit + usv_timer >= Dauer
        /\ wo \in {"U_bat", "U_NT"} => usv_timer = 0

Ruhezeit == UsvTypeOK /\ Ruhe

(* The observer counts far enough.                                         *)
LEMMA SeitReicht == SeitMax \in Nat /\ SeitMax >= T_BAT
<1>1. (ZURUECK + 1) * (TAKT + 1) \in Nat
  BY UsvAssumption
<1> QED
  BY <1>1, UsvAssumption DEF SeitMax

LEMMA InitRuhezeit == UsvInit => Ruhezeit
<1> SUFFICES ASSUME UsvInit PROVE UsvTypeOK /\ Ruhe
  BY DEF Ruhezeit
<1> USE SeitReicht, UsvAssumption
<1>1. UsvTypeOK
  <2>1. usv_timer \in 0..T_BAT /\ seit \in 0..SeitMax
    BY DEF UsvInit
  <2>2. switch_back_counter \in 0..ZURUECK /\ timer_counter \in 0..TAKT
    BY DEF UsvInit
  <2> QED
    BY <2>1, <2>2, Zenon DEF UsvInit, UsvTypeOK
<1>2. Ruhe
  BY DEF UsvInit, Ruhe, Dauer
<1> QED
  BY <1>1, <1>2

(* The interrupt takes from the rest what it adds to the time since.       *)
LEMMA TickHaelt ==
  ASSUME Ruhezeit, usv_timer_handler
  PROVE  Ruhezeit'
<1> USE UsvAssumption, SeitReicht DEF Ruhezeit
<1>1. UsvTypeOK'
  BY DEF UsvTypeOK, usv_timer_handler, sekunde, welt
<1>2. Ruhe'
  BY DEF UsvTypeOK, Ruhe, Dauer, usv_timer_handler, sekunde, welt
<1> QED
  BY <1>1, <1>2

(* Switching starts a new rest.                                            *)
LEMMA NetzbetriebHaelt ==
  ASSUME Ruhezeit, NEW g \in {"batterie_leer", "netz_da"}, switch_to_netzbetrieb(g)
  PROVE  Ruhezeit'
<1> USE UsvAssumption, SeitReicht DEF Ruhezeit
<1>1. UsvTypeOK'
  <2>1. on_battery' = FALSE /\ ueberlast' = ueberlast /\ ueberlast \in BOOLEAN
    BY Zenon DEF UsvTypeOK, switch_to_netzbetrieb, welt
  <2>2. usv_timer' \in 0..T_BAT /\ seit' \in 0..SeitMax
    BY DEF switch_to_netzbetrieb
  <2>3. /\ switch_back_counter' \in 0..ZURUECK /\ timer_counter' \in 0..TAKT
        /\ wo' \in {"start", "U_bat", "U_NT", "setze_counter"}
        /\ netz' \in Bereiche /\ batterie' \in Bereiche
        /\ grund' \in {"keiner", "puffer", "batterie_leer", "netz_da"}
    BY Zenon DEF UsvTypeOK, switch_to_netzbetrieb, welt
  <2> QED
    BY <2>1, <2>2, <2>3, Zenon DEF UsvTypeOK
<1>2. Ruhe'
  BY DEF Ruhe, Dauer, switch_to_netzbetrieb
<1> QED
  BY <1>1, <1>2

LEMMA SchrittRuhezeit == Ruhezeit /\ [UsvNext]_usvVars => Ruhezeit'
<1> SUFFICES ASSUME Ruhezeit, [UsvNext]_usvVars PROVE Ruhezeit'
  OBVIOUS
<1> USE UsvAssumption, SeitReicht
<1>1. CASE Umwelt
  BY <1>1 DEF Ruhezeit, UsvTypeOK, Ruhe, Dauer, Umwelt, zaehler
<1>2. CASE usv_timer_handler
  BY <1>2, TickHaelt
<1>3. CASE misst_puffer
  BY <1>3 DEF Ruhezeit, UsvTypeOK, Ruhe, Dauer, misst_puffer, zaehler, welt
<1>4. CASE nichts_tun
  BY <1>4 DEF Ruhezeit, UsvTypeOK, Ruhe, Dauer, nichts_tun, zaehler, welt
<1>5. CASE switch_to_battery
  BY <1>5 DEF Ruhezeit, UsvTypeOK, Ruhe, Dauer, switch_to_battery, welt
<1>6. CASE setze_counter
  BY <1>6 DEF Ruhezeit, UsvTypeOK, Ruhe, Dauer, setze_counter, welt
<1>7. CASE batterie_leer \/ netz_da
  BY <1>7, NetzbetriebHaelt DEF batterie_leer, netz_da
<1>8. CASE UNCHANGED usvVars
  BY <1>8 DEF Ruhezeit, UsvTypeOK, Ruhe, Dauer, usvVars
<1>9. CASE ruht
  BY <1>8, <1>9 DEF ruht
<1> QED
  BY <1>1, <1>2, <1>3, <1>4, <1>5, <1>6, <1>7, <1>8, <1>9 DEF UsvNext, usv_state_handler

LEMMA ImmerRuhezeit == UsvSpec => []Ruhezeit
BY InitRuhezeit, SchrittRuhezeit, PTL DEF UsvSpec

(* Counters and timers keep their ranges.                                  *)
THEOREM UsvTypKorrekt == UsvSpec => []UsvTypeOK
<1>1. Ruhezeit => UsvTypeOK
  BY DEF Ruhezeit
<1> QED
  BY <1>1, ImmerRuhezeit, PTL

(* The relay rests for its whole time after every switch, however the      *)
(* voltages change between two measurements and wherever the interrupt     *)
(* falls (usvstatemachine.c:99-101).                                        *)
THEOREM RelaisPrelltNicht == UsvSpec => PrelltNicht
<1> DEFINE A == on_battery' # on_battery => seit >= IF on_battery THEN T_BAT ELSE T_NETZ
<1>1. Ruhezeit /\ [UsvNext]_usvVars => [A]_usvVars
  <2> SUFFICES ASSUME Ruhezeit, UsvNext, on_battery' # on_battery
               PROVE  seit >= IF on_battery THEN T_BAT ELSE T_NETZ
    OBVIOUS
  <2>1. switch_to_battery \/ batterie_leer \/ netz_da
    BY DEF UsvNext, usv_state_handler, Umwelt, usv_timer_handler, misst_puffer, nichts_tun,
           setze_counter, ruht, usvVars
  <2>2. wo \in {"U_bat", "U_NT"}
    BY <2>1 DEF switch_to_battery, batterie_leer, netz_da
  <2>3. usv_timer = 0 /\ seit + usv_timer >= Dauer /\ seit \in Int
    BY <2>2, SeitReicht DEF Ruhezeit, Ruhe, UsvTypeOK
  <2> QED
    BY <2>3, UsvAssumption DEF Dauer, Ruhezeit, UsvTypeOK
<1> QED
  BY <1>1, ImmerRuhezeit, PTL DEF UsvSpec, PrelltNicht
-----------------------------------------------------------------------------
(* The ticks until the counter for switching back reaches zero.            *)
Rest(n, t) == IF n = 0 THEN 0 ELSE (n - 1) * (TAKT + 1) + t + 1

Frist == (ZURUECK - 1) * (TAKT + 1)

(* On the battery, once the counter is set: the time since the switch and  *)
(* the time the counter still runs exceed the time to wait.                *)
Geduld == on_battery /\ wo # "setze_counter"
            => seit + Rest(switch_back_counter, timer_counter) > Frist

LEMMA FristInt == Frist \in Int /\ Frist < SeitMax
<1>1. (ZURUECK - 1) * (TAKT + 1) \in Int /\ (ZURUECK + 1) * (TAKT + 1) \in Int
  BY UsvAssumption
<1>2. (ZURUECK + 1) * (TAKT + 1) = (ZURUECK - 1) * (TAKT + 1) + 2 * TAKT + 2
  BY UsvAssumption
<1> QED
  BY <1>1, <1>2, UsvAssumption DEF Frist, SeitMax

(* What is left is a number of ticks, and it is not negative.              *)
LEMMA RestNat ==
  ASSUME NEW n \in Nat, NEW t \in Nat PROVE Rest(n, t) \in Nat
<1>1. CASE n = 0
  BY <1>1 DEF Rest
<1>2. CASE n # 0
  <2>1. n - 1 \in Nat /\ TAKT + 1 \in Nat
    BY <1>2, UsvAssumption
  <2>2. (n - 1) * (TAKT + 1) \in Nat
    BY <2>1
  <2> QED
    BY <1>2, <2>2 DEF Rest
<1> QED
  BY <1>1, <1>2

(* One tick shortens it by one, over the end of a second too.              *)
LEMMA RestTick ==
  ASSUME NEW n \in Nat, NEW t \in Nat, NEW n1, NEW t1,
         t1 = (IF t = 0 THEN TAKT ELSE t - 1),
         n1 = (IF t = 0 /\ n > 0 THEN n - 1 ELSE n)
  PROVE  Rest(n1, t1) + 1 >= Rest(n, t)
<1>1. CASE n = 0
  BY <1>1 DEF Rest
<1>2. CASE n = 1
  BY <1>2, UsvAssumption DEF Rest
<1>3. CASE n > 1 /\ t > 0
  <2>1. (n - 1) * (TAKT + 1) \in Int
    BY UsvAssumption
  <2> QED
    BY <1>3, <2>1 DEF Rest
<1>4. CASE n > 1 /\ t = 0
  <2>1. (n - 1) * (TAKT + 1) \in Int /\ (n - 2) * (TAKT + 1) \in Int
    BY UsvAssumption
  <2>2. (n - 1) * (TAKT + 1) = (n - 2) * (TAKT + 1) + TAKT + 1
    BY UsvAssumption
  <2>3. n1 = n - 1 /\ t1 = TAKT /\ n1 - 1 = n - 2 /\ n1 # 0 /\ n # 0
    BY <1>4
  <2>4. Rest(n1, t1) = (n - 2) * (TAKT + 1) + TAKT + 1
    BY <2>3 DEF Rest
  <2>5. Rest(n, t) = (n - 1) * (TAKT + 1) + 1
    BY <1>4, <2>1, <2>3 DEF Rest
  <2> QED
    BY <2>1, <2>2, <2>4, <2>5, UsvAssumption
<1> QED
  BY <1>1, <1>2, <1>3, <1>4

LEMMA TickGeduld ==
  ASSUME Ruhezeit, Geduld, usv_timer_handler PROVE Geduld'
<1> SUFFICES ASSUME on_battery', wo' # "setze_counter"
             PROVE  seit' + Rest(switch_back_counter', timer_counter') > Frist
  BY DEF Geduld, Frist
<1> DEFINE n1 == IF timer_counter = 0 /\ switch_back_counter > 0
                 THEN switch_back_counter - 1 ELSE switch_back_counter
           t1 == IF timer_counter = 0 THEN TAKT ELSE timer_counter - 1
<1>1. switch_back_counter' = n1 /\ timer_counter' = t1
  BY DEF usv_timer_handler, sekunde
<1>2. /\ switch_back_counter \in Nat /\ timer_counter \in Nat
      /\ n1 \in Nat /\ t1 \in Nat /\ seit \in 0..SeitMax
  BY UsvAssumption DEF Ruhezeit, UsvTypeOK
<1>3. seit + Rest(switch_back_counter, timer_counter) > Frist
  BY Zenon DEF Geduld, usv_timer_handler
<1>4. Rest(n1, t1) + 1 >= Rest(switch_back_counter, timer_counter)
  BY <1>2, RestTick
<1>5. Rest(n1, t1) \in Nat /\ Rest(switch_back_counter, timer_counter) \in Nat
  BY <1>2, RestNat
<1> HIDE DEF n1, t1
<1>6. seit' + Rest(n1, t1) > Frist
  <2>1. CASE seit < SeitMax
    <3>1. seit' = seit + 1
      BY <2>1 DEF usv_timer_handler
    <3> QED
      BY <1>2, <1>3, <1>4, <1>5, <3>1, FristInt, SeitReicht
  <2>2. CASE ~(seit < SeitMax)
    <3>1. seit' = SeitMax
      BY <1>2, <2>2, SeitReicht DEF usv_timer_handler
    <3> QED
      BY <1>5, <3>1, FristInt, SeitReicht
  <2> QED
    BY <2>1, <2>2
<1> QED
  BY <1>1, <1>6

LEMMA SchrittGeduld == Ruhezeit /\ Geduld /\ [UsvNext]_usvVars => Geduld'
<1> SUFFICES ASSUME Ruhezeit, Geduld, [UsvNext]_usvVars PROVE Geduld'
  OBVIOUS
<1>1. CASE usv_timer_handler
  BY <1>1, TickGeduld
<1>2. CASE setze_counter
  <2>1. switch_back_counter' = ZURUECK /\ timer_counter' = timer_counter /\ seit' = seit
    BY <1>2 DEF setze_counter
  <2>2. timer_counter \in Nat /\ seit \in Nat
    BY SeitReicht, UsvAssumption DEF Ruhezeit, UsvTypeOK
  <2>3. seit + Rest(ZURUECK, timer_counter) > Frist
    BY <2>2, FristInt, UsvAssumption DEF Rest, Frist
  <2> QED
    BY <2>1, <2>3 DEF Geduld, Frist
<1>3. CASE switch_to_battery
  BY <1>3 DEF Geduld, switch_to_battery
<1>4. CASE batterie_leer \/ netz_da
  BY <1>4 DEF Geduld, batterie_leer, netz_da, switch_to_netzbetrieb
<1>5. CASE Umwelt \/ misst_puffer \/ nichts_tun \/ UNCHANGED usvVars
  <2>1. /\ on_battery' = on_battery /\ seit' = seit
        /\ switch_back_counter' = switch_back_counter
        /\ timer_counter' = timer_counter
    BY <1>5 DEF Umwelt, misst_puffer, nichts_tun, usvVars, zaehler
  <2>2. wo = "setze_counter" => wo' = "setze_counter"
    BY <1>5 DEF Umwelt, misst_puffer, nichts_tun, usvVars
  <2> QED
    BY <2>1, <2>2 DEF Geduld, Frist
<1>6. CASE ruht
  BY <1>5, <1>6 DEF ruht
<1> QED
  BY <1>1, <1>2, <1>3, <1>4, <1>5, <1>6 DEF UsvNext, usv_state_handler

(* The supply never returns to the grid before almost all of ZURUECK       *)
(* periods of the counter have passed since it left it, whatever the       *)
(* voltages do and wherever the interrupt falls between switching and      *)
(* setting the counter (usvstatemachine.c:99-101, 201-227).                *)
THEOREM RueckkehrWartet == UsvSpec => WartetAufNetz
<1> DEFINE A == on_battery /\ ~on_battery' /\ grund' = "netz_da"
                  => seit > (ZURUECK - 1) * (TAKT + 1)
<1>1. UsvInit => Geduld
  BY DEF UsvInit, Geduld
<1>2. Geduld /\ Ruhezeit /\ [UsvNext]_usvVars => [A]_usvVars
  <2> SUFFICES ASSUME Geduld, Ruhezeit, UsvNext, on_battery, ~on_battery', grund' = "netz_da"
               PROVE  seit > (ZURUECK - 1) * (TAKT + 1)
    OBVIOUS
  <2>1. netz_da
    BY DEF UsvNext, usv_state_handler, Umwelt, usv_timer_handler, misst_puffer, nichts_tun,
           switch_to_battery, setze_counter, ruht, usvVars, batterie_leer, switch_to_netzbetrieb
  <2>2. wo # "setze_counter" /\ switch_back_counter = 0
    BY <2>1 DEF netz_da
  <2>3. seit + 0 > Frist
    BY <2>2 DEF Geduld, Rest
  <2> QED
    BY <2>3, SeitReicht DEF Frist, Ruhezeit, UsvTypeOK
<1> QED
  BY <1>1, <1>2, SchrittGeduld, ImmerRuhezeit, PTL DEF UsvSpec, WartetAufNetz
=============================================================================
