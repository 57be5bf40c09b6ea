---------------------------- MODULE Beleuchtung -----------------------------
(***************************************************************************)
(* The lights of a house: light zones and power ports on several boards,   *)
(* connected by the CAN bus.                                               *)
(*                                                                         *)
(* A frame is delivered at once to the devices of the board that sends it  *)
(* and reaches the other boards later: transmit buffers and receive queues *)
(* give their frames away in any order (modules CanixSenden and Canix), so *)
(* that what a board has not seen yet is a bag, and a full one loses       *)
(* frames.  A TASTER_DOWN and the one-second timer visit the devices of a  *)
(* board one after the other (hauselektrik_callback, idle_handler); the    *)
(* group frames a zone sends meanwhile are delivered before the next       *)
(* device.  What other boards do during a visit makes no difference to it, *)
(* so that visits are not interleaved.                                     *)
(***************************************************************************)
EXTENDS Lichtzone, Powerport, Sequences, FiniteSets, SequencesExt, Bags, BagsExt

CONSTANTS Boards, Zonen, Ports,
          geraete,       \* board |-> its devices, in the order of pdevice_data
          zone, port,    \* the configurations
          Eingaben,      \* what buttons, panels and hosts send: {<<board, frame>>}
          MaxEingaben,   \* bound on the number of these frames
          MaxVerlust     \* bound on frames lost on the way to a board

(* A group is a byte, and 255 is none.                                     *)
Frames == [typ : {"DOWN", "ON", "OFF"}, g : 0..254]
          \cup [typ : {"SET_TIMER"}, g : 0..254, t : 0..ZaehlerMax]
          \cup [typ : {"WECKER_SET"}, g : 0..254, w : Weckarten, t : 0..ZaehlerMax]

ASSUME BeleuchtungAssumption ==
  /\ Zonen \cap Ports = {}
  /\ geraete \in [Boards -> Seq(Zonen \cup Ports)]
  /\ \A d \in Zonen \cup Ports : \E b \in Boards : d \in ToSet(geraete[b])
  /\ \A d \in Zonen : /\ zone[d].delay \in 0..255 /\ zone[d].action \subseteq 0..254
                      /\ zone[d].toggle \cap (zone[d].off \cup zone[d].on) = {}
                      /\ zone[d].off \cap zone[d].on = {}
  /\ \A d \in Ports : port[d].feature \subseteq Features /\ port[d].gruppen \in [1..4 -> 0..255]
  /\ Eingaben \subseteq Boards \X Frames
  /\ EXT_TIMERINIT \in 0..ZaehlerMax /\ EXT_SEC_COUNTER_MAX \in Nat \ {0, 1}
  /\ MaxEingaben \in Nat /\ MaxVerlust \in Nat

VARIABLES z,          \* zone |-> its record
          p,          \* port |-> its record
          rx,         \* board |-> frames on their way to it
          besuch,     \* the board whose devices are visited, why, and who is left
          eingegeben, verloren,
          einig       \* observer: the last word, ON or OFF, of the settled groups

vars == <<z, p, rx, besuch, eingegeben, verloren, einig>>

Down(g) == [typ |-> "DOWN", g |-> g]
On(g) == [typ |-> "ON", g |-> g]
Off(g) == [typ |-> "OFF", g |-> g]
SetTimer(g, t) == [typ |-> "SET_TIMER", g |-> g, t |-> t]
Wecker(g, w, t) == [typ |-> "WECKER_SET", g |-> g, w |-> w, t |-> t]

Keiner == [b |-> 0, was |-> "nichts", g |-> 0, rest |-> <<>>]
Besuch(b, was, g) == IF geraete[b] = <<>> THEN Keiner
                     ELSE [b |-> b, was |-> was, g |-> g, rest |-> geraete[b]]
Lichtgruppen == UNION {zone[d].action : d \in Zonen}

Init == /\ z = [d \in Zonen |-> Dunkel]
        /\ p = [d \in Ports |-> Aus]
        /\ rx = [b \in Boards |-> EmptyBag]
        /\ besuch = Keiner
        /\ eingegeben = 0 /\ verloren = 0
        /\ einig = [typ : {"OFF"}, g : Lichtgruppen]

-----------------------------------------------------------------------------
(* Observer: frames that say v to the groups G settle them, unless one     *)
(* that says otherwise, to a group that shares a device with them, is on   *)
(* its way; they unsettle the groups that share a device with them and     *)
(* whose last word was another.                                            *)
Schaltet(f) == f.typ \in {"ON", "OFF"}
Unterwegs == {f.g : f \in {f \in UNION {BagToSet(rx[b]) : b \in Boards} : Schaltet(f)}}
Verwandt(G) == UNION ({zone[d].action : d \in {e \in Zonen : zone[e].action \cap G # {}}}
                      \cup {ToSet(port[d].gruppen) :
                              d \in {e \in Ports : \E g \in G : is_in_group(port[e], g)}})
Unwidersprochen(G, v) == \A b \in Boards : \A f \in BagToSet(rx[b]) :
                           Schaltet(f) /\ f.g \in Verwandt(G) => f.typ = v
Einigt(G, v) == {e \in einig : e.typ = v \/ e.g \notin Verwandt(G)} \cup
                (IF Unwidersprochen(G, v) THEN [typ : {v}, g : G \cap Lichtgruppen] ELSE {})

(* canix_frame_send at board b: the frames F start for the other boards; a *)
(* board without devices takes no notice of them.                          *)
Gesendet(b, F) == [c \in Boards |-> IF c = b \/ geraete[c] = <<>> THEN rx[c]
                                    ELSE rx[c] (+) SetToBag(F)]

-----------------------------------------------------------------------------
(* A frame other than TASTER_DOWN at the devices of board b.               *)
zone_frame(k, r, f) == CASE f.g \notin k.action -> r
                         [] f.g \in k.action /\ f.typ = "ON" -> group_on(k, r)
                         [] f.g \in k.action /\ f.typ = "OFF" -> group_off(r)
                         [] f.g \in k.action /\ f.typ = "SET_TIMER" -> set_timer(r, f.t)
                         [] f.g \in k.action /\ f.typ = "WECKER_SET" -> r

port_frame(k, r, f) ==
  CASE f.typ = "ON" /\ is_in_group(k, f.g) -> steigende_flanke(k, r)
    [] f.typ = "OFF" /\ is_in_group(k, f.g) -> fallende_flanke(k, r)
    [] f.typ = "WECKER_SET" /\ is_in_group(k, f.g) /\ k.gruppen[1] = f.g -> wecker_set(r, f.w, f.t)
    [] OTHER -> r

Frame(b, f) ==
  /\ z' = [d \in Zonen |-> IF d \in ToSet(geraete[b]) THEN zone_frame(zone[d], z[d], f) ELSE z[d]]
  /\ p' = [d \in Ports |-> IF d \in ToSet(geraete[b]) THEN port_frame(port[d], p[d], f) ELSE p[d]]

(* hauselektrik_callback                                                   *)
callback(b, f) == IF f.typ = "DOWN"
                  THEN besuch' = Besuch(b, "DOWN", f.g) /\ UNCHANGED <<z, p>>
                  ELSE Frame(b, f) /\ UNCHANGED besuch

(* A button, a panel or a host sends a frame.                              *)
Eingabe(b, f) ==
  /\ besuch = Keiner
  /\ eingegeben < MaxEingaben
  /\ eingegeben' = eingegeben + 1
  /\ callback(b, f)
  /\ rx' = Gesendet(b, {f})
  /\ einig' = IF Schaltet(f) THEN Einigt({f.g}, f.typ) ELSE einig
  /\ UNCHANGED verloren

(* canix_process_messages takes a frame out of the queue.                  *)
Empfang(b, f) == /\ besuch = Keiner
                 /\ callback(b, f)
                 /\ rx' = [rx EXCEPT ![b] = BagRemove(@, f)]
                 /\ UNCHANGED <<eingegeben, verloren, einig>>

(* All transmit buffers or the receive queue were full.                    *)
Verlust(b, f) == /\ besuch = Keiner
                 /\ verloren < MaxVerlust
                 /\ verloren' = verloren + 1
                 /\ rx' = [rx EXCEPT ![b] = BagRemove(@, f)]
                 /\ einig' = {e \in einig : e.g # f.g}
                 /\ UNCHANGED <<z, p, besuch, eingegeben>>

(* idle_handler, when a second has passed.                                 *)
Sekunde(b) == /\ besuch = Keiner /\ geraete[b] # <<>>
              /\ besuch' = Besuch(b, "sekunde", 0)
              /\ UNCHANGED <<z, p, rx, eingegeben, verloren, einig>>

-----------------------------------------------------------------------------
(* The next device of the visit.                                           *)
Dran == Head(besuch.rest)
Weiter == besuch' = IF Len(besuch.rest) = 1 THEN Keiner ELSE [besuch EXCEPT !.rest = Tail(@)]

(* What a zone says to its action groups.                                  *)
Meldung(r) == IF r.state # "OFF" THEN "ON" ELSE "OFF"

(* inform_action_groups of the zone Dran, whose record becomes r: a frame  *)
(* for each of its action groups, delivered to the devices of the board at *)
(* once.  All the frames say the same, and a device that gets two of them  *)
(* does not do more than with one.                                         *)
inform_action_groups(r) ==
  LET k == zone[Dran]
      hier == ToSet(geraete[besuch.b])
      F == {[typ |-> Meldung(r), g |-> g] : g \in k.action}
      r_von(d) == IF d = Dran THEN r ELSE z[d]
      erster(G) == CHOOSE f \in F : f.g \in G
  IN  /\ z' = [d \in Zonen |->
                 IF d \in hier /\ zone[d].action \cap k.action # {}
                 THEN zone_frame(zone[d], r_von(d), erster(zone[d].action)) ELSE r_von(d)]
      /\ p' = [d \in Ports |->
                 LET G == {g \in k.action : is_in_group(port[d], g)}
                 IN  IF d \in hier /\ G # {} THEN port_frame(port[d], p[d], erster(G)) ELSE p[d]]
      /\ rx' = Gesendet(besuch.b, F)

melden(r, ja) == \/ ja /\ inform_action_groups(r)
                 \/ ~ja /\ z' = [z EXCEPT ![Dran] = r] /\ UNCHANGED <<p, rx>>

zone_down ==
  /\ besuch.was = "DOWN" /\ Dran \in Zonen
  /\ LET k == zone[Dran]
         ja == down_informiert(k, z[Dran], besuch.g)
     IN  /\ melden(down(k, z[Dran], besuch.g), ja)
         /\ einig' = IF ja \/ besuch.g \in k.off \cup k.on
                     THEN Einigt(k.action, Meldung(down(k, z[Dran], besuch.g))) ELSE einig
  /\ Weiter
  /\ UNCHANGED <<eingegeben, verloren>>

port_down ==
  /\ besuch.was = "DOWN" /\ Dran \in Ports
  /\ p' = IF is_in_group(port[Dran], besuch.g)
          THEN [p EXCEPT ![Dran] = powerport_toggle(port[Dran], @)] ELSE p
  /\ Weiter
  /\ UNCHANGED <<z, rx, eingegeben, verloren, einig>>

zone_timer ==
  /\ besuch.was = "sekunde" /\ Dran \in Zonen
  /\ LET ja == abgelaufen(zone[Dran], z[Dran])
     IN  /\ melden(zone_sekunde(zone[Dran], z[Dran]), ja)
         /\ einig' = IF ja THEN Einigt(zone[Dran].action, "OFF") ELSE einig
  /\ Weiter
  /\ UNCHANGED <<eingegeben, verloren>>

port_timer ==
  /\ besuch.was = "sekunde" /\ Dran \in Ports
  /\ p' = [p EXCEPT ![Dran] = port_sekunde(port[Dran], @)]
  /\ Weiter
  /\ UNCHANGED <<z, rx, eingegeben, verloren, einig>>

Geraet == zone_down \/ port_down \/ zone_timer \/ port_timer

Next == \/ \E e \in Eingaben : Eingabe(e[1], e[2])
        \/ \E b \in Boards : \/ \E f \in BagToSet(rx[b]) : Empfang(b, f) \/ Verlust(b, f)
                             \/ Sekunde(b)
        \/ Geraet

Spec == Init /\ [][Next]_vars

(* The main loop takes frames, and the idle callback runs when the queue   *)
(* is empty (Canix!IdleLaeuft).                                            *)
FairSpec == /\ Spec
            /\ WF_vars(Geraet)
            /\ \A b \in Boards : /\ SF_vars(\E f \in BagToSet(rx[b]) : Empfang(b, f))
                                 /\ SF_vars(Sekunde(b))

-----------------------------------------------------------------------------
(***************************************************************************)
(* Properties                                                              *)
(***************************************************************************)
TypeOK == /\ z \in [Zonen -> [state : Lichtzustaende, timer : 0..ZaehlerMax, klicks : 0..255,
                              sek : 0..(EXT_SEC_COUNTER_MAX - 1)]]
          /\ p \in [Ports -> [pin : BOOLEAN, timer : 0..ZaehlerMax, weck : SUBSET Weckarten]]
          /\ \A b \in Boards : BagToSet(rx[b]) \subseteq Frames
          /\ eingegeben \in 0..MaxEingaben /\ verloren \in 0..MaxVerlust
          /\ einig \subseteq [typ : {"ON", "OFF"}, g : Lichtgruppen]
          /\ (besuch = Keiner <=> besuch.rest = <<>>)

(* A lamp: a port without feature that only group frames switch, no button *)
(* and no alarm clock.                                                     *)
Lampe(d) == /\ port[d].feature = {}
            /\ \A e \in Eingaben : is_in_group(port[d], e[2].g)
                                     => e[2].typ \notin {"DOWN", "WECKER_SET"}

(* Zones and lamps of a group follow its last word as soon as everything   *)
(* has arrived, whatever was lost or overtaken before.  A press of an off  *)
(* or on group says it from every state, and several zones with the same   *)
(* action group may say it together (lichtzone.c:146-149 "Das geschieht    *)
(* unabhaengig vom Status; denn damit ist eine globale                     *)
(* Haus-Licht-Aus-Funktion realisierbar").  The condition is that no frame *)
(* with the opposite word is on its way: two boards that say ON and OFF at *)
(* once are heard in different orders, and the group stays apart until its *)
(* next word.                                                              *)
Einig == \A e \in einig : e.g \notin Unterwegs =>
           /\ \A d \in Zonen : e.g \in zone[d].action => (z[d].state # "OFF" <=> e.typ = "ON")
           /\ \A l \in Ports : Lampe(l) /\ is_in_group(port[l], e.g)
                                => (p[l].pin <=> e.typ = "ON")

(* A zone with a timer, four hours or not (lichtzone.h:24, 30), and a port *)
(* with AUTO_AUS (powerport.h:21) switch themselves off, whatever ways     *)
(* they were switched on.  The only thing that stops a countdown for good  *)
(* is a frame that says so: SET_TIMER or WECKER_SET with 0 leaves the      *)
(* light on without a running timer (lichtzone.c:299, powerport.c:124).    *)
Zeitzonen == {d \in Zonen : setup_timer(zone[d].delay) > 0}
Zeitports == {d \in Ports : port[d].feature = {"AUTO_AUS"} /\ port_setup_timer(port[d]) > 1}
Leuchtet(d) == IF d \in Zonen THEN z[d].state # "OFF" ELSE p[d].pin
Steht(d) == Leuchtet(d) /\ (IF d \in Zonen THEN z[d].timer ELSE p[d].timer) = 0
Stellt_auf_null(d) ==
  \E e \in {e \in Eingaben : e[2].typ \in {"SET_TIMER", "WECKER_SET"} /\ e[2].t = 0} :
    /\ IF d \in Zonen THEN e[2].g \in zone[d].action ELSE is_in_group(port[d], e[2].g)
    /\ Eingabe(e[1], e[2]) \/ \E b \in Boards : BagIn(e[2], rx[b]) /\ Empfang(b, e[2])
GehtVonSelbstAus ==
  /\ \A d \in Zeitzonen \cup Zeitports : Leuchtet(d) ~> (~Leuchtet(d) \/ Steht(d))
  /\ [][\A d \in Zeitzonen \cup Zeitports : Steht(d)' => Steht(d) \/ Stellt_auf_null(d)]_vars

-----------------------------------------------------------------------------
(* Statements of the headers that the code does not keep.                  *)

(* lichtzone.h:25-27, of the toggle buttons of the zone: "wenn 3x DOWN     *)
(* innerhalb von 3 Sekunden".  A zone with a timer that is off is on after *)
(* the first of the three, so that no press leads from OFF to ON_EXT.      *)
ErstEinDannExt ==
  [][\A d \in Zonen : z[d].state = "OFF" /\ zone[d].delay # 0 => z'[d].state # "ON_EXT"]_vars

(* lichtzone.h:30, of ON_EXT: "wenn timer abgelaufen ist, wird             *)
(* ausscchalten".                                                          *)
ExtGehtAus == \A d \in Zonen : (z[d].state = "ON_EXT") ~> (z[d].state # "ON_EXT")

(* powerport.h:29 "Backofentimer: sofort ein, verzoegert aus": when the    *)
(* time of the oven timer is over, the port is switched off.               *)
BackofenAus ==
  [][\A d \in Ports : port_timer /\ Dran = d /\ p[d].timer = 1 /\ "WECK_AUTO_AUS" \in p[d].weck
                        => ~p'[d].pin]_vars
=============================================================================
