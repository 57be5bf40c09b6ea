------------------------- MODULE BeleuchtungProofs --------------------------
(***************************************************************************)
(* Proofs about the lights of a house, for every number of boards, zones,  *)
(* ports and groups and every configuration: all records keep their types, *)
(* and zones and lamps of a settled group agree on whether the light is    *)
(* on.  Lamps and zones are settled group by group: a frame settles its    *)
(* group when nothing related to it that says otherwise is on its way, and *)
(* from then on every frame on its way that could reach a device of the    *)
(* group says the same.                                                    *)
(***************************************************************************)
EXTENDS Beleuchtung, TLAPS

(* The records of a zone and of a port.                                    *)
Zonensatz == [state : Lichtzustaende, timer : 0..ZaehlerMax, klicks : 0..255,
              sek : 0..(EXT_SEC_COUNTER_MAX - 1)]
Portsatz == [pin : BOOLEAN, timer : 0..ZaehlerMax, weck : SUBSET Weckarten]
Satztypen == z \in [Zonen -> Zonensatz] /\ p \in [Ports -> Portsatz]

(* Lamps have no countdown and no alarm clock.                             *)
Lampen == \A d \in Ports : Lampe(d) => p[d].timer = 0 /\ p[d].weck = {}

(* Two groups touch when a zone or a port is in both.                      *)
Beruehrt(g, h) == \/ \E d \in Zonen : g \in zone[d].action /\ h \in zone[d].action
                  \/ \E d \in Ports : is_in_group(port[d], g) /\ is_in_group(port[d], h)

(* The last word v of a settled group g: no frame on its way that touches  *)
(* g says otherwise, and every zone and lamp of g has followed v or has a  *)
(* frame of g ahead.                                                       *)
Kommt(b, g) == \E f \in BagToSet(rx[b]) : Schaltet(f) /\ f.g = g
Unbestritten(g, v) == \A b \in Boards : \A f \in BagToSet(rx[b]) :
                        Schaltet(f) /\ Beruehrt(f.g, g) => f.typ = v
ZonenFolgen(g, v) == \A b \in Boards : \A d \in Zonen :
                       d \in ToSet(geraete[b]) /\ g \in zone[d].action
                         => (z[d].state # "OFF" <=> v = "ON") \/ Kommt(b, g)
LampenFolgen(g, v) == \A b \in Boards : \A d \in Ports :
                        d \in ToSet(geraete[b]) /\ Lampe(d) /\ is_in_group(port[d], g)
                          => (p[d].pin <=> v = "ON") \/ Kommt(b, g)
Einmuetig(g, v) == Unbestritten(g, v) /\ ZonenFolgen(g, v) /\ LampenFolgen(g, v)
Worte == [typ : {"ON", "OFF"}, g : Lichtgruppen]
Einmuetigkeit == \A e \in einig : Einmuetig(e.g, e.typ)

(* Frames with TASTER_DOWN and WECKER_SET come from outside.               *)
VonAussen(f) == \E e \in Eingaben : e[2] = f

(* What every step keeps, apart from the visit.                            *)
Felder == /\ Satztypen /\ Lampen /\ rx = [b \in Boards |-> rx[b]]
          /\ \A b \in Boards : \A f \in BagToSet(rx[b]) :
               f \in Frames /\ (VonAussen(f) \/ Schaltet(f))
          /\ einig \subseteq Worte
          /\ Einmuetigkeit

(* The visit of a board; one for a TASTER_DOWN has a frame from outside.   *)
Besuchstyp == \/ besuch = Keiner
              \/ /\ besuch \in [b : Boards, was : {"DOWN", "sekunde"}, g : 0..254,
                                rest : Seq(Zonen \cup Ports)]
                 /\ besuch.rest # <<>>
Besuchsteil == Besuchstyp /\ (besuch.was = "DOWN" => VonAussen(Down(besuch.g)))

(* The inductive invariant.                                                *)
Lichtordnung == /\ Felder /\ Besuchsteil
                /\ eingegeben \in 0..MaxEingaben /\ verloren \in 0..MaxVerlust

-----------------------------------------------------------------------------
(* The longest delay fits the timers.                                      *)
LEMMA ZaehlerGross == ZaehlerMax \in Nat /\ ZaehlerMax >= 15300 /\ 0 \in 0..ZaehlerMax
<1>1. ZaehlerMax \in Nat /\ ZaehlerMax >= 15300
  BY DEF ZaehlerMax
<1> QED BY <1>1

(* The handlers of a zone: types, and what they do to its light.           *)
LEMMA ZoneTypen ==
  ASSUME NEW k, k.delay \in 0..255, NEW r \in Zonensatz
  PROVE  /\ r.state \in Lichtzustaende
         /\ klick(r) \in Zonensatz /\ klick(r).state = r.state
         /\ einschalten(k, r) \in Zonensatz /\ einschalten(k, r).state = "ON"
         /\ ausschalten(k, r) \in Zonensatz
         /\ group_on(k, r) \in Zonensatz /\ group_on(k, r).state # "OFF"
         /\ group_off(r) \in Zonensatz /\ group_off(r).state = "OFF"
<1>1. EXT_SEC_COUNTER_MAX \in Nat \ {0, 1}
  BY BeleuchtungAssumption
<1>0. ZaehlerMax \in Nat /\ 0 \in 0..ZaehlerMax
  BY ZaehlerGross
<1>2. setup_timer(k.delay) \in 0..ZaehlerMax
  <2>1. PICK x \in 0..255 : x = k.delay
    OBVIOUS
  <2>2. x * 60 \in Nat /\ x * 60 <= 15300 /\ (x >= 128 => x - 128 \in Nat /\ x - 128 <= 15300)
    OBVIOUS
  <2>3. setup_timer(x) \in Nat /\ setup_timer(x) <= 15300
    BY <2>2 DEF setup_timer
  <2> QED BY ZaehlerGross, <2>1, <2>3
<1>3. Dunkel \in Zonensatz
  BY <1>0, <1>1 DEF Dunkel, Zonensatz, Lichtzustaende
<1>4. klick(r) \in Zonensatz /\ klick(r).state = r.state /\ r.state \in Lichtzustaende
  <2>1. /\ r.klicks \in 0..255 /\ r.sek \in 0..(EXT_SEC_COUNTER_MAX - 1)
        /\ r.state \in Lichtzustaende
    BY DEF Zonensatz
  <2>2. (r.klicks + 1) % 256 \in 0..255 /\ 1 \in 0..(EXT_SEC_COUNTER_MAX - 1)
    BY <1>1, <2>1
  <2>3. ASSUME NEW s \in 0..(EXT_SEC_COUNTER_MAX - 1), NEW c \in 0..255
        PROVE  /\ [r EXCEPT !.sek = s, !.klicks = c] \in Zonensatz
               /\ [r EXCEPT !.sek = s, !.klicks = c].state = r.state
    BY DEF Zonensatz
  <2>4. PICK s \in 0..(EXT_SEC_COUNTER_MAX - 1), c \in 0..255 :
             s = (IF r.sek = 0 THEN 1 ELSE r.sek) /\ c = (r.klicks + 1) % 256
    BY <2>1, <2>2
  <2>5. klick(r) = [r EXCEPT !.sek = s, !.klicks = c]
    BY <2>4 DEF klick, Zonensatz
  <2>6. /\ [r EXCEPT !.sek = s, !.klicks = c] \in Zonensatz
        /\ [r EXCEPT !.sek = s, !.klicks = c].state = r.state
    BY <2>3
  <2> QED BY <2>1, <2>5, <2>6
<1>5. einschalten(k, r) \in Zonensatz /\ einschalten(k, r).state = "ON"
  BY <1>2 DEF einschalten, Zonensatz, Lichtzustaende
<1>6. ausschalten(k, r) \in Zonensatz
  BY <1>3 DEF ausschalten, Zonensatz, Lichtzustaende
<1>7. group_on(k, r) \in Zonensatz /\ group_on(k, r).state # "OFF"
  BY <1>5 DEF group_on
<1>8. group_off(r) \in Zonensatz /\ group_off(r).state = "OFF"
  BY <1>0 DEF group_off, Zonensatz, Lichtzustaende
<1> QED
  BY <1>4, <1>5, <1>6, <1>7, <1>8

(* A press the zone says nothing about does not switch it.                 *)
LEMMA DownTypen ==
  ASSUME NEW k, k.delay \in 0..255, NEW r \in Zonensatz, NEW g,
         k.toggle \cap (k.off \cup k.on) = {}
  PROVE  /\ down(k, r, g) \in Zonensatz
         /\ ~down_informiert(k, r, g) => (down(k, r, g).state = "OFF" <=> r.state = "OFF")
<1> DEFINE s == klick(r)
<1>1. s \in Zonensatz /\ s.state = r.state /\ r.state \in Lichtzustaende
  BY ZoneTypen
<1>2. /\ einschalten(k, s) \in Zonensatz /\ einschalten(k, s).state = "ON"
      /\ ausschalten(k, s) \in Zonensatz
  BY <1>1, ZoneTypen
<1>3. [state |-> "ON_EXT", timer |-> EXT_TIMERINIT, klicks |-> 0, sek |-> 0] \in Zonensatz
  BY BeleuchtungAssumption DEF Zonensatz, Lichtzustaende
<1>0. ZaehlerMax \in Nat /\ 0 \in 0..ZaehlerMax
  BY ZaehlerGross
<1>4. [s EXCEPT !.state = "OFF", !.timer = 0] \in Zonensatz
  BY <1>0, <1>1 DEF Zonensatz, Lichtzustaende
<1> HIDE DEF s
<1>5. toggle(k, s) \in Zonensatz
  BY <1>1, <1>2, <1>3 DEF toggle, Lichtzustaende
<1>6. ~toggle_informiert(k, s) => toggle(k, s).state = "ON" /\ s.state = "ON"
  BY <1>1, <1>2 DEF toggle, toggle_informiert
<1>7. CASE g \in k.toggle
  <2>1. g \notin k.off /\ g \notin k.on
    BY <1>7
  <2>2. down(k, r, g) = toggle(k, s)
    BY <1>7, <2>1 DEF down, s
  <2>3. ~down_informiert(k, r, g) => ~toggle_informiert(k, s)
    BY <1>7 DEF down_informiert, s
  <2> QED BY <2>2, <2>3, <1>1, <1>5, <1>6
<1>8. CASE g \in k.off /\ g \notin k.toggle
  <2>1. down_informiert(k, r, g)
    BY <1>8 DEF down_informiert
  <2>2. down(k, r, g) \in Zonensatz
    BY <1>8, <1>2, <1>4 DEF down, s
  <2> QED BY <2>1, <2>2
<1>9. CASE g \in k.on /\ g \notin k.toggle
  <2>1. down_informiert(k, r, g)
    BY <1>9 DEF down_informiert
  <2>2. down(k, r, g) \in Zonensatz
    BY <1>9, <1>2, <1>4 DEF down, s
  <2> QED BY <2>1, <2>2
<1>10. CASE g \notin k.toggle \cup k.off \cup k.on
  <2>1. down(k, r, g) = s
    BY <1>10 DEF down, s
  <2> QED BY <2>1, <1>1
<1> QED BY <1>7, <1>8, <1>9, <1>10

(* A second in which no timer runs off does not switch the zone.           *)
LEMMA SekundeTypen ==
  ASSUME NEW k, k.delay \in 0..255, NEW r \in Zonensatz
  PROVE  /\ zone_sekunde(k, r) \in Zonensatz
         /\ ~abgelaufen(k, r) => zone_sekunde(k, r).state = r.state
<1>1. EXT_SEC_COUNTER_MAX \in Nat \ {0, 1}
  BY BeleuchtungAssumption
<1>2. r.timer \in 0..ZaehlerMax /\ r.klicks \in 0..255 /\ r.sek \in 0..(EXT_SEC_COUNTER_MAX - 1)
      /\ r.state \in Lichtzustaende
  BY DEF Zonensatz
<1>0. ZaehlerMax \in Nat
  BY DEF ZaehlerMax
<1>3. zone_sekunde(k, r) \in Zonensatz
  BY <1>0, <1>1, <1>2 DEF zone_sekunde, timer_laeuft, Zonensatz, Lichtzustaende
<1>4. ~abgelaufen(k, r) => zone_sekunde(k, r).state = r.state
  BY DEF zone_sekunde
<1> QED BY <1>3, <1>4

(* A frame other than TASTER_DOWN at a zone.                               *)
LEMMA ZoneFrame ==
  ASSUME NEW k, k.delay \in 0..255, NEW r \in Zonensatz, NEW f \in Frames, f.typ # "DOWN"
  PROVE  /\ zone_frame(k, r, f) \in Zonensatz
         /\ Schaltet(f) /\ f.g \in k.action
              => (zone_frame(k, r, f).state # "OFF" <=> f.typ = "ON")
         /\ ~(Schaltet(f) /\ f.g \in k.action) => zone_frame(k, r, f).state = r.state
<1>1. CASE f.g \notin k.action
  BY <1>1 DEF zone_frame
<1>2. CASE f.g \in k.action
  <2>1. /\ f.typ \in {"ON", "OFF", "SET_TIMER", "WECKER_SET"}
        /\ f.typ = "SET_TIMER" => f.t \in 0..ZaehlerMax
    BY DEF Frames
  <2>2. CASE f.typ = "ON"
    BY <1>2, <2>2, ZoneTypen DEF zone_frame, Schaltet
  <2>3. CASE f.typ = "OFF"
    BY <1>2, <2>3, ZoneTypen DEF zone_frame, Schaltet
  <2>4. CASE f.typ = "SET_TIMER"
    <3>1. set_timer(r, f.t) \in Zonensatz /\ set_timer(r, f.t).state = r.state
      BY <2>1, <2>4 DEF set_timer, Zonensatz
    <3> QED BY <1>2, <2>4, <3>1 DEF zone_frame, Schaltet
  <2>5. CASE f.typ = "WECKER_SET"
    BY <1>2, <2>5 DEF zone_frame, Schaltet
  <2> QED BY <2>1, <2>2, <2>3, <2>4, <2>5
<1> QED BY <1>1, <1>2

(* The handlers of a port keep its record in its type.                     *)
LEMMA PortTypen ==
  ASSUME NEW k, k.feature \subseteq Features, k.gruppen \in [1..4 -> 0..255], NEW r \in Portsatz
  PROVE  /\ port_setup_timer(k) \in 0..ZaehlerMax
         /\ steigende_flanke(k, r) \in Portsatz /\ fallende_flanke(k, r) \in Portsatz
         /\ powerport_toggle(k, r) \in Portsatz
         /\ port_sekunde(k, r) \in Portsatz
<1>0. ZaehlerMax \in Nat /\ 0 \in 0..ZaehlerMax
  BY ZaehlerGross
<1>1. port_setup_timer(k) \in 0..ZaehlerMax
  <2>1. PICK x \in 0..255 : x = k.gruppen[4]
    OBVIOUS
  <2>2. x * 60 \in Nat /\ x * 60 <= 15300 /\ (x >= 128 => x - 128 \in Nat /\ x - 128 <= 15300)
    OBVIOUS
  <2>3. port_setup_timer(k) \in Nat /\ port_setup_timer(k) <= 15300
    BY <2>1, <2>2 DEF port_setup_timer
  <2> QED BY ZaehlerGross, <2>3
<1>2. r.timer \in 0..ZaehlerMax /\ r.weck \in SUBSET Weckarten /\ r.pin \in BOOLEAN
  BY DEF Portsatz
<1>3. [r EXCEPT !.timer = port_setup_timer(k)] \in Portsatz
  BY <1>0, <1>1 DEF Portsatz
<1>4. /\ [r EXCEPT !.pin = TRUE, !.timer = port_setup_timer(k)] \in Portsatz
      /\ [r EXCEPT !.pin = TRUE, !.timer = 0] \in Portsatz
      /\ [r EXCEPT !.pin = FALSE, !.timer = 0] \in Portsatz
  BY <1>0, <1>1 DEF Portsatz
<1>5. steigende_flanke(k, r) \in Portsatz
  BY <1>3, <1>4 DEF steigende_flanke, Features
<1>6. fallende_flanke(k, r) \in Portsatz
  BY <1>3, <1>4 DEF fallende_flanke
<1>7. ablauf(k, r) \in Portsatz
  <2>1. (port_setup_timer(k) - 1) % (ZaehlerMax + 1) \in 0..ZaehlerMax
    BY <1>0, <1>1
  <2>2. r.weck \subseteq {"WECK_VERZOEGERT_EIN", "WECK_AUTO_AUS"}
    BY <1>2 DEF Weckarten
  <2>3. CASE "WECK_VERZOEGERT_EIN" \in r.weck
    <3>1. ablauf(k, r) = [pin |-> TRUE, weck |-> r.weck \ {"WECK_VERZOEGERT_EIN"},
                          timer |-> (port_setup_timer(k) - 1) % (ZaehlerMax + 1)]
      <4>1. r.weck # {"WECK_AUTO_AUS"} /\ r.weck # {}
        BY <2>3
      <4> QED BY <2>3, <4>1, Zenon DEF ablauf
    <3>2. r.weck \ {"WECK_VERZOEGERT_EIN"} \in SUBSET Weckarten
      BY <1>2
    <3> QED BY <3>1, <3>2, <2>1 DEF Portsatz
  <2>4. CASE r.weck = {"WECK_AUTO_AUS"}
    <3>1. ablauf(k, r) = [pin |-> FALSE, weck |-> {}, timer |-> 0]
      <4>1. "WECK_VERZOEGERT_EIN" \notin r.weck /\ r.weck # {}
        BY <2>4
      <4> QED BY <2>4, <4>1, Zenon DEF ablauf
    <3> QED BY <3>1, <1>0 DEF Portsatz
  <2>5. CASE r.weck = {}
    <3>1. "WECK_VERZOEGERT_EIN" \notin r.weck /\ r.weck # {"WECK_AUTO_AUS"}
      BY <2>5
    <3>2. \E x \in BOOLEAN : ablauf(k, r) = [pin |-> x, weck |-> {}, timer |-> 0]
      BY <2>5, <3>1, Zenon DEF ablauf
    <3> QED BY <3>2, <1>0 DEF Portsatz
  <2> QED BY <2>2, <2>3, <2>4, <2>5
<1>8. r.timer > 1 => [r EXCEPT !.timer = @ - 1] \in Portsatz
  BY <1>0, <1>2 DEF Portsatz
<1>9. port_sekunde(k, r) \in Portsatz
  BY <1>2, <1>7, <1>8 DEF port_sekunde
<1> QED BY <1>1, <1>5, <1>6, <1>9 DEF powerport_toggle

(* A frame other than TASTER_DOWN at a port; a lamp follows the frames of  *)
(* its groups.                                                             *)
LEMMA PortFrame ==
  ASSUME NEW k, k.feature \subseteq Features, k.gruppen \in [1..4 -> 0..255],
         NEW r \in Portsatz, NEW f \in Frames
  PROVE  /\ port_frame(k, r, f) \in Portsatz
         /\ ~is_in_group(k, f.g) => port_frame(k, r, f) = r
         /\ ~Schaltet(f) /\ f.typ # "WECKER_SET" => port_frame(k, r, f) = r
         /\ k.feature = {} /\ Schaltet(f) /\ is_in_group(k, f.g)
              => /\ port_frame(k, r, f).pin <=> f.typ = "ON"
                 /\ port_frame(k, r, f).timer = 0 /\ port_frame(k, r, f).weck = r.weck
<1>1. steigende_flanke(k, r) \in Portsatz /\ fallende_flanke(k, r) \in Portsatz
  BY PortTypen
<1>2. f.typ = "WECKER_SET" => wecker_set(r, f.w, f.t) \in Portsatz
  <2>1. f.typ = "WECKER_SET" => f.w \in Weckarten /\ f.t \in 0..ZaehlerMax
    BY DEF Frames
  <2> QED BY <2>1 DEF wecker_set, Portsatz
<1>3. port_frame(k, r, f) \in Portsatz
  BY <1>1, <1>2 DEF port_frame
<1>4. ~is_in_group(k, f.g) => port_frame(k, r, f) = r
  BY DEF port_frame
<1>5. ~Schaltet(f) /\ f.typ # "WECKER_SET" => port_frame(k, r, f) = r
  BY DEF port_frame, Schaltet
<1>6. ASSUME k.feature = {}, Schaltet(f), is_in_group(k, f.g)
      PROVE  /\ port_frame(k, r, f).pin <=> f.typ = "ON"
             /\ port_frame(k, r, f).timer = 0 /\ port_frame(k, r, f).weck = r.weck
  <2>1. CASE f.typ = "ON"
    <3>1. port_frame(k, r, f) = [r EXCEPT !.pin = TRUE, !.timer = 0]
      BY <1>6, <2>1 DEF port_frame, steigende_flanke
    <3> QED BY <3>1, <2>1 DEF Portsatz
  <2>2. CASE f.typ = "OFF"
    <3>1. port_frame(k, r, f) = [r EXCEPT !.pin = FALSE, !.timer = 0]
      BY <1>6, <2>2 DEF port_frame, fallende_flanke
    <3> QED BY <3>1, <2>2 DEF Portsatz
  <2> QED BY <1>6, <2>1, <2>2 DEF Schaltet
<1> QED BY <1>3, <1>4, <1>5, <1>6

(* What is on its way after a frame is taken out or frames are sent.       *)
LEMMA Entnommen ==
  ASSUME NEW B, NEW f
  PROVE  /\ BagToSet(BagRemove(B, f)) \subseteq BagToSet(B)
         /\ BagToSet(B) \subseteq BagToSet(BagRemove(B, f)) \cup {f}
  BY DEF BagToSet, BagRemove

LEMMA Hinzu ==
  ASSUME NEW B, NEW F
  PROVE  BagToSet(B (+) SetToBag(F)) = BagToSet(B) \cup F
  BY DEF BagToSet, SetToBag, (+)

(* The assumptions on the configuration, as the lemmas need them.          *)
LEMMA Konfiguriert ==
  /\ \A d \in Zonen : /\ zone[d].delay \in 0..255 /\ zone[d].action \subseteq 0..254
                      /\ zone[d].toggle \cap (zone[d].off \cup zone[d].on) = {}
  /\ \A d \in Ports : port[d].feature \subseteq Features /\ port[d].gruppen \in [1..4 -> 0..255]
  /\ \A e \in Eingaben : e[1] \in Boards /\ e[2] \in Frames
<1>1. Eingaben \subseteq Boards \X Frames
  BY BeleuchtungAssumption
<1>2. \A e \in Boards \X Frames : e[1] \in Boards /\ e[2] \in Frames
  OBVIOUS
<1>3. \A d \in Zonen : zone[d].toggle \cap (zone[d].off \cup zone[d].on) = {}
  BY BeleuchtungAssumption, Zenon
<1>5. \A d \in Zonen : zone[d].delay \in 0..255
  BY BeleuchtungAssumption
<1>6. \A d \in Zonen : zone[d].action \subseteq 0..254
  BY BeleuchtungAssumption, Zenon
<1>4. \A d \in Ports : port[d].feature \subseteq Features /\ port[d].gruppen \in [1..4 -> 0..255]
  BY BeleuchtungAssumption, Zenon
<1> QED BY <1>1, <1>2, <1>3, <1>4, <1>5, <1>6

(* Two groups that touch are related.                                      *)
LEMMA BeruehrtVerwandt ==
  ASSUME NEW G, NEW h \in G, NEW g, Beruehrt(h, g) \/ Beruehrt(g, h)
  PROVE  g \in Verwandt(G)
<1>1. CASE \E d \in Zonen : g \in zone[d].action /\ h \in zone[d].action
  BY <1>1 DEF Verwandt
<1>2. CASE \E d \in Ports : is_in_group(port[d], g) /\ is_in_group(port[d], h)
  <2>1. PICK d \in Ports : is_in_group(port[d], g) /\ is_in_group(port[d], h)
    BY <1>2
  <2>2. g \in ToSet(port[d].gruppen)
    <3>1. port[d].gruppen \in [1..4 -> 0..255]
      BY Konfiguriert
    <3>2. PICK i \in 1..4 : port[d].gruppen[i] = g
      BY <2>1 DEF is_in_group
    <3> QED BY <3>1, <3>2 DEF ToSet
  <2>3. d \in {e \in Ports : \E i \in G : is_in_group(port[e], i)}
    BY <2>1
  <2> QED BY <2>2, <2>3 DEF Verwandt
<1> QED BY <1>1, <1>2 DEF Beruehrt

(* What is on its way after a board has sent, and after one has received.  *)
LEMMA Geschickt ==
  ASSUME NEW b, NEW F, rx' = Gesendet(b, F)
  PROVE  /\ rx' = [c \in Boards |-> rx'[c]]
         /\ \A c \in Boards : /\ BagToSet(rx'[c]) \subseteq BagToSet(rx[c]) \cup F
                              /\ BagToSet(rx[c]) \subseteq BagToSet(rx'[c])
                              /\ c # b /\ geraete[c] # <<>> => F \subseteq BagToSet(rx'[c])
<1>1. \A c \in Boards : rx'[c] = IF c = b \/ geraete[c] = <<>> THEN rx[c]
                                 ELSE rx[c] (+) SetToBag(F)
  BY DEF Gesendet
<1>2. rx' = [c \in Boards |-> rx'[c]]
  BY DEF Gesendet
<1>3. \A c \in Boards : BagToSet(rx[c] (+) SetToBag(F)) = BagToSet(rx[c]) \cup F
  BY Hinzu
<1> QED BY <1>1, <1>2, <1>3

LEMMA Genommen ==
  ASSUME rx = [c \in Boards |-> rx[c]], NEW b \in Boards, NEW f,
         rx' = [rx EXCEPT ![b] = BagRemove(@, f)]
  PROVE  /\ rx' = [c \in Boards |-> rx'[c]]
         /\ \A c \in Boards : /\ BagToSet(rx'[c]) \subseteq BagToSet(rx[c])
                              /\ BagToSet(rx[c]) \subseteq BagToSet(rx'[c]) \cup {f}
                              /\ c # b => rx'[c] = rx[c]
<1>1. rx'[b] = BagRemove(rx[b], f) /\ \A c \in Boards : c # b => rx'[c] = rx[c]
  OBVIOUS
<1>2. rx' = [c \in Boards |-> rx'[c]]
  OBVIOUS
<1>3. /\ BagToSet(BagRemove(rx[b], f)) \subseteq BagToSet(rx[b])
      /\ BagToSet(rx[b]) \subseteq BagToSet(BagRemove(rx[b], f)) \cup {f}
  BY Entnommen
<1> QED BY <1>1, <1>2, <1>3

(* A frame at the devices of a board.                                      *)
LEMMA FrameWirkt ==
  ASSUME Satztypen, NEW b, NEW f \in Frames, f.typ # "DOWN", Frame(b, f)
  PROVE  /\ Satztypen'
         /\ \A d \in Zonen :
              IF d \in ToSet(geraete[b]) /\ Schaltet(f) /\ f.g \in zone[d].action
              THEN z'[d].state # "OFF" <=> f.typ = "ON"
              ELSE z'[d].state = z[d].state
         /\ \A d \in Ports :
              port[d].feature = {} /\ (is_in_group(port[d], f.g) => f.typ # "WECKER_SET") =>
              IF d \in ToSet(geraete[b]) /\ Schaltet(f) /\ is_in_group(port[d], f.g)
              THEN (p'[d].pin <=> f.typ = "ON") /\ p'[d].timer = 0 /\ p'[d].weck = p[d].weck
              ELSE p'[d] = p[d]
<1>1. /\ \A d \in Zonen : z'[d] = IF d \in ToSet(geraete[b]) THEN zone_frame(zone[d], z[d], f)
                                                             ELSE z[d]
      /\ \A d \in Ports : p'[d] = IF d \in ToSet(geraete[b]) THEN port_frame(port[d], p[d], f)
                                                             ELSE p[d]
      /\ z' = [d \in Zonen |-> z'[d]] /\ p' = [d \in Ports |-> p'[d]]
  BY DEF Frame
<1>2. /\ \A d \in Zonen : zone[d].delay \in 0..255 /\ z[d] \in Zonensatz
      /\ \A d \in Ports : /\ port[d].feature \subseteq Features
                          /\ port[d].gruppen \in [1..4 -> 0..255] /\ p[d] \in Portsatz
  BY Konfiguriert DEF Satztypen
<1>3. ASSUME NEW d \in Zonen
      PROVE  /\ z'[d] \in Zonensatz
             /\ IF d \in ToSet(geraete[b]) /\ Schaltet(f) /\ f.g \in zone[d].action
                THEN z'[d].state # "OFF" <=> f.typ = "ON"
                ELSE z'[d].state = z[d].state
  <2>1. /\ zone_frame(zone[d], z[d], f) \in Zonensatz
        /\ Schaltet(f) /\ f.g \in zone[d].action
             => (zone_frame(zone[d], z[d], f).state # "OFF" <=> f.typ = "ON")
        /\ ~(Schaltet(f) /\ f.g \in zone[d].action)
             => zone_frame(zone[d], z[d], f).state = z[d].state
    BY <1>2, ZoneFrame
  <2> QED BY <2>1, <1>1, <1>2
<1>4. ASSUME NEW d \in Ports
      PROVE  /\ p'[d] \in Portsatz
             /\ port[d].feature = {} /\ (is_in_group(port[d], f.g) => f.typ # "WECKER_SET") =>
                IF d \in ToSet(geraete[b]) /\ Schaltet(f) /\ is_in_group(port[d], f.g)
                THEN (p'[d].pin <=> f.typ = "ON") /\ p'[d].timer = 0 /\ p'[d].weck = p[d].weck
                ELSE p'[d] = p[d]
  <2> DEFINE q == port_frame(port[d], p[d], f)
  <2>1. /\ q \in Portsatz
        /\ ~is_in_group(port[d], f.g) => q = p[d]
        /\ ~Schaltet(f) /\ f.typ # "WECKER_SET" => q = p[d]
        /\ port[d].feature = {} /\ Schaltet(f) /\ is_in_group(port[d], f.g)
             => /\ q.pin <=> f.typ = "ON"
                /\ q.timer = 0 /\ q.weck = p[d].weck
    BY <1>2, PortFrame
  <2>2. p'[d] = IF d \in ToSet(geraete[b]) THEN q ELSE p[d]
    BY <1>1
  <2> HIDE DEF q
  <2> QED BY <2>1, <2>2, <1>2
<1>5. z' \in [Zonen -> Zonensatz] /\ p' \in [Ports -> Portsatz]
  BY <1>1, <1>3, <1>4
<1> QED BY <1>3, <1>4, <1>5 DEF Satztypen

(* The group frames of a zone, delivered to the devices of its board.      *)
Gruppenframes(v, A) == {[typ |-> v, g |-> h] : h \in A}

LEMMA InformWirkt ==
  ASSUME Satztypen, Dran \in Zonen, NEW r \in Zonensatz, inform_action_groups(r),
         NEW A, A = zone[Dran].action, NEW v, v = Meldung(r)
  PROVE  /\ Satztypen'
         /\ rx' = Gesendet(besuch.b, Gruppenframes(v, A))
         /\ \A d \in Zonen :
              /\ zone[d].action \cap A = {} => d = Dran \/ z'[d] = z[d]
              /\ zone[d].action \cap A # {} /\ d \in ToSet(geraete[besuch.b])
                   => (z'[d].state # "OFF" <=> v = "ON")
              /\ (z'[d].state # "OFF" <=> v = "ON") \/ z'[d] = z[d] \/ zone[d].action \cap A = {}
         /\ \A d \in Ports : Lampe(d) =>
              /\ (\A g \in A : ~is_in_group(port[d], g)) => p'[d] = p[d]
              /\ (\E g \in A : is_in_group(port[d], g)) /\ d \in ToSet(geraete[besuch.b])
                   => (p'[d].pin <=> v = "ON")
              /\ (p'[d].pin <=> v = "ON") \/ p'[d] = p[d]
              /\ p'[d] = p[d] \/ (p'[d].timer = 0 /\ p'[d].weck = p[d].weck)
<1> DEFINE hier == ToSet(geraete[besuch.b])
           K == zone[Dran].action
           F == {[typ |-> Meldung(r), g |-> g] : g \in K}
           r_von(d) == IF d = Dran THEN r ELSE z[d]
           erster(G) == CHOOSE f \in F : f.g \in G
           Ports_in(d) == {g \in K : is_in_group(port[d], g)}
<1>0. v \in {"ON", "OFF"} /\ (v = "ON" <=> r.state # "OFF")
  BY DEF Meldung
<1>1. F = Gruppenframes(v, A) /\ K = A
  BY DEF Gruppenframes
<1>2. /\ z' = [d \in Zonen |-> IF d \in hier /\ zone[d].action \cap K # {}
                               THEN zone_frame(zone[d], r_von(d), erster(zone[d].action))
                               ELSE r_von(d)]
      /\ p' = [d \in Ports |-> IF d \in hier /\ Ports_in(d) # {}
                               THEN port_frame(port[d], p[d], erster(Ports_in(d))) ELSE p[d]]
      /\ rx' = Gesendet(besuch.b, F)
  BY DEF inform_action_groups
<1>3. A \subseteq 0..254
  BY Konfiguriert
<1>4. ASSUME NEW f \in F
      PROVE  f \in Frames /\ f.typ = v /\ f.g \in A /\ Schaltet(f) /\ f.typ # "DOWN"
  <2>1. PICK h \in A : f = [typ |-> v, g |-> h]
    BY <1>1 DEF Gruppenframes
  <2> QED BY <2>1, <1>0, <1>3 DEF Frames, Schaltet
<1>5. ASSUME NEW G, G \cap A # {}
      PROVE  erster(G) \in F /\ erster(G).g \in G
  <2>0. PICK h \in A : h \in G
    BY <1>5
  <2>a. [typ |-> v, g |-> h] \in F /\ [typ |-> v, g |-> h].g = h
    BY <1>1 DEF Gruppenframes
  <2>1. \E f \in F : f.g \in G
    BY <2>0, <2>a
  <2> HIDE DEF F
  <2> QED BY <2>1
<1> HIDE DEF F, erster, K
<1>6. ASSUME NEW d \in Zonen
      PROVE  /\ z'[d] \in Zonensatz
             /\ zone[d].action \cap A = {} => d = Dran \/ z'[d] = z[d]
             /\ zone[d].action \cap A # {} /\ d \in hier => (z'[d].state # "OFF" <=> v = "ON")
             /\ (z'[d].state # "OFF" <=> v = "ON") \/ z'[d] = z[d] \/ zone[d].action \cap A = {}
  <2>1. r_von(d) \in Zonensatz /\ zone[d].delay \in 0..255
    BY Konfiguriert DEF Satztypen
  <2>2. CASE d \in hier /\ zone[d].action \cap A # {}
    <3> DEFINE e == erster(zone[d].action)
    <3>1. e \in F /\ e.g \in zone[d].action
      BY <1>5, <2>2
    <3>2. e \in Frames /\ e.typ = v /\ Schaltet(e) /\ e.typ # "DOWN"
      BY <1>4, <3>1
    <3>3. z'[d] = zone_frame(zone[d], r_von(d), e)
      BY <1>1, <1>2, <2>2
    <3> HIDE DEF e, r_von
    <3>4. z'[d] \in Zonensatz /\ (z'[d].state # "OFF" <=> v = "ON")
      BY <2>1, <3>1, <3>2, <3>3, ZoneFrame
    <3> QED BY <3>4, <2>2
  <2>3. CASE ~(d \in hier /\ zone[d].action \cap A # {})
    <3>1. z'[d] = r_von(d)
      BY <1>1, <1>2, <2>3
    <3> QED BY <2>1, <2>3, <3>1, <1>0
  <2> QED BY <2>2, <2>3
<1>7. ASSUME NEW d \in Ports
      PROVE  /\ p'[d] \in Portsatz
             /\ Lampe(d) =>
                /\ (\A g \in A : ~is_in_group(port[d], g)) => p'[d] = p[d]
                /\ (\E g \in A : is_in_group(port[d], g)) /\ d \in hier
                     => (p'[d].pin <=> v = "ON")
                /\ (p'[d].pin <=> v = "ON") \/ p'[d] = p[d]
                /\ p'[d] = p[d] \/ (p'[d].timer = 0 /\ p'[d].weck = p[d].weck)
  <2>1. /\ p[d] \in Portsatz /\ port[d].feature \subseteq Features
        /\ port[d].gruppen \in [1..4 -> 0..255]
    BY Konfiguriert DEF Satztypen
  <2>2. CASE d \in hier /\ Ports_in(d) # {}
    <3> DEFINE e == erster(Ports_in(d))
    <3>1. e \in F /\ e.g \in Ports_in(d)
      <4>1. Ports_in(d) \cap A # {}
        BY <1>1, <2>2
      <4> HIDE DEF Ports_in
      <4> QED BY <4>1, <1>5
    <3>2. e \in Frames /\ e.typ = v /\ Schaltet(e) /\ is_in_group(port[d], e.g)
      BY <1>4, <3>1
    <3>3. p'[d] = port_frame(port[d], p[d], e)
      BY <1>2, <2>2
    <3> HIDE DEF e
    <3>4. /\ p'[d] \in Portsatz
          /\ port[d].feature = {} => /\ p'[d].pin <=> v = "ON"
                                     /\ p'[d].timer = 0 /\ p'[d].weck = p[d].weck
      BY <2>1, <3>2, <3>3, PortFrame
    <3> QED BY <3>4, <2>2, <1>1 DEF Lampe
  <2>3. CASE ~(d \in hier /\ Ports_in(d) # {})
    <3>1. p'[d] = p[d]
      BY <1>2, <2>3
    <3> QED BY <2>1, <2>3, <3>1, <1>1
  <2> QED BY <2>2, <2>3
<1>8. z' \in [Zonen -> Zonensatz] /\ p' \in [Ports -> Portsatz]
  <2>1. z' = [d \in Zonen |-> z'[d]] /\ p' = [d \in Ports |-> p'[d]]
    BY <1>2
  <2> QED BY <2>1, <1>6, <1>7
<1> QED BY <1>1, <1>2, <1>6, <1>7, <1>8 DEF Satztypen

-----------------------------------------------------------------------------
(* What keeps a group settled: new frames that touch it say the same, its  *)
(* zones and lamps change only to v, and a board from which its frame is   *)
(* gone has followed it.                                                   *)
LEMMA BleibtEinmuetig ==
  ASSUME NEW g, NEW v, Einmuetig(g, v),
         \A b \in Boards : \A f \in BagToSet(rx'[b]) :
           f \in BagToSet(rx[b]) \/ ~Schaltet(f) \/ ~Beruehrt(f.g, g) \/ f.typ = v,
         \A d \in Zonen : g \in zone[d].action =>
           \/ z'[d].state # "OFF" <=> v = "ON"
           \/ z'[d].state = "OFF" <=> z[d].state = "OFF",
         \A d \in Ports : Lampe(d) /\ is_in_group(port[d], g) =>
           \/ p'[d].pin <=> v = "ON"
           \/ p'[d].pin <=> p[d].pin,
         \A b \in Boards : Kommt(b, g) =>
           \/ \E f \in BagToSet(rx'[b]) : Schaltet(f) /\ f.g = g
           \/ /\ \A d \in Zonen : d \in ToSet(geraete[b]) /\ g \in zone[d].action
                                    => (z'[d].state # "OFF" <=> v = "ON")
              /\ \A d \in Ports : d \in ToSet(geraete[b]) /\ Lampe(d) /\ is_in_group(port[d], g)
                                    => (p'[d].pin <=> v = "ON")
  PROVE  Einmuetig(g, v)'
<1>1. Unbestritten(g, v)'
  BY DEF Einmuetig, Unbestritten, Schaltet, Beruehrt, is_in_group
<1>2. ZonenFolgen(g, v)'
  <2> SUFFICES ASSUME NEW b \in Boards, NEW d \in Zonen,
                      d \in ToSet(geraete[b]), g \in zone[d].action
               PROVE  (z'[d].state # "OFF" <=> v = "ON") \/ Kommt(b, g)'
    BY DEF ZonenFolgen
  <2>1. (z[d].state # "OFF" <=> v = "ON") \/ Kommt(b, g)
    BY DEF Einmuetig, ZonenFolgen
  <2> QED BY <2>1 DEF Kommt, Schaltet
<1>3. LampenFolgen(g, v)'
  <2> SUFFICES ASSUME NEW b \in Boards, NEW d \in Ports,
                      d \in ToSet(geraete[b]), Lampe(d), is_in_group(port[d], g)
               PROVE  (p'[d].pin <=> v = "ON") \/ Kommt(b, g)'
    BY DEF LampenFolgen, Lampe, is_in_group
  <2>1. (p[d].pin <=> v = "ON") \/ Kommt(b, g)
    BY DEF Einmuetig, LampenFolgen
  <2> QED BY <2>1 DEF Kommt, Schaltet
<1> QED BY <1>1, <1>2, <1>3 DEF Einmuetig

(* What settles a group: frames that all say v go to the other boards,     *)
(* none that says otherwise is on its way to a related group, and the      *)
(* board that sends has followed.                                          *)
LEMMA WirdEinmuetig ==
  ASSUME NEW b \in Boards, NEW A, NEW g \in A, NEW v \in {"ON", "OFF"},
         Unwidersprochen(A, v),
         rx' = Gesendet(b, Gruppenframes(v, A)),
         \A d \in Zonen : d \in ToSet(geraete[b]) /\ g \in zone[d].action
                            => (z'[d].state # "OFF" <=> v = "ON"),
         \A d \in Ports : d \in ToSet(geraete[b]) /\ Lampe(d) /\ is_in_group(port[d], g)
                            => (p'[d].pin <=> v = "ON")
  PROVE  Einmuetig(g, v)'
<1> DEFINE F == Gruppenframes(v, A)
<1>1. \A f \in F : f.typ = v /\ Schaltet(f)
  BY DEF Gruppenframes, Schaltet
<1>2. PICK f0 \in F : f0.g = g
  <2>1. [typ |-> v, g |-> g] \in F /\ [typ |-> v, g |-> g].g = g
    BY DEF Gruppenframes
  <2> QED BY <2>1
<1> HIDE DEF F
<1>3. \A c \in Boards : /\ BagToSet(rx'[c]) \subseteq BagToSet(rx[c]) \cup F
                        /\ c # b /\ geraete[c] # <<>> => F \subseteq BagToSet(rx'[c])
  BY Geschickt DEF F
<1>4. Unbestritten(g, v)'
  <2> SUFFICES ASSUME NEW c \in Boards, NEW f \in BagToSet(rx'[c]), Schaltet(f), Beruehrt(f.g, g)
               PROVE  f.typ = v
    BY DEF Unbestritten, Schaltet, Beruehrt, is_in_group
  <2>1. CASE f \in F
    BY <2>1, <1>1
  <2>2. CASE f \in BagToSet(rx[c])
    <3>1. f.g \in Verwandt(A)
      BY BeruehrtVerwandt
    <3> QED BY <3>1, <2>2 DEF Unwidersprochen
  <2> QED BY <1>3, <2>1, <2>2
<1>5. ASSUME NEW c \in Boards, NEW d, d \in ToSet(geraete[c]), c # b
      PROVE  Kommt(c, g)'
  <2>1. geraete[c] # <<>>
    BY <1>5 DEF ToSet
  <2>2. f0 \in BagToSet(rx'[c]) /\ Schaltet(f0)
    BY <1>1, <1>2, <1>3, <1>5, <2>1
  <2> QED BY <2>2, <1>2 DEF Kommt, Schaltet
<1>6. ZonenFolgen(g, v)'
  BY <1>5 DEF ZonenFolgen
<1>7. LampenFolgen(g, v)'
  BY <1>5 DEF LampenFolgen, Lampe, is_in_group
<1> QED BY <1>4, <1>6, <1>7 DEF Einmuetig

(* What is settled after frames that say v to the groups G.                *)
LEMMA NeuesWort ==
  ASSUME NEW G, NEW v, NEW e \in Einigt(G, v)
  PROVE  \/ e \in einig /\ (e.typ = v \/ e.g \notin Verwandt(G))
         \/ e.typ = v /\ e.g \in G /\ Unwidersprochen(G, v)
<1>1. CASE e \in {w \in einig : w.typ = v \/ w.g \notin Verwandt(G)}
  BY <1>1
<1>2. CASE Unwidersprochen(G, v) /\ e \in [typ : {v}, g : G \cap Lichtgruppen]
  BY <1>2
<1> QED BY <1>1, <1>2 DEF Einigt

LEMMA EinigtTyp ==
  ASSUME NEW G, NEW v \in {"ON", "OFF"}, einig \subseteq Worte
  PROVE  Einigt(G, v) \subseteq Worte
<1>1. [typ : {v}, g : G \cap Lichtgruppen] \subseteq Worte
  BY DEF Worte
<1> QED BY <1>1 DEF Einigt

-----------------------------------------------------------------------------
(* No button and no alarm clock reaches a lamp.                            *)
LEMMA LampeFrame ==
  ASSUME NEW d \in Ports, Lampe(d), NEW f, VonAussen(f), is_in_group(port[d], f.g)
  PROVE  f.typ # "DOWN" /\ f.typ # "WECKER_SET" /\ port[d].feature = {}
  BY DEF Lampe, VonAussen

(* A button, a panel or a host sends a frame other than TASTER_DOWN.       *)
LEMMA EingabeFrame ==
  ASSUME Felder, NEW b \in Boards, NEW f \in Frames, VonAussen(f), f.typ # "DOWN",
         Frame(b, f), rx' = Gesendet(b, {f}),
         einig' = IF Schaltet(f) THEN Einigt({f.g}, f.typ) ELSE einig
  PROVE  Felder'
<1>1. /\ Satztypen'
      /\ \A d \in Zonen :
           IF d \in ToSet(geraete[b]) /\ Schaltet(f) /\ f.g \in zone[d].action
           THEN z'[d].state # "OFF" <=> f.typ = "ON"
           ELSE z'[d].state = z[d].state
      /\ \A d \in Ports :
           port[d].feature = {} /\ (is_in_group(port[d], f.g) => f.typ # "WECKER_SET") =>
           IF d \in ToSet(geraete[b]) /\ Schaltet(f) /\ is_in_group(port[d], f.g)
           THEN (p'[d].pin <=> f.typ = "ON") /\ p'[d].timer = 0 /\ p'[d].weck = p[d].weck
           ELSE p'[d] = p[d]
  BY FrameWirkt DEF Felder
<1>2. \A d \in Ports : Lampe(d) =>
        IF d \in ToSet(geraete[b]) /\ Schaltet(f) /\ is_in_group(port[d], f.g)
        THEN (p'[d].pin <=> f.typ = "ON") /\ p'[d].timer = 0 /\ p'[d].weck = p[d].weck
        ELSE p'[d] = p[d]
  <2> SUFFICES ASSUME NEW d \in Ports, Lampe(d)
               PROVE  port[d].feature = {} /\ (is_in_group(port[d], f.g) => f.typ # "WECKER_SET")
    BY <1>1
  <2> QED BY LampeFrame DEF Lampe
<1>3. /\ rx' = [c \in Boards |-> rx'[c]]
      /\ \A c \in Boards : /\ BagToSet(rx'[c]) \subseteq BagToSet(rx[c]) \cup {f}
                           /\ BagToSet(rx[c]) \subseteq BagToSet(rx'[c])
  BY Geschickt
<1>4. Lampen'
  BY <1>2 DEF Felder, Lampen, Lampe, is_in_group
<1>5. \A c \in Boards : \A e \in BagToSet(rx'[c]) :
        e \in Frames /\ (VonAussen(e) \/ Schaltet(e))
  BY <1>3 DEF Felder
<1>6. einig' \subseteq Worte
  BY EinigtTyp DEF Felder, Schaltet
<1>7. ASSUME NEW e \in einig, ~Schaltet(f) \/ e.typ = f.typ \/ e.g \notin Verwandt({f.g})
      PROVE  Einmuetig(e.g, e.typ)'
  <2>0. PICK g, v : g = e.g /\ v = e.typ
    OBVIOUS
  <2>1. Einmuetig(g, v)
    BY <2>0 DEF Felder, Einmuetigkeit
  <2>2. Schaltet(f) /\ Beruehrt(f.g, g) => f.typ = v
    BY <1>7, <2>0, BeruehrtVerwandt
  <2>3. \A c \in Boards : \A h \in BagToSet(rx'[c]) :
          h \in BagToSet(rx[c]) \/ ~Schaltet(h) \/ ~Beruehrt(h.g, g) \/ h.typ = v
    BY <1>3, <2>2
  <2>4. \A d \in Zonen : g \in zone[d].action =>
          \/ z'[d].state # "OFF" <=> v = "ON"
          \/ z'[d].state = "OFF" <=> z[d].state = "OFF"
    BY <1>1, <2>2 DEF Beruehrt
  <2>5. \A d \in Ports : Lampe(d) /\ is_in_group(port[d], g) =>
          \/ p'[d].pin <=> v = "ON"
          \/ p'[d].pin <=> p[d].pin
    BY <1>2, <2>2 DEF Beruehrt
  <2>6. ASSUME NEW c \in Boards, Kommt(c, g)
        PROVE  \/ \E h \in BagToSet(rx'[c]) : Schaltet(h) /\ h.g = g
               \/ /\ \A d \in Zonen : d \in ToSet(geraete[c]) /\ g \in zone[d].action
                                        => (z'[d].state # "OFF" <=> v = "ON")
                  /\ \A d \in Ports :
                       d \in ToSet(geraete[c]) /\ Lampe(d) /\ is_in_group(port[d], g)
                         => (p'[d].pin <=> v = "ON")
    BY <1>3, <2>6 DEF Kommt
  <2>7. Einmuetig(g, v)'
    BY <2>1, <2>3, <2>4, <2>5, <2>6, BleibtEinmuetig
  <2> QED BY <2>0, <2>7
<1>8. ASSUME Schaltet(f), Unwidersprochen({f.g}, f.typ)
      PROVE  Einmuetig(f.g, f.typ)'
  <2>1. f.typ \in {"ON", "OFF"} /\ f = [typ |-> f.typ, g |-> f.g]
    BY <1>8 DEF Schaltet, Frames
  <2>2. {f} = Gruppenframes(f.typ, {f.g})
    BY <2>1 DEF Gruppenframes
  <2>3. rx' = Gesendet(b, Gruppenframes(f.typ, {f.g}))
    BY <2>2
  <2>4. \A d \in Zonen : d \in ToSet(geraete[b]) /\ f.g \in zone[d].action
                            => (z'[d].state # "OFF" <=> f.typ = "ON")
    BY <1>1, <1>8
  <2>5. \A d \in Ports : d \in ToSet(geraete[b]) /\ Lampe(d) /\ is_in_group(port[d], f.g)
                            => (p'[d].pin <=> f.typ = "ON")
    BY <1>2, <1>8
  <2> QED BY <1>8, <2>1, <2>3, <2>4, <2>5, WirdEinmuetig
<1>9. Einmuetigkeit'
  <2> SUFFICES ASSUME NEW e \in einig' PROVE Einmuetig(e.g, e.typ)'
    BY DEF Einmuetigkeit
  <2>1. CASE e \in einig /\ (~Schaltet(f) \/ e.typ = f.typ \/ e.g \notin Verwandt({f.g}))
    BY <2>1, <1>7
  <2>2. CASE Schaltet(f) /\ e.typ = f.typ /\ e.g = f.g /\ Unwidersprochen({f.g}, f.typ)
    BY <2>2, <1>8
  <2>3. Schaltet(f) => einig' = Einigt({f.g}, f.typ)
    OBVIOUS
  <2> QED BY <2>1, <2>2, <2>3, NeuesWort
<1> QED BY <1>1, <1>3, <1>4, <1>5, <1>6, <1>9 DEF Felder, VonAussen, Schaltet

(* A board takes such a frame out of its queue.                            *)
LEMMA EmpfangFrame ==
  ASSUME Felder, NEW b \in Boards, NEW f \in BagToSet(rx[b]), f.typ # "DOWN",
         Frame(b, f), rx' = [rx EXCEPT ![b] = BagRemove(@, f)], einig' = einig
  PROVE  Felder'
<1>0. f \in Frames /\ (VonAussen(f) \/ Schaltet(f))
  BY DEF Felder
<1>1. /\ Satztypen'
      /\ \A d \in Zonen :
           IF d \in ToSet(geraete[b]) /\ Schaltet(f) /\ f.g \in zone[d].action
           THEN z'[d].state # "OFF" <=> f.typ = "ON"
           ELSE z'[d].state = z[d].state
      /\ \A d \in Ports :
           port[d].feature = {} /\ (is_in_group(port[d], f.g) => f.typ # "WECKER_SET") =>
           IF d \in ToSet(geraete[b]) /\ Schaltet(f) /\ is_in_group(port[d], f.g)
           THEN (p'[d].pin <=> f.typ = "ON") /\ p'[d].timer = 0 /\ p'[d].weck = p[d].weck
           ELSE p'[d] = p[d]
  BY <1>0, FrameWirkt DEF Felder
<1>2. \A d \in Ports : Lampe(d) =>
        IF d \in ToSet(geraete[b]) /\ Schaltet(f) /\ is_in_group(port[d], f.g)
        THEN (p'[d].pin <=> f.typ = "ON") /\ p'[d].timer = 0 /\ p'[d].weck = p[d].weck
        ELSE p'[d] = p[d]
  <2> SUFFICES ASSUME NEW d \in Ports, Lampe(d)
               PROVE  port[d].feature = {} /\ (is_in_group(port[d], f.g) => f.typ # "WECKER_SET")
    BY <1>1
  <2> QED BY <1>0, LampeFrame DEF Lampe, Schaltet
<1>3. /\ rx' = [c \in Boards |-> rx'[c]]
      /\ \A c \in Boards : /\ BagToSet(rx'[c]) \subseteq BagToSet(rx[c])
                           /\ BagToSet(rx[c]) \subseteq BagToSet(rx'[c]) \cup {f}
                           /\ c # b => rx'[c] = rx[c]
  BY Genommen DEF Felder
<1>4. Lampen'
  BY <1>2 DEF Felder, Lampen, Lampe, is_in_group
<1>5. \A c \in Boards : \A e \in BagToSet(rx'[c]) :
        e \in Frames /\ (VonAussen(e) \/ Schaltet(e))
  BY <1>3 DEF Felder
<1>6. Einmuetigkeit'
  <2> SUFFICES ASSUME NEW e0 \in einig PROVE Einmuetig(e0.g, e0.typ)'
    BY DEF Einmuetigkeit
  <2>0. PICK g, v : g = e0.g /\ v = e0.typ
    OBVIOUS
  <2>1. Einmuetig(g, v)
    BY <2>0 DEF Felder, Einmuetigkeit
  <2>2. Schaltet(f) /\ Beruehrt(f.g, g) => f.typ = v
    BY <2>1 DEF Einmuetig, Unbestritten
  <2>3. \A c \in Boards : \A e \in BagToSet(rx'[c]) :
          e \in BagToSet(rx[c]) \/ ~Schaltet(e) \/ ~Beruehrt(e.g, g)
    BY <1>3
  <2>4. \A d \in Zonen : g \in zone[d].action =>
          \/ z'[d].state # "OFF" <=> v = "ON"
          \/ z'[d].state = "OFF" <=> z[d].state = "OFF"
    BY <1>1, <2>2 DEF Beruehrt
  <2>5. \A d \in Ports : Lampe(d) /\ is_in_group(port[d], g) =>
          \/ p'[d].pin <=> v = "ON"
          \/ p'[d].pin <=> p[d].pin
    BY <1>2, <2>2 DEF Beruehrt
  <2>6. ASSUME NEW c \in Boards, Kommt(c, g)
        PROVE  \/ \E e \in BagToSet(rx'[c]) : Schaltet(e) /\ e.g = g
               \/ /\ \A d \in Zonen : d \in ToSet(geraete[c]) /\ g \in zone[d].action
                                        => (z'[d].state # "OFF" <=> v = "ON")
                  /\ \A d \in Ports :
                       d \in ToSet(geraete[c]) /\ Lampe(d) /\ is_in_group(port[d], g)
                         => (p'[d].pin <=> v = "ON")
    <3>1. PICK e \in BagToSet(rx[c]) : Schaltet(e) /\ e.g = g
      BY <2>6 DEF Kommt
    <3>2. CASE e \in BagToSet(rx'[c])
      BY <3>1, <3>2
    <3>3. CASE e \notin BagToSet(rx'[c])
      <4>1. e = f /\ c = b
        BY <1>3, <3>1, <3>3
      <4>2. ASSUME NEW d \in Zonen, d \in ToSet(geraete[c]), g \in zone[d].action
            PROVE  z'[d].state # "OFF" <=> v = "ON"
        <5>1. f.typ = v
          BY <4>1, <4>2, <3>1, <2>2 DEF Beruehrt
        <5> QED BY <5>1, <4>1, <4>2, <3>1, <1>1
      <4>3. ASSUME NEW d \in Ports, d \in ToSet(geraete[c]), Lampe(d), is_in_group(port[d], g)
            PROVE  p'[d].pin <=> v = "ON"
        <5>1. f.typ = v
          BY <4>1, <4>3, <3>1, <2>2 DEF Beruehrt
        <5> QED BY <5>1, <4>1, <4>3, <3>1, <1>2
      <4> QED BY <4>2, <4>3
    <3> QED BY <3>2, <3>3
  <2>7. Einmuetig(g, v)'
    BY <2>1, <2>3, <2>4, <2>5, <2>6, BleibtEinmuetig
  <2> QED BY <2>0, <2>7
<1> QED BY <1>1, <1>3, <1>4, <1>5, <1>6 DEF Felder, VonAussen, Schaltet

(* A frame leaves a queue without an effect on the devices of the board.   *)
LEMMA NurWeg ==
  ASSUME Felder, NEW b \in Boards, NEW f, rx' = [rx EXCEPT ![b] = BagRemove(@, f)],
         UNCHANGED <<z, p>>, einig' \subseteq einig, ~Schaltet(f) \/ \A e \in einig' : e.g # f.g
  PROVE  Felder'
<1>1. /\ rx' = [c \in Boards |-> rx'[c]]
      /\ \A c \in Boards : /\ BagToSet(rx'[c]) \subseteq BagToSet(rx[c])
                           /\ BagToSet(rx[c]) \subseteq BagToSet(rx'[c]) \cup {f}
  BY Genommen DEF Felder
<1>2. Satztypen' /\ Lampen' /\ einig' \subseteq Worte
  BY DEF Felder, Satztypen, Lampen, Lampe, is_in_group
<1>3. \A c \in Boards : \A e \in BagToSet(rx'[c]) :
        e \in Frames /\ (VonAussen(e) \/ Schaltet(e))
  BY <1>1 DEF Felder
<1>4. Einmuetigkeit'
  <2> SUFFICES ASSUME NEW e0 \in einig' PROVE Einmuetig(e0.g, e0.typ)'
    BY DEF Einmuetigkeit
  <2>0. PICK g, v : g = e0.g /\ v = e0.typ
    OBVIOUS
  <2>1. Einmuetig(g, v)
    BY <2>0 DEF Felder, Einmuetigkeit
  <2>2. \A c \in Boards : Kommt(c, g) => \E e \in BagToSet(rx'[c]) : Schaltet(e) /\ e.g = g
    BY <1>1, <2>0 DEF Kommt
  <2>3. \A c \in Boards : \A e \in BagToSet(rx'[c]) :
          e \in BagToSet(rx[c]) \/ ~Schaltet(e) \/ ~Beruehrt(e.g, g)
    BY <1>1
  <2>4. Einmuetig(g, v)'
    BY <2>1, <2>2, <2>3, BleibtEinmuetig
  <2> QED BY <2>0, <2>4
<1> QED BY <1>1, <1>2, <1>3, <1>4 DEF Felder, VonAussen, Schaltet

(* A frame that switches nothing starts for the other boards.              *)
LEMMA NurHinzu ==
  ASSUME Felder, NEW b \in Boards, NEW f \in Frames, VonAussen(f), ~Schaltet(f),
         rx' = Gesendet(b, {f}), UNCHANGED <<z, p, einig>>
  PROVE  Felder'
<1>1. /\ rx' = [c \in Boards |-> rx'[c]]
      /\ \A c \in Boards : /\ BagToSet(rx'[c]) \subseteq BagToSet(rx[c]) \cup {f}
                           /\ BagToSet(rx[c]) \subseteq BagToSet(rx'[c])
  BY Geschickt
<1>2. Satztypen' /\ Lampen' /\ einig' \subseteq Worte
  BY DEF Felder, Satztypen, Lampen, Lampe, is_in_group
<1>3. \A c \in Boards : \A e \in BagToSet(rx'[c]) :
        e \in Frames /\ (VonAussen(e) \/ Schaltet(e))
  BY <1>1 DEF Felder
<1>4. Einmuetigkeit'
  <2> SUFFICES ASSUME NEW e0 \in einig PROVE Einmuetig(e0.g, e0.typ)'
    BY DEF Einmuetigkeit
  <2>0. PICK g, v : g = e0.g /\ v = e0.typ
    OBVIOUS
  <2>1. Einmuetig(g, v)
    BY <2>0 DEF Felder, Einmuetigkeit
  <2>2. \A c \in Boards : Kommt(c, g) => \E e \in BagToSet(rx'[c]) : Schaltet(e) /\ e.g = g
    BY <1>1, <2>0 DEF Kommt
  <2>3. \A c \in Boards : \A e \in BagToSet(rx'[c]) :
          e \in BagToSet(rx[c]) \/ ~Schaltet(e) \/ ~Beruehrt(e.g, g)
    BY <1>1
  <2>4. Einmuetig(g, v)'
    BY <2>1, <2>2, <2>3, BleibtEinmuetig
  <2> QED BY <2>0, <2>4
<1> QED BY <1>1, <1>2, <1>3, <1>4 DEF Felder, VonAussen, Schaltet

(* Ports other than lamps change, zones in no other way than on or off.    *)
LEMMA NurGeraete ==
  ASSUME Felder, Satztypen', UNCHANGED <<rx, einig>>,
         \A d \in Zonen : z'[d].state = "OFF" <=> z[d].state = "OFF",
         \A d \in Ports : Lampe(d) => p'[d] = p[d]
  PROVE  Felder'
<1>1. Lampen' /\ einig' \subseteq Worte /\ rx' = [c \in Boards |-> rx'[c]]
  BY DEF Felder, Lampen, Lampe, is_in_group
<1>2. \A c \in Boards : \A e \in BagToSet(rx'[c]) :
        e \in Frames /\ (VonAussen(e) \/ Schaltet(e))
  BY DEF Felder
<1>3. Einmuetigkeit'
  <2> SUFFICES ASSUME NEW e0 \in einig PROVE Einmuetig(e0.g, e0.typ)'
    BY DEF Einmuetigkeit
  <2>0. PICK g, v : g = e0.g /\ v = e0.typ
    OBVIOUS
  <2>1. Einmuetig(g, v)
    BY <2>0 DEF Felder, Einmuetigkeit
  <2>2. \A c \in Boards : Kommt(c, g) => \E e \in BagToSet(rx'[c]) : Schaltet(e) /\ e.g = g
    BY DEF Kommt
  <2>3. Einmuetig(g, v)'
    BY <2>1, <2>2, BleibtEinmuetig
  <2> QED BY <2>0, <2>3
<1> QED BY <1>1, <1>2, <1>3 DEF Felder, VonAussen, Schaltet

(* A zone that is visited, whether it says so to its groups or not.        *)
LEMMA MeldenHaelt ==
  ASSUME Felder, Dran \in Zonen, besuch.b \in Boards, NEW r \in Zonensatz, NEW ja \in BOOLEAN,
         ~ja => (r.state = "OFF" <=> z[Dran].state = "OFF"),
         melden(r, ja), einig' = IF ja THEN Einigt(zone[Dran].action, Meldung(r)) ELSE einig
  PROVE  Felder'
<1>1. CASE ~ja
  <2>1. z' = [z EXCEPT ![Dran] = r] /\ UNCHANGED <<p, rx, einig>>
    BY <1>1 DEF melden
  <2>2. Satztypen' /\ \A d \in Zonen : z'[d].state = "OFF" <=> z[d].state = "OFF"
    BY <1>1, <2>1 DEF Felder, Satztypen
  <2> QED BY <2>1, <2>2, NurGeraete
<1>2. CASE ja
  <2> DEFINE A == zone[Dran].action
             v == Meldung(r)
             b == besuch.b
  <2>1. v \in {"ON", "OFF"} /\ inform_action_groups(r)
    BY <1>2 DEF Meldung, melden
  <2>2. Satztypen
    BY DEF Felder
  <2>3. /\ Satztypen'
        /\ rx' = Gesendet(b, Gruppenframes(v, A))
        /\ \A d \in Zonen :
             /\ zone[d].action \cap A = {} => d = Dran \/ z'[d] = z[d]
             /\ zone[d].action \cap A # {} /\ d \in ToSet(geraete[b])
                  => (z'[d].state # "OFF" <=> v = "ON")
             /\ (z'[d].state # "OFF" <=> v = "ON") \/ z'[d] = z[d] \/ zone[d].action \cap A = {}
        /\ \A d \in Ports : Lampe(d) =>
             /\ (\A g \in A : ~is_in_group(port[d], g)) => p'[d] = p[d]
             /\ (\E g \in A : is_in_group(port[d], g)) /\ d \in ToSet(geraete[b])
                  => (p'[d].pin <=> v = "ON")
             /\ (p'[d].pin <=> v = "ON") \/ p'[d] = p[d]
             /\ p'[d] = p[d] \/ (p'[d].timer = 0 /\ p'[d].weck = p[d].weck)
    BY <2>1, <2>2, InformWirkt
  <2>4. b \in Boards /\ A \subseteq 0..254
    BY Konfiguriert
  <2> HIDE DEF A, v, b
  <2>5. /\ rx' = [c \in Boards |-> rx'[c]]
        /\ \A c \in Boards : /\ BagToSet(rx'[c]) \subseteq BagToSet(rx[c]) \cup Gruppenframes(v, A)
                             /\ BagToSet(rx[c]) \subseteq BagToSet(rx'[c])
    BY <2>3, Geschickt
  <2>6. \A f \in Gruppenframes(v, A) : f \in Frames /\ Schaltet(f) /\ f.g \in A /\ f.typ = v
    BY <2>1, <2>4 DEF Gruppenframes, Frames, Schaltet
  <2>7. Lampen'
    BY <2>3 DEF Felder, Lampen, Lampe, is_in_group
  <2>8. \A c \in Boards : \A e \in BagToSet(rx'[c]) :
          e \in Frames /\ (VonAussen(e) \/ Schaltet(e))
    BY <2>5, <2>6 DEF Felder
  <2>9. einig' = Einigt(A, v)
    BY <1>2 DEF A, v
  <2>10. einig' \subseteq Worte
    BY <2>1, <2>9, EinigtTyp DEF Felder
  <2>11. ASSUME NEW e0 \in einig, e0.typ = v \/ e0.g \notin Verwandt(A)
         PROVE  Einmuetig(e0.g, e0.typ)'
    <3>0. PICK g, w : g = e0.g /\ w = e0.typ
      OBVIOUS
    <3>1. Einmuetig(g, w)
      BY <3>0 DEF Felder, Einmuetigkeit
    <3>2. ASSUME NEW h \in A, Beruehrt(h, g) PROVE w = v
      BY <2>11, <3>0, <3>2, BeruehrtVerwandt
    <3>3. \A c \in Boards : \A e \in BagToSet(rx'[c]) :
            e \in BagToSet(rx[c]) \/ ~Schaltet(e) \/ ~Beruehrt(e.g, g) \/ e.typ = w
      BY <2>5, <2>6, <3>2
    <3>4. \A d \in Zonen : g \in zone[d].action => zone[d].action \cap A = {} \/ w = v
      BY <3>2 DEF Beruehrt
    <3>5. \A d \in Zonen : g \in zone[d].action =>
            (z'[d].state # "OFF" <=> w = "ON") \/ z'[d] = z[d]
      <4> SUFFICES ASSUME NEW d \in Zonen, g \in zone[d].action
                   PROVE  (z'[d].state # "OFF" <=> w = "ON") \/ z'[d] = z[d]
        OBVIOUS
      <4>1. CASE zone[d].action \cap A = {}
        <5>1. d # Dran
          BY <4>1 DEF A
        <5> QED BY <4>1, <5>1, <2>3
      <4>2. CASE zone[d].action \cap A # {}
        BY <3>4, <4>2, <2>3
      <4> QED BY <4>1, <4>2
    <3>6. \A d \in Ports : Lampe(d) /\ is_in_group(port[d], g) =>
            (p'[d].pin <=> w = "ON") \/ p'[d] = p[d]
      BY <2>3, <3>2 DEF Beruehrt
    <3>7. \A c \in Boards : Kommt(c, g) => \E e \in BagToSet(rx'[c]) : Schaltet(e) /\ e.g = g
      BY <2>5 DEF Kommt
    <3>8. Einmuetig(g, w)'
      BY <3>1, <3>3, <3>5, <3>6, <3>7, BleibtEinmuetig
    <3> QED BY <3>0, <3>8
  <2>12. ASSUME NEW g \in A, Unwidersprochen(A, v)
         PROVE  Einmuetig(g, v)'
    <3>1. \A d \in Zonen : d \in ToSet(geraete[b]) /\ g \in zone[d].action
                             => (z'[d].state # "OFF" <=> v = "ON")
      BY <2>3
    <3>2. \A d \in Ports : d \in ToSet(geraete[b]) /\ Lampe(d) /\ is_in_group(port[d], g)
                             => (p'[d].pin <=> v = "ON")
      BY <2>3
    <3>3. rx' = Gesendet(b, Gruppenframes(v, A))
      BY <2>3
    <3> QED BY <2>1, <2>4, <2>12, <3>1, <3>2, <3>3, WirdEinmuetig
  <2>13. Einmuetigkeit'
    <3> SUFFICES ASSUME NEW e0 \in einig' PROVE Einmuetig(e0.g, e0.typ)'
      BY DEF Einmuetigkeit
    <3>1. CASE e0 \in einig /\ (e0.typ = v \/ e0.g \notin Verwandt(A))
      BY <3>1, <2>11
    <3>2. CASE e0.typ = v /\ e0.g \in A /\ Unwidersprochen(A, v)
      BY <3>2, <2>12
    <3> QED BY <3>1, <3>2, <2>9, NeuesWort
  <2> QED BY <2>3, <2>5, <2>7, <2>8, <2>10, <2>13 DEF Felder, VonAussen, Schaltet
<1> QED BY <1>1, <1>2

-----------------------------------------------------------------------------
(* A visit begins at a board, and goes on.                                 *)
LEMMA BesuchBeginnt ==
  ASSUME NEW b \in Boards, NEW was \in {"DOWN", "sekunde"}, NEW g \in 0..254,
         besuch' = Besuch(b, was, g), was = "DOWN" => VonAussen(Down(g))
  PROVE  Besuchsteil'
<1>1. geraete[b] \in Seq(Zonen \cup Ports)
  BY BeleuchtungAssumption
<1>2. CASE geraete[b] = <<>>
  BY <1>2 DEF Besuch, Besuchsteil, Besuchstyp, Keiner
<1>3. CASE geraete[b] # <<>>
  <2>1. besuch' = [b |-> b, was |-> was, g |-> g, rest |-> geraete[b]]
    BY <1>3 DEF Besuch
  <2>2. besuch' \in [b : Boards, was : {"DOWN", "sekunde"}, g : 0..254,
                     rest : Seq(Zonen \cup Ports)] /\ besuch'.rest # <<>>
    BY <1>1, <1>3, <2>1
  <2>3. besuch'.was = was /\ besuch'.g = g
    BY <2>1
  <2> QED BY <2>2, <2>3 DEF Besuchsteil, Besuchstyp, VonAussen, Down
<1> QED BY <1>2, <1>3

LEMMA BesuchWeiter ==
  ASSUME Besuchsteil, besuch.was \in {"DOWN", "sekunde"}, Weiter
  PROVE  Besuchsteil' /\ besuch.b \in Boards
<1>1. /\ besuch \in [b : Boards, was : {"DOWN", "sekunde"}, g : 0..254,
                     rest : Seq(Zonen \cup Ports)]
      /\ besuch.rest # <<>>
  BY DEF Besuchsteil, Besuchstyp, Keiner
<1>2. CASE Len(besuch.rest) = 1
  <2>1. besuch' = Keiner
    BY <1>2 DEF Weiter
  <2> QED BY <2>1, <1>1 DEF Besuchsteil, Besuchstyp, Keiner
<1>3. CASE Len(besuch.rest) # 1
  <2>1. besuch' = [besuch EXCEPT !.rest = Tail(besuch.rest)]
    BY <1>3, <1>1 DEF Weiter
  <2>2. besuch.rest \in Seq(Zonen \cup Ports)
    BY <1>1
  <2>3. Tail(besuch.rest) \in Seq(Zonen \cup Ports) /\ Tail(besuch.rest) # <<>>
    <3>1. PICK s \in Seq(Zonen \cup Ports) : s = besuch.rest
      BY <2>2
    <3>2. Len(s) \in Nat \ {0, 1}
      BY <3>1, <1>1, <1>3
    <3>3. Tail(s) \in Seq(Zonen \cup Ports) /\ Len(Tail(s)) = Len(s) - 1
      BY <3>2
    <3>4. Len(Tail(s)) # 0
      BY <3>2, <3>3
    <3>5. Tail(s) # <<>>
      <4>1. Len(<<>>) = 0
        OBVIOUS
      <4> QED BY <3>4, <4>1, Zenon
    <3> QED BY <3>1, <3>3, <3>5
  <2>4. /\ besuch' \in [b : Boards, was : {"DOWN", "sekunde"}, g : 0..254,
                        rest : Seq(Zonen \cup Ports)]
        /\ besuch'.rest # <<>> /\ besuch'.was = besuch.was /\ besuch'.g = besuch.g
    BY <1>1, <2>1, <2>3
  <2> QED BY <1>1, <2>4 DEF Besuchsteil, Besuchstyp, VonAussen, Down
<1> QED BY <1>2, <1>3

(* One lemma for each action.                                              *)
LEMMA OrdnungInit == Init => Lichtordnung
<1> SUFFICES ASSUME Init PROVE Lichtordnung
  OBVIOUS
<1>1. MaxEingaben \in Nat /\ MaxVerlust \in Nat /\ EXT_SEC_COUNTER_MAX \in Nat \ {0, 1}
  BY BeleuchtungAssumption
<1>2. Satztypen
  <2>1. 0 \in 0..ZaehlerMax
    BY ZaehlerGross
  <2>2. Dunkel \in Zonensatz
    BY <1>1, <2>1 DEF Dunkel, Zonensatz, Lichtzustaende
  <2>3. Aus \in Portsatz
    BY <2>1 DEF Aus, Portsatz
  <2> QED BY <2>2, <2>3 DEF Init, Satztypen
<1>3. rx = [b \in Boards |-> rx[b]] /\ \A b \in Boards : BagToSet(rx[b]) = {}
  BY DEF Init, EmptyBag, SetToBag, BagToSet
<1>4. Lampen
  BY DEF Init, Lampen, Aus
<1>5. Einmuetigkeit
  <2> SUFFICES ASSUME NEW g PROVE Einmuetig(g, "OFF")
    BY DEF Einmuetigkeit, Init
  <2>1. Unbestritten(g, "OFF")
    BY <1>3 DEF Unbestritten
  <2>2. ZonenFolgen(g, "OFF")
    BY DEF ZonenFolgen, Init, Dunkel
  <2>3. LampenFolgen(g, "OFF")
    BY DEF LampenFolgen, Init, Aus
  <2> QED BY <2>1, <2>2, <2>3 DEF Einmuetig
<1>8. einig \subseteq Worte
  BY DEF Init, Worte
<1>6. Felder
  BY <1>2, <1>3, <1>4, <1>5, <1>8 DEF Felder
<1>7. Besuchsteil
  BY DEF Init, Besuchsteil, Besuchstyp, Keiner
<1> QED BY <1>1, <1>6, <1>7 DEF Lichtordnung, Init

LEMMA OrdnungEingabe ==
  ASSUME Lichtordnung, NEW e \in Eingaben, Eingabe(e[1], e[2])
  PROVE  Lichtordnung'
<1> DEFINE b == e[1]
           f == e[2]
<1>1. b \in Boards /\ f \in Frames /\ VonAussen(f)
  BY Konfiguriert DEF VonAussen
<1>2. Felder /\ Besuchsteil
  BY DEF Lichtordnung
<1>3. /\ eingegeben < MaxEingaben /\ eingegeben' = eingegeben + 1 /\ UNCHANGED verloren
      /\ callback(b, f) /\ rx' = Gesendet(b, {f})
      /\ einig' = IF Schaltet(f) THEN Einigt({f.g}, f.typ) ELSE einig
  BY DEF Eingabe
<1> HIDE DEF b, f
<1>4. eingegeben' \in 0..MaxEingaben /\ verloren' \in 0..MaxVerlust
  BY <1>3, BeleuchtungAssumption DEF Lichtordnung
<1>5. CASE f.typ = "DOWN"
  <2>1. besuch' = Besuch(b, "DOWN", f.g) /\ UNCHANGED <<z, p>>
    BY <1>3, <1>5 DEF callback
  <2>2. ~Schaltet(f) /\ UNCHANGED einig
    BY <1>3, <1>5 DEF Schaltet
  <2>3. f.g \in 0..254 /\ f = Down(f.g)
    BY <1>1, <1>5 DEF Frames, Down
  <2>4. Felder'
    BY <1>1, <1>2, <1>3, <2>1, <2>2, NurHinzu
  <2>5. Besuchsteil'
    BY <1>1, <2>1, <2>3, BesuchBeginnt
  <2> QED BY <1>4, <2>4, <2>5 DEF Lichtordnung
<1>6. CASE f.typ # "DOWN"
  <2>1. Frame(b, f) /\ UNCHANGED besuch
    BY <1>3, <1>6 DEF callback
  <2>2. Felder'
    BY <1>1, <1>2, <1>3, <1>6, <2>1, EingabeFrame
  <2>3. Besuchsteil'
    BY <1>2, <2>1 DEF Besuchsteil, Besuchstyp, VonAussen, Down
  <2> QED BY <1>4, <2>2, <2>3 DEF Lichtordnung
<1> QED BY <1>5, <1>6

LEMMA OrdnungEmpfang ==
  ASSUME Lichtordnung, NEW b \in Boards, NEW f \in BagToSet(rx[b]), Empfang(b, f)
  PROVE  Lichtordnung'
<1>1. Felder /\ Besuchsteil
  BY DEF Lichtordnung
<1>2. f \in Frames /\ (VonAussen(f) \/ Schaltet(f))
  BY <1>1 DEF Felder
<1>3. /\ callback(b, f) /\ rx' = [rx EXCEPT ![b] = BagRemove(@, f)]
      /\ UNCHANGED <<eingegeben, verloren, einig>>
  BY DEF Empfang
<1>4. CASE f.typ = "DOWN"
  <2>1. besuch' = Besuch(b, "DOWN", f.g) /\ UNCHANGED <<z, p>>
    BY <1>3, <1>4 DEF callback
  <2>2. ~Schaltet(f) /\ VonAussen(f)
    BY <1>2, <1>4 DEF Schaltet
  <2>3. f.g \in 0..254 /\ f = Down(f.g)
    BY <1>2, <1>4 DEF Frames, Down
  <2>4. Felder'
    BY <1>1, <1>3, <2>1, <2>2, NurWeg
  <2>5. Besuchsteil'
    BY <2>1, <2>2, <2>3, BesuchBeginnt
  <2> QED BY <1>3, <2>4, <2>5 DEF Lichtordnung
<1>5. CASE f.typ # "DOWN"
  <2>1. Frame(b, f) /\ UNCHANGED besuch
    BY <1>3, <1>5 DEF callback
  <2>2. Felder'
    BY <1>1, <1>3, <1>5, <2>1, EmpfangFrame
  <2>3. Besuchsteil'
    BY <1>1, <2>1 DEF Besuchsteil, Besuchstyp, VonAussen, Down
  <2> QED BY <1>3, <2>2, <2>3 DEF Lichtordnung
<1> QED BY <1>4, <1>5

LEMMA OrdnungVerlust ==
  ASSUME Lichtordnung, NEW b \in Boards, NEW f \in BagToSet(rx[b]), Verlust(b, f)
  PROVE  Lichtordnung'
<1>1. Felder'
  BY NurWeg DEF Lichtordnung, Verlust
<1>2. verloren' \in 0..MaxVerlust
  BY BeleuchtungAssumption DEF Lichtordnung, Verlust
<1>3. Besuchsteil'
  BY DEF Lichtordnung, Verlust, Besuchsteil, Besuchstyp, VonAussen, Down
<1> QED BY <1>1, <1>2, <1>3 DEF Lichtordnung, Verlust

LEMMA FelderStehen == ASSUME Felder, UNCHANGED <<z, p, rx, einig>> PROVE Felder'
<1>1. Satztypen'
  BY DEF Felder, Satztypen
<1> QED BY <1>1, NurGeraete

LEMMA OrdnungSekunde == ASSUME Lichtordnung, NEW b \in Boards, Sekunde(b) PROVE Lichtordnung'
<1>1. Felder'
  BY FelderStehen DEF Lichtordnung, Sekunde
<1>2. besuch' = Besuch(b, "sekunde", 0)
  BY DEF Sekunde
<1>3. Besuchsteil'
  BY <1>2, BesuchBeginnt
<1> QED BY <1>1, <1>3 DEF Lichtordnung, Sekunde

LEMMA OrdnungZone == ASSUME Lichtordnung, zone_down \/ zone_timer PROVE Lichtordnung'
<1>1. Felder /\ Besuchsteil /\ Satztypen
  BY DEF Lichtordnung, Felder
<1>2. /\ besuch.was \in {"DOWN", "sekunde"} /\ Dran \in Zonen /\ Weiter
      /\ UNCHANGED <<eingegeben, verloren>>
  BY DEF zone_down, zone_timer
<1>3. Besuchsteil' /\ besuch.b \in Boards
  BY <1>1, <1>2, BesuchWeiter
<1> DEFINE k == zone[Dran]
<1>4. /\ k.delay \in 0..255 /\ k.toggle \cap (k.off \cup k.on) = {} /\ z[Dran] \in Zonensatz
  BY <1>1, <1>2, Konfiguriert DEF Satztypen
<1>5. CASE zone_down
  <2> DEFINE ja == down_informiert(k, z[Dran], besuch.g)
             r == down(k, z[Dran], besuch.g)
  <2>1. r \in Zonensatz /\ (~ja => (r.state = "OFF" <=> z[Dran].state = "OFF"))
    BY <1>4, DownTypen
  <2>2. (ja \/ besuch.g \in k.off \cup k.on) <=> ja
    BY DEF down_informiert
  <2>3. melden(r, ja) /\ einig' = IF ja THEN Einigt(k.action, Meldung(r)) ELSE einig
    BY <1>5, <2>2 DEF zone_down
  <2>4. ja \in BOOLEAN
    BY DEF down_informiert
  <2> HIDE DEF ja, r
  <2>5. Felder'
    BY <1>1, <1>2, <1>3, <2>1, <2>3, <2>4, MeldenHaelt
  <2> QED BY <1>2, <1>3, <2>5 DEF Lichtordnung
<1>6. CASE zone_timer
  <2> DEFINE ja == abgelaufen(k, z[Dran])
             r == zone_sekunde(k, z[Dran])
  <2>1. r \in Zonensatz /\ (~ja => r.state = z[Dran].state)
    BY <1>4, SekundeTypen
  <2>4. ja => Meldung(r) = "OFF"
    BY DEF zone_sekunde, Meldung
  <2>2. melden(r, ja) /\ einig' = IF ja THEN Einigt(k.action, Meldung(r)) ELSE einig
    BY <1>6, <2>4 DEF zone_timer
  <2>3. ja \in BOOLEAN
    BY DEF abgelaufen
  <2> HIDE DEF ja, r
  <2>5. Felder'
    BY <1>1, <1>2, <1>3, <2>1, <2>2, <2>3, MeldenHaelt
  <2> QED BY <1>2, <1>3, <2>5 DEF Lichtordnung
<1> QED BY <1>5, <1>6

LEMMA OrdnungPort == ASSUME Lichtordnung, port_down \/ port_timer PROVE Lichtordnung'
<1>1. Felder /\ Besuchsteil /\ Satztypen /\ Lampen
  BY DEF Lichtordnung, Felder
<1>2. /\ besuch.was \in {"DOWN", "sekunde"} /\ Dran \in Ports /\ Weiter
      /\ UNCHANGED <<z, rx, eingegeben, verloren, einig>>
  BY DEF port_down, port_timer
<1>3. Besuchsteil'
  BY <1>1, <1>2, BesuchWeiter
<1>4. /\ port[Dran].feature \subseteq Features /\ port[Dran].gruppen \in [1..4 -> 0..255]
      /\ p[Dran] \in Portsatz
  BY <1>1, <1>2, Konfiguriert DEF Satztypen
<1>5. /\ powerport_toggle(port[Dran], p[Dran]) \in Portsatz
      /\ port_sekunde(port[Dran], p[Dran]) \in Portsatz
  BY <1>4, PortTypen
<1>6. Satztypen' /\ \A d \in Ports : Lampe(d) => p'[d] = p[d]
  <2>1. CASE port_down
    <3>1. p' = IF is_in_group(port[Dran], besuch.g)
               THEN [p EXCEPT ![Dran] = powerport_toggle(port[Dran], p[Dran])] ELSE p
      BY <1>1, <1>2, <2>1 DEF port_down, Satztypen
    <3>2. is_in_group(port[Dran], besuch.g) => ~Lampe(Dran)
      <4>1. VonAussen(Down(besuch.g)) /\ Down(besuch.g).g = besuch.g
            /\ Down(besuch.g).typ = "DOWN"
        BY <1>1, <2>1 DEF port_down, Besuchsteil, Down
      <4> QED BY <1>2, <4>1, LampeFrame
    <3> QED BY <1>1, <1>2, <1>5, <3>1, <3>2 DEF Satztypen
  <2>2. CASE port_timer
    <3>1. p' = [p EXCEPT ![Dran] = port_sekunde(port[Dran], p[Dran])]
      BY <1>1, <1>2, <2>2 DEF port_timer, Satztypen
    <3>2. Lampe(Dran) => port_sekunde(port[Dran], p[Dran]) = p[Dran]
      <4>1. Lampe(Dran) => p[Dran].timer = 0
        BY <1>1, <1>2 DEF Lampen
      <4> QED BY <4>1 DEF port_sekunde
    <3> QED BY <1>1, <1>2, <1>5, <3>1, <3>2 DEF Satztypen
  <2> QED BY <2>1, <2>2, PortTypen DEF port_down, port_timer
<1>7. Felder'
  BY <1>1, <1>2, <1>6, NurGeraete
<1> QED BY <1>2, <1>3, <1>7 DEF Lichtordnung

LEMMA OrdnungSchritt == ASSUME Lichtordnung, [Next]_vars PROVE Lichtordnung'
<1>1. CASE UNCHANGED vars
  <2>1. Felder'
    BY <1>1, FelderStehen DEF Lichtordnung, vars
  <2> QED BY <1>1, <2>1 DEF Lichtordnung, vars, Besuchsteil, Besuchstyp, VonAussen, Down
<1>2. CASE \E e \in Eingaben : Eingabe(e[1], e[2])
  BY <1>2, OrdnungEingabe
<1>3. CASE \E b \in Boards : \E f \in BagToSet(rx[b]) : Empfang(b, f) \/ Verlust(b, f)
  BY <1>3, OrdnungEmpfang, OrdnungVerlust
<1>4. CASE \E b \in Boards : Sekunde(b)
  BY <1>4, OrdnungSekunde
<1>5. CASE Geraet
  BY <1>5, OrdnungZone, OrdnungPort DEF Geraet
<1> QED BY <1>1, <1>2, <1>3, <1>4, <1>5 DEF Next

(* Timers, click counters and frames stay in their types, and a visit      *)
(* always has a device before it (lichtzone_can_callback,                  *)
(* powerport_can_callback and their timer handlers).                       *)
THEOREM LichtTypKorrekt == Spec => []TypeOK
<1>1. Lichtordnung => TypeOK
  <2> SUFFICES ASSUME Lichtordnung PROVE TypeOK
    OBVIOUS
  <2>1. z \in [Zonen -> Zonensatz] /\ p \in [Ports -> Portsatz] /\ einig \subseteq Worte
    BY DEF Lichtordnung, Felder, Satztypen
  <2>2. \A b \in Boards : BagToSet(rx[b]) \subseteq Frames
    BY DEF Lichtordnung, Felder
  <2>3. besuch = Keiner <=> besuch.rest = <<>>
    BY DEF Lichtordnung, Besuchsteil, Besuchstyp, Keiner
  <2> QED BY <2>1, <2>2, <2>3 DEF Lichtordnung, TypeOK, Zonensatz, Portsatz, Worte
<1> QED
  BY <1>1, OrdnungInit, OrdnungSchritt, PTL DEF Spec

(* Zones and lamps follow the last word of a settled group once its frames *)
(* have arrived, for every house: any boards, devices, groups and delays,  *)
(* and whatever was pressed, lost or overtaken before; zones that say the  *)
(* same together settle it, too (lichtzone_inform_action_groups,           *)
(* powerport_can_callback).                                                *)
THEOREM LichtWirdEinig == Spec => []Einig
<1>1. Lichtordnung => Einig
  <2> SUFFICES ASSUME Lichtordnung, NEW e \in einig, e.g \notin Unterwegs
               PROVE  /\ \A d \in Zonen : e.g \in zone[d].action
                                          => (z[d].state # "OFF" <=> e.typ = "ON")
                      /\ \A l \in Ports : Lampe(l) /\ is_in_group(port[l], e.g)
                                          => (p[l].pin <=> e.typ = "ON")
    BY DEF Einig
  <2>1. Einmuetig(e.g, e.typ)
    BY DEF Lichtordnung, Felder, Einmuetigkeit
  <2>2. \A b \in Boards : ~Kommt(b, e.g)
    BY DEF Kommt, Unterwegs
  <2>3. \A d \in Zonen \cup Ports : \E b \in Boards : d \in ToSet(geraete[b])
    BY BeleuchtungAssumption
  <2>4. \A d \in Zonen : e.g \in zone[d].action => (z[d].state # "OFF" <=> e.typ = "ON")
    BY <2>1, <2>2, <2>3 DEF Einmuetig, ZonenFolgen
  <2>5. \A l \in Ports : Lampe(l) /\ is_in_group(port[l], e.g) => (p[l].pin <=> e.typ = "ON")
    BY <2>1, <2>2, <2>3 DEF Einmuetig, LampenFolgen
  <2> QED BY <2>4, <2>5
<1> QED
  BY <1>1, OrdnungInit, OrdnungSchritt, PTL DEF Spec
=============================================================================
