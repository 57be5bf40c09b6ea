--------------------------- MODULE HeizkreisProofs ---------------------------
(***************************************************************************)
(* Proofs about the heating circuit: a window that stays open closes the   *)
(* valve by the deadline, for every configuration and every timing of the  *)
(* two boards, as long as the reports that get lost are fewer than the     *)
(* time for which one report stops the heating allows.                     *)
(*                                                                         *)
(* Two counts run against each other: the counter of the window contact    *)
(* until its next report, and the counter of the valve for which the last  *)
(* report stops the heating.  Each board may be a second ahead of the      *)
(* other, and every lost report costs REED seconds.                        *)
(***************************************************************************)
EXTENDS Heizkreis, FiniteSetTheorems, WellFoundedInduction, TLAPS

MaxVerlust == Max({v.verlust : v \in Vorraete})
MaxReed == Max({Gruppe, REED - 1})

(* The seconds the board of the valve is ahead of the board of the contact *)
(* within this second, and the time the reports lost so far have cost.     *)
Vorsprung(d) == IF d = {"Fuehler"} THEN 1 ELSE IF d = {"Ventil"} THEN -1 ELSE 0
Verzug(r) == REED * (MaxVerlust - r)

(* No report since the window was opened or a board started: so few        *)
(* seconds have passed.                                                    *)
Ungehoert(o, c, d, r) == o + c <= MaxReed + 1 + Vorsprung(d) + Verzug(r)

(* A report has come: it stops the heating for so long, ...                *)
Stoppt(s, c, d, r) == s + Vorsprung(d) - c >= HEIZSTOP - REED - Verzug(r)
(* ... and the valve is stopped in the next second and closed in the one   *)
(* after.                                                                  *)
Schliesst(o, g) ==
  \/ o <= MaxReed + 2 + Verzug(0)
  \/ /\ g.pwm_width = 0
     /\ o <= MaxReed + 3 + Verzug(0) \/ g.pin = 0 \/ g.ventilpflege_counter > 0

Felder == {"mode", "manual_rate", "pwm_counter", "pwm_width", "pwm_end",
           "waermebedarf_counter", "received_interval_counter", "measure_value",
           "duration_counter", "thermostat_temp", "reed_heiz_stop_counter",
           "ventilpflege_counter", "timer_counter", "pin"}
IstVentil(g) == /\ g = [f \in Felder |-> g[f]]
                /\ g.pwm_counter \in Nat /\ g.reed_heiz_stop_counter \in Nat

Vorrat == [befehle : SUBSET Befehle, fenster : Nat, temp : Nat, uhr : Nat, zone : Nat,
           verlust : Nat, neustart : Nat, andere : Nat, defekt : Nat]

Typen == /\ IstVentil(h)
         /\ reed.timer_counter \in 0..MaxReed
         /\ vorrat \in Vorrat /\ vorrat.verlust <= MaxVerlust
         /\ fenster \in BOOLEAN /\ offen \in Nat
         /\ dran \in {Bretter, {"Ventil"}, {"Fuehler"}}

Rechtzeitig ==
  /\ Typen
  /\ ~fenster => offen = 0
  /\ fenster => \/ Ungehoert(offen, reed.timer_counter, dran, vorrat.verlust)
                \/ /\ Stoppt(h.reed_heiz_stop_counter, reed.timer_counter, dran, vorrat.verlust)
                   /\ Schliesst(offen, h)

-----------------------------------------------------------------------------
(* The numbers.                                                            *)
LEMMA Zahlen ==
  /\ HEIZSTOP \in Nat /\ HEIZSTOP > 0 /\ REED \in Nat /\ REED > 0 /\ TAKT \in Nat
  /\ Gruppe \in Nat /\ MaxReed \in Nat /\ REED - 1 \in 0..MaxReed /\ Gruppe \in 0..MaxReed
<1>1. /\ HEIZSTOP \in Nat /\ HEIZSTOP > 0 /\ REED \in Nat /\ REED > 0 /\ TAKT \in Nat
      /\ Gruppe \in Nat
  BY HeizungAssumption, HeizkreisAssumption
<1>2. \E x \in {Gruppe, REED - 1} : \A y \in {Gruppe, REED - 1} : x >= y
  BY <1>1
<1>3. MaxReed \in {Gruppe, REED - 1} /\ \A y \in {Gruppe, REED - 1} : MaxReed >= y
  BY <1>2 DEF MaxReed, Max
<1> QED
  BY <1>1, <1>3

(* A set of losses that is bounded has a largest one.                      *)
LEMMA GroessterVerlust ==
  ASSUME NEW n \in Nat, \A v \in Vorraete : v.verlust <= n, Vorraete # {}
  PROVE  /\ MaxVerlust \in Nat /\ MaxVerlust <= n
         /\ \A v \in Vorraete : v.verlust <= MaxVerlust
<1> DEFINE S == {v.verlust : v \in Vorraete}
           U == {m \in Nat : \A y \in S : y <= m}
           R == OpToRel(<, Nat)
<1>1. S \subseteq Nat /\ S # {}
  BY HeizkreisAssumption
<1>2. n \in U
  OBVIOUS
<1>3. IsWellFoundedOn(R, Nat)
  BY NatLessThanWellFounded
<1>4. U \subseteq Nat /\ U # {}
  BY <1>2
<1>5. \A m \in U : m \in Nat /\ \A y \in S : y <= m
  OBVIOUS
<1>6. \A m \in Nat : (\A y \in S : y <= m) => m \in U
  OBVIOUS
<1>7. \A v \in Vorraete : v.verlust \in S
  OBVIOUS
<1>8. MaxVerlust = Max(S)
  BY DEF MaxVerlust
<1> HIDE DEF S, U, R
<1>9. PICK m \in U : \A y \in U : ~(<<y, m>> \in R)
  BY <1>3, <1>4, WFMin
<1>10. \A y \in U : ~(y < m)
  BY <1>4, <1>9 DEF R, OpToRel
<1>11. m \in S
  <2>1. SUFFICES ASSUME m \notin S PROVE FALSE
    OBVIOUS
  <2>2. \A y \in S : y \in Nat /\ y < m
    BY <1>1, <1>5, <2>1
  <2>3. PICK y \in S : y \in Nat
    BY <1>1
  <2>4. m - 1 \in Nat /\ \A x \in S : x <= m - 1
    BY <1>5, <2>2, <2>3
  <2>5. m - 1 \in U
    BY <1>6, <2>4
  <2> QED BY <1>5, <1>10, <2>5
<1>12. \A y \in S : m >= y
  BY <1>1, <1>5
<1>13. Max(S) \in S /\ \A y \in S : Max(S) >= y
  BY <1>11, <1>12 DEF Max
<1> QED
  BY <1>1, <1>2, <1>5, <1>7, <1>8, <1>13

(* The product: a lost report adds REED seconds to the delay.              *)
LEMMA Verzugsregeln ==
  ASSUME MaxVerlust \in Nat
  PROVE  \A q, r \in Nat : q <= r /\ r <= MaxVerlust =>
           /\ Verzug(q) \in Nat /\ Verzug(r) \in Nat /\ Verzug(0) \in Nat
           /\ Verzug(r) <= Verzug(q) /\ Verzug(q) <= Verzug(0)
           /\ q < r => Verzug(r) + REED <= Verzug(q)
<1>1. \A a, b \in Nat : a * b \in Nat /\ (b > 0 => a <= a * b)
  OBVIOUS
<1>2. \A a, b, c \in Nat : a * (b + c) = a * b + a * c
  OBVIOUS
<1> SUFFICES ASSUME NEW q \in Nat, NEW r \in Nat, q <= r, r <= MaxVerlust
             PROVE  /\ Verzug(q) \in Nat /\ Verzug(r) \in Nat /\ Verzug(0) \in Nat
                    /\ Verzug(r) <= Verzug(q) /\ Verzug(q) <= Verzug(0)
                    /\ q < r => Verzug(r) + REED <= Verzug(q)
  OBVIOUS
<1>3. PICK x \in Nat, y \in Nat : x = MaxVerlust - r /\ y = r - q
  OBVIOUS
<1>4. MaxVerlust - q = x + y /\ MaxVerlust - 0 = (x + y) + q
  BY <1>3
<1>5. Verzug(r) = REED * x /\ Verzug(q) = REED * x + REED * y /\ Verzug(0) = REED * (x + y) + REED * q
  BY <1>2, <1>3, <1>4, Zahlen DEF Verzug
<1>6. Verzug(0) = REED * x + REED * y + REED * q
  BY <1>2, <1>5, Zahlen
<1>7. /\ REED * x \in Nat /\ REED * y \in Nat /\ REED * q \in Nat
      /\ y > 0 => REED <= REED * y
  BY <1>1, Zahlen
<1>8. q < r => y > 0
  BY <1>3
<1> HIDE DEF Verzug
<1> QED
  BY <1>5, <1>6, <1>7, <1>8, Zahlen

-----------------------------------------------------------------------------
(* The second of the valve, operator by operator.                          *)
LEMMA Sekundenwerte ==
  ASSUME NEW g, IstVentil(g), NEW t, NEW x, x = Sekundentakt(g, t)
  PROVE  /\ IstVentil(x)
         /\ x.reed_heiz_stop_counter = Weniger(g.reed_heiz_stop_counter)
         /\ x.reed_heiz_stop_counter > 0 => x.pwm_width = 0
         /\ g.pwm_width = 0 => x.pin = 0
<1> DEFINE a == heizung_handle_pwm(g)
           b == [a EXCEPT
                   !.ventilpflege_counter = heizung_check_ventilpflege(g, Weniger(@), t),
                   !.received_interval_counter = IF @ = BYTE THEN @ ELSE @ + 1,
                   !.duration_counter = Weniger(@),
                   !.mode = IF g.duration_counter = 1 THEN "AUTOMATIK" ELSE @,
                   !.reed_heiz_stop_counter = Weniger(@)]
<1>1. /\ a = [f \in Felder |-> a[f]]
      /\ a.pwm_counter \in Nat /\ a.reed_heiz_stop_counter = g.reed_heiz_stop_counter
      /\ g.pwm_width = 0 => a.pin = 0
  <2> DEFINE neu == g.pwm_counter + 1 >= g.pwm_end
             c == IF neu THEN 0 ELSE g.pwm_counter + 1
             v == IF c >= g.pwm_width THEN 0 ELSE IF neu THEN 1 ELSE g.pin
  <2>1. c \in Nat
    BY DEF IstVentil
  <2>2. a = [g EXCEPT !.pwm_counter = c, !.pin = v]
    BY DEF heizung_handle_pwm
  <2>3. g.pwm_width = 0 => v = 0
    BY <2>1
  <2>4. g = [f \in Felder |-> g[f]]
    BY DEF IstVentil
  <2> HIDE DEF a, c, v
  <2>5. /\ a = [f \in Felder |-> a[f]] /\ a.pwm_counter = c /\ a.pin = v
        /\ a.reed_heiz_stop_counter = g.reed_heiz_stop_counter
    BY <2>2, <2>4 DEF Felder
  <2> QED BY <2>1, <2>3, <2>5
<1> HIDE DEF a
<1>2. /\ b = [f \in Felder |-> b[f]]
      /\ b.pwm_counter = a.pwm_counter /\ b.pin = a.pin
      /\ b.reed_heiz_stop_counter = Weniger(a.reed_heiz_stop_counter)
  BY <1>1 DEF Felder
<1>3. x = heizung_update_heizstop(b)
  BY DEF Sekundentakt, a
<1>4. Weniger(g.reed_heiz_stop_counter) \in Nat
  BY DEF IstVentil, Weniger
<1> HIDE DEF b
<1>5. /\ x = [f \in Felder |-> x[f]]
      /\ x.pwm_counter = b.pwm_counter /\ x.pin = b.pin
      /\ x.reed_heiz_stop_counter = b.reed_heiz_stop_counter
      /\ b.reed_heiz_stop_counter > 0 => x.pwm_width = 0
  BY <1>2, <1>3 DEF heizung_update_heizstop, Felder
<1> QED
  BY <1>1, <1>2, <1>4, <1>5 DEF IstVentil

(* What stays when the valve is set: a heating that is stopped is not      *)
(* opened by it, but for the exercise.                                     *)
Gestellt(g, x) ==
  /\ IstVentil(x)
  /\ x.reed_heiz_stop_counter = g.reed_heiz_stop_counter
  /\ x.ventilpflege_counter = g.ventilpflege_counter
  /\ g.reed_heiz_stop_counter > 0 /\ g.pwm_width = 0 => x.pwm_width = 0
  /\ g.pin = 0 => x.pin = 0 \/ x.ventilpflege_counter > 0

LEMMA PwmWerte ==
  ASSUME NEW g, IstVentil(g), NEW rate
  PROVE  Gestellt(g, heizung_set_pwm(g, rate)) /\ heizung_set_pwm(g, rate).pin = g.pin
<1> DEFINE x == heizung_set_pwm(g, rate)
<1>1. /\ x = [f \in Felder |-> x[f]]
      /\ x.pwm_counter = g.pwm_counter /\ x.pin = g.pin
      /\ x.reed_heiz_stop_counter = g.reed_heiz_stop_counter
      /\ x.ventilpflege_counter = g.ventilpflege_counter
      /\ g.reed_heiz_stop_counter > 0 => x.pwm_width = 0
  BY DEF IstVentil, heizung_set_pwm, heizung_update_heizstop, Felder
<1> HIDE DEF x
<1> QED
  BY <1>1 DEF IstVentil, Gestellt, x

LEMMA TempWerte ==
  ASSUME NEW g, IstVentil(g), NEW soll, NEW ist
  PROVE  Gestellt(g, heizung_set_pwm_by_temp(g, soll, ist))
<1> DEFINE a == heizung_set_pwm(g, 100)
           b == [a EXCEPT !.waermebedarf_counter = VERZUG]
<1>1. Gestellt(g, a) /\ Gestellt(g, heizung_set_pwm(g, 0))
  BY PwmWerte
<1> HIDE DEF a
<1>2. /\ b = [f \in Felder |-> b[f]]
      /\ b.pwm_counter = a.pwm_counter /\ b.pin = a.pin /\ b.pwm_width = a.pwm_width
      /\ b.reed_heiz_stop_counter = a.reed_heiz_stop_counter
      /\ b.ventilpflege_counter = a.ventilpflege_counter
  BY <1>1 DEF Gestellt, IstVentil, Felder
<1> HIDE DEF b
<1>3. Gestellt(g, b)
  BY <1>1, <1>2 DEF Gestellt, IstVentil
<1>4. Gestellt(g, g)
  BY DEF Gestellt
<1>5. heizung_set_pwm_by_temp(g, soll, ist) \in {heizung_set_pwm(g, 0), b, g}
  BY DEF heizung_set_pwm_by_temp, a, b
<1> QED
  BY <1>1, <1>3, <1>4, <1>5

LEMMA RegelWerte ==
  ASSUME NEW g, IstVentil(g), NEW t, NEW zn, NEW tmps
  PROVE  Gestellt(g, Regle(g, t, zn, tmps))
<1> DEFINE p == g.ventilpflege_counter > 0
           a == heizung_set_pwm(g, IF p THEN 100 ELSE 0)
           b == [a EXCEPT !.manual_rate = 0, !.pin = IF p THEN 1 ELSE 0]
           i == heizung_get_matching_zeitzone_index(zn, t)
           ist == g.measure_value
<1>1. Gestellt(g, a)
  BY PwmWerte
<1> HIDE DEF a
<1>2. /\ b = [f \in Felder |-> b[f]]
      /\ b.pwm_counter = a.pwm_counter /\ b.pin = IF p THEN 1 ELSE 0
      /\ b.pwm_width = a.pwm_width
      /\ b.reed_heiz_stop_counter = a.reed_heiz_stop_counter
      /\ b.ventilpflege_counter = a.ventilpflege_counter
  BY <1>1 DEF Gestellt, IstVentil, Felder
<1> HIDE DEF b
<1>3. Gestellt(g, b)
  BY <1>1, <1>2 DEF Gestellt, IstVentil
<1>4. Gestellt(g, g)
  BY DEF Gestellt
<1>5. /\ Gestellt(g, heizung_set_pwm(g, g.manual_rate)) /\ Gestellt(g, heizung_set_pwm(g, 0))
      /\ Gestellt(g, heizung_set_pwm_by_temp(g, tmps[i], ist))
      /\ Gestellt(g, heizung_set_pwm_by_temp(g, g.thermostat_temp, ist))
  BY PwmWerte, TempWerte
<1>6. Regle(g, t, zn, tmps) \in
        {b, heizung_set_pwm(g, g.manual_rate), heizung_set_pwm_by_temp(g, tmps[i], ist),
         heizung_set_pwm(g, 0), heizung_set_pwm_by_temp(g, g.thermostat_temp, ist), g}
  BY DEF Regle, a, b
<1> QED
  BY <1>3, <1>4, <1>5, <1>6

LEMMA StellWerte ==
  ASSUME NEW g, IstVentil(g), NEW t, NEW zn, NEW tmps
  PROVE  Gestellt(g, Stelle(g, t, zn, tmps))
<1> DEFINE a == [g EXCEPT !.timer_counter = 0]
           b == [g EXCEPT !.timer_counter = @ + 1]
<1>1. ASSUME NEW x, x = a \/ x = b
      PROVE  /\ IstVentil(x)
             /\ x.reed_heiz_stop_counter = g.reed_heiz_stop_counter
             /\ x.ventilpflege_counter = g.ventilpflege_counter
             /\ x.pwm_width = g.pwm_width /\ x.pin = g.pin
  BY <1>1 DEF IstVentil, Felder
<1> HIDE DEF a, b
<1>2. Gestellt(g, b)
  BY <1>1 DEF Gestellt
<1>3. Gestellt(a, Regle(a, t, zn, tmps))
  BY <1>1, RegelWerte
<1>4. Gestellt(g, Regle(a, t, zn, tmps))
  BY <1>1, <1>3 DEF Gestellt
<1> QED
  BY <1>2, <1>4 DEF Stelle, a, b

LEMMA MeldeWerte ==
  ASSUME NEW g, IstVentil(g)
  PROVE  /\ Gestellt(g, Gemeldet(g))
<1> DEFINE b == [g EXCEPT !.waermebedarf_counter = IF @ = 0 THEN BEDARF ELSE @ - 1]
<1>1. /\ b = [f \in Felder |-> b[f]]
      /\ b.pwm_counter = g.pwm_counter /\ b.pin = g.pin /\ b.pwm_width = g.pwm_width
      /\ b.reed_heiz_stop_counter = g.reed_heiz_stop_counter
      /\ b.ventilpflege_counter = g.ventilpflege_counter
  BY DEF IstVentil, Felder
<1> HIDE DEF b
<1>2. Gestellt(g, b) /\ Gestellt(g, g)
  BY <1>1 DEF Gestellt, IstVentil
<1> QED
  BY <1>2 DEF Gemeldet, b

(* Together: a second in which the heating is stopped at the end stops the *)
(* valve, and closes one that was stopped before.                          *)
LEMMA VentilWerte ==
  ASSUME NEW g, IstVentil(g), NEW t, NEW zn, NEW tmps, NEW x,
         x = Gemeldet(Stelle(Sekundentakt(g, t), t, zn, tmps))
  PROVE  /\ IstVentil(x)
         /\ x.reed_heiz_stop_counter = Weniger(g.reed_heiz_stop_counter)
         /\ x.reed_heiz_stop_counter > 0 =>
              /\ x.pwm_width = 0
              /\ g.pwm_width = 0 => x.pin = 0 \/ x.ventilpflege_counter > 0
<1> DEFINE a == Sekundentakt(g, t)
           b == Stelle(a, t, zn, tmps)
<1>1. /\ IstVentil(a)
      /\ a.reed_heiz_stop_counter = Weniger(g.reed_heiz_stop_counter)
      /\ a.reed_heiz_stop_counter > 0 => a.pwm_width = 0
      /\ g.pwm_width = 0 => a.pin = 0
  BY Sekundenwerte
<1> HIDE DEF a
<1>2. Gestellt(a, b)
  BY <1>1, StellWerte
<1> HIDE DEF b
<1>3. IstVentil(b)
  BY <1>2 DEF Gestellt
<1>4. Gestellt(b, x)
  BY <1>3, MeldeWerte DEF a, b
<1> QED
  BY <1>1, <1>2, <1>4 DEF Gestellt

-----------------------------------------------------------------------------
(* The boards take turns.                                                  *)
Stand == {Bretter, {"Ventil"}, {"Fuehler"}}
Nach(d, b) == IF d = {b} THEN Bretter ELSE d \ {b}

LEMMA Vorsprungsregeln ==
  \A d \in Stand :
    /\ Vorsprung(d) \in {-1, 0, 1}
    /\ "Ventil" \in d => /\ Nach(d, "Ventil") \in Stand /\ Vorsprung(d) <= 0
                         /\ Vorsprung(Nach(d, "Ventil")) = Vorsprung(d) + 1
    /\ "Fuehler" \in d => /\ Nach(d, "Fuehler") \in Stand /\ Vorsprung(d) >= 0
                          /\ Vorsprung(Nach(d, "Fuehler")) = Vorsprung(d) - 1
<1>1. Bretter # {"Ventil"} /\ Bretter # {"Fuehler"} /\ {"Ventil"} # {"Fuehler"}
  BY DEF Bretter
<1>2. Bretter \ {"Ventil"} = {"Fuehler"} /\ Bretter \ {"Fuehler"} = {"Ventil"}
  BY DEF Bretter
<1>3. Vorsprung(Bretter) = 0 /\ Vorsprung({"Ventil"}) = -1 /\ Vorsprung({"Fuehler"}) = 1
  BY <1>1 DEF Vorsprung
<1>4. /\ Nach(Bretter, "Ventil") = {"Fuehler"} /\ Nach(Bretter, "Fuehler") = {"Ventil"}
      /\ Nach({"Ventil"}, "Ventil") = Bretter /\ Nach({"Fuehler"}, "Fuehler") = Bretter
  BY <1>1, <1>2 DEF Nach
<1>5. "Ventil" \notin {"Fuehler"} /\ "Fuehler" \notin {"Ventil"}
  OBVIOUS
<1>6. ASSUME NEW d \in Stand
      PROVE  /\ Vorsprung(d) \in {-1, 0, 1}
             /\ "Ventil" \in d => /\ Nach(d, "Ventil") \in Stand /\ Vorsprung(d) <= 0
                                  /\ Vorsprung(Nach(d, "Ventil")) = Vorsprung(d) + 1
             /\ "Fuehler" \in d => /\ Nach(d, "Fuehler") \in Stand /\ Vorsprung(d) >= 0
                                   /\ Vorsprung(Nach(d, "Fuehler")) = Vorsprung(d) - 1
  <2>1. CASE d = Bretter
    BY <1>3, <1>4, <2>1 DEF Stand
  <2>2. CASE d = {"Ventil"}
    BY <1>3, <1>4, <1>5, <2>2 DEF Stand
  <2>3. CASE d = {"Fuehler"}
    BY <1>3, <1>4, <1>5, <2>3 DEF Stand
  <2> QED BY <2>1, <2>2, <2>3 DEF Stand
<1> QED
  BY <1>6

(* The bound of the theorem: the time for which one report stops the       *)
(* heating outlasts the reports that may be lost.                          *)
Genug == MaxVerlust \in Nat /\ Verzug(0) + REED + 2 <= HEIZSTOP

(* A second of the valve.                                                  *)
LEMMA RechneVentil ==
  ASSUME Genug, NEW o \in Nat, NEW s \in Nat, NEW c \in 0..MaxReed,
         NEW r \in Nat, NEW q \in Nat, q <= r, r <= MaxVerlust,
         NEW d \in Stand, "Ventil" \in d
  PROVE  /\ Ungehoert(o, c, d, r) => /\ Ungehoert(o + 1, c, Nach(d, "Ventil"), q)
                                     /\ o <= MaxReed + 1 + Verzug(0)
         /\ Stoppt(s, c, d, r) => /\ Stoppt(Weniger(s), c, Nach(d, "Ventil"), q)
                                  /\ Weniger(s) > 0
<1>1. /\ Verzug(q) \in Nat /\ Verzug(r) \in Nat /\ Verzug(0) \in Nat
      /\ Verzug(r) <= Verzug(q) /\ Verzug(q) <= Verzug(0)
  BY Verzugsregeln DEF Genug
<1>2. PICK e \in {-1, 0} : Vorsprung(d) = e /\ Vorsprung(Nach(d, "Ventil")) = e + 1
  <2>1. Vorsprung(d) \in {-1, 0, 1} /\ Vorsprung(d) <= 0
    BY Vorsprungsregeln
  <2>2. Vorsprung(d) \in {-1, 0}
    BY <2>1
  <2> QED BY <2>2, Vorsprungsregeln
<1>3. MaxReed \in Nat /\ HEIZSTOP \in Nat /\ REED \in Nat /\ c \in Nat
  BY Zahlen
<1>4. Verzug(0) + REED + 2 <= HEIZSTOP
  BY DEF Genug
<1>5. ASSUME Ungehoert(o, c, d, r)
      PROVE  /\ Ungehoert(o + 1, c, Nach(d, "Ventil"), q) /\ o <= MaxReed + 1 + Verzug(0)
  BY <1>1, <1>2, <1>3, <1>5 DEF Ungehoert
<1>6. ASSUME Stoppt(s, c, d, r)
      PROVE  Stoppt(Weniger(s), c, Nach(d, "Ventil"), q) /\ Weniger(s) > 0
  <2>1. s + e - c >= HEIZSTOP - REED - Verzug(r)
    BY <1>2, <1>6 DEF Stoppt
  <2>2. s >= 2 /\ Weniger(s) = s - 1
    BY <1>1, <1>2, <1>3, <1>4, <2>1 DEF Weniger
  <2>3. (s - 1) + (e + 1) - c >= HEIZSTOP - REED - Verzug(q)
    BY <1>1, <1>2, <1>3, <2>1
  <2> QED BY <1>2, <2>2, <2>3 DEF Stoppt
<1> QED
  BY <1>5, <1>6

(* A second of the window contact, with the window open: no report is due, *)
(* a report is lost, a report comes.                                       *)
LEMMA RechneFuehler ==
  ASSUME Genug, NEW o \in Nat, NEW s \in Nat, NEW c \in 0..MaxReed,
         NEW r \in Nat, NEW q \in Nat, q <= r, r <= MaxVerlust,
         NEW d \in Stand, "Fuehler" \in d
  PROVE  /\ c > 0 /\ Ungehoert(o, c, d, r) => Ungehoert(o, c - 1, Nach(d, "Fuehler"), q)
         /\ c > 0 /\ Stoppt(s, c, d, r) => Stoppt(s, c - 1, Nach(d, "Fuehler"), q)
         /\ c = 0 /\ q < r /\ Ungehoert(o, c, d, r) =>
              Ungehoert(o, REED - 1, Nach(d, "Fuehler"), q)
         /\ c = 0 /\ q < r /\ Stoppt(s, c, d, r) => Stoppt(s, REED - 1, Nach(d, "Fuehler"), q)
         /\ Stoppt(HEIZSTOP, REED - 1, Nach(d, "Fuehler"), q)
         /\ Ungehoert(o, c, d, r) => o <= MaxReed + 2 + Verzug(0)
<1>1. /\ Verzug(q) \in Nat /\ Verzug(r) \in Nat /\ Verzug(0) \in Nat
      /\ Verzug(r) <= Verzug(q) /\ Verzug(q) <= Verzug(0)
      /\ q < r => Verzug(r) + REED <= Verzug(q)
  BY Verzugsregeln DEF Genug
<1>2. PICK e \in {0, 1} : Vorsprung(d) = e /\ Vorsprung(Nach(d, "Fuehler")) = e - 1
  <2>1. Vorsprung(d) \in {-1, 0, 1} /\ Vorsprung(d) >= 0
    BY Vorsprungsregeln
  <2>2. Vorsprung(d) \in {0, 1}
    BY <2>1
  <2> QED BY <2>2, Vorsprungsregeln
<1>3. MaxReed \in Nat /\ HEIZSTOP \in Nat /\ REED \in Nat /\ c \in Nat
  BY Zahlen
<1>4. c > 0 /\ Ungehoert(o, c, d, r) => Ungehoert(o, c - 1, Nach(d, "Fuehler"), q)
  BY <1>1, <1>2, <1>3 DEF Ungehoert
<1>5. c > 0 /\ Stoppt(s, c, d, r) => Stoppt(s, c - 1, Nach(d, "Fuehler"), q)
  BY <1>1, <1>2, <1>3 DEF Stoppt
<1>6. c = 0 /\ q < r /\ Ungehoert(o, c, d, r) => Ungehoert(o, REED - 1, Nach(d, "Fuehler"), q)
  BY <1>1, <1>2, <1>3 DEF Ungehoert
<1>7. c = 0 /\ q < r /\ Stoppt(s, c, d, r) => Stoppt(s, REED - 1, Nach(d, "Fuehler"), q)
  BY <1>1, <1>2, <1>3 DEF Stoppt
<1>8. Stoppt(HEIZSTOP, REED - 1, Nach(d, "Fuehler"), q)
  BY <1>1, <1>2, <1>3 DEF Stoppt
<1>9. Ungehoert(o, c, d, r) => o <= MaxReed + 2 + Verzug(0)
  BY <1>1, <1>2, <1>3 DEF Ungehoert
<1> QED
  BY <1>4, <1>5, <1>6, <1>7, <1>8, <1>9

(* The window has just been opened, or a board has started.                *)
LEMMA RechneAnfang ==
  ASSUME Genug, NEW c \in 0..MaxReed, NEW r \in Nat, r <= MaxVerlust, NEW d \in Stand
  PROVE  Ungehoert(0, c, d, r)
<1>1. Verzug(r) \in Nat
  BY Verzugsregeln DEF Genug
<1>2. Vorsprung(d) \in {-1, 0, 1}
  BY Vorsprungsregeln
<1> QED
  BY <1>1, <1>2, Zahlen DEF Ungehoert

-----------------------------------------------------------------------------
(* What a step takes from the bounds.                                      *)
LEMMA Verbrauch ==
  ASSUME vorrat \in Vorrat
  PROVE  /\ \A n \in Nat : Verbraucht("verlust", n) =>
              vorrat' \in Vorrat /\ vorrat'.verlust = vorrat.verlust - n
         /\ (\/ Verbraucht("fenster", 1) \/ Verbraucht("temp", 1) \/ Verbraucht("uhr", 1)
             \/ Verbraucht("zone", 1) \/ Verbraucht("neustart", 1)
             \/ Verbraucht("andere", 1) \/ Verbraucht("defekt", 1)) =>
              vorrat' \in Vorrat /\ vorrat'.verlust = vorrat.verlust
<1>1. ASSUME NEW n \in Nat, Verbraucht("verlust", n)
      PROVE  vorrat' \in Vorrat /\ vorrat'.verlust = vorrat.verlust - n
  BY <1>1 DEF Verbraucht, Vorrat
<1>2. ASSUME Verbraucht("fenster", 1)
      PROVE  vorrat' \in Vorrat /\ vorrat'.verlust = vorrat.verlust
  BY <1>2 DEF Verbraucht, Vorrat
<1>3. ASSUME Verbraucht("temp", 1)
      PROVE  vorrat' \in Vorrat /\ vorrat'.verlust = vorrat.verlust
  BY <1>3 DEF Verbraucht, Vorrat
<1>4. ASSUME Verbraucht("uhr", 1)
      PROVE  vorrat' \in Vorrat /\ vorrat'.verlust = vorrat.verlust
  BY <1>4 DEF Verbraucht, Vorrat
<1>5. ASSUME Verbraucht("zone", 1)
      PROVE  vorrat' \in Vorrat /\ vorrat'.verlust = vorrat.verlust
  BY <1>5 DEF Verbraucht, Vorrat
<1>6. ASSUME Verbraucht("neustart", 1)
      PROVE  vorrat' \in Vorrat /\ vorrat'.verlust = vorrat.verlust
  BY <1>6 DEF Verbraucht, Vorrat
<1>7. ASSUME Verbraucht("andere", 1)
      PROVE  vorrat' \in Vorrat /\ vorrat'.verlust = vorrat.verlust
  BY <1>7 DEF Verbraucht, Vorrat
<1>8. ASSUME Verbraucht("defekt", 1)
      PROVE  vorrat' \in Vorrat /\ vorrat'.verlust = vorrat.verlust
  BY <1>8 DEF Verbraucht, Vorrat
<1> QED
  BY <1>1, <1>2, <1>3, <1>4, <1>5, <1>6, <1>7, <1>8

(* A valve that is as it was, as far as the window is concerned.           *)
Gleichwertig(g, x) ==
  /\ IstVentil(x)
  /\ x.reed_heiz_stop_counter = g.reed_heiz_stop_counter
  /\ x.ventilpflege_counter = g.ventilpflege_counter
  /\ x.pwm_width = g.pwm_width /\ x.pin = g.pin

LEMMA NachrichtWerte ==
  ASSUME NEW g, IstVentil(g)
  PROVE  /\ \A t : Gleichwertig(g, OneWireTemperature(g, t))
         /\ LET x == ReedkontaktOffen(g)
            IN  /\ IstVentil(x) /\ x.reed_heiz_stop_counter = HEIZSTOP
                /\ x.ventilpflege_counter = g.ventilpflege_counter
                /\ x.pwm_width = g.pwm_width /\ x.pin = g.pin
<1>1. ASSUME NEW t PROVE Gleichwertig(g, OneWireTemperature(g, t))
  BY DEF Gleichwertig, IstVentil, OneWireTemperature, Felder
<1>2. LET x == ReedkontaktOffen(g)
      IN  /\ IstVentil(x) /\ x.reed_heiz_stop_counter = HEIZSTOP
          /\ x.ventilpflege_counter = g.ventilpflege_counter
          /\ x.pwm_width = g.pwm_width /\ x.pin = g.pin
  BY Zahlen DEF IstVentil, ReedkontaktOffen, Felder
<1> QED
  BY <1>1, <1>2

LEMMA BefehlWerte ==
  ASSUME NEW b \in Befehle, IstVentil(h)
  PROVE  Gleichwertig(h, heizung_can_callback(b))
<1>1. b.typ \in {"OFF", "MANUAL", "THERMOSTAT", "AUTOMATIK"}
  BY HeizkreisAssumption DEF Modi
<1>2. Gleichwertig(h, SetModeOff(h))
  BY DEF Gleichwertig, IstVentil, SetModeOff, Felder
<1>3. Gleichwertig(h, SetModeAutomatik(h))
  BY DEF Gleichwertig, IstVentil, SetModeAutomatik, Felder
<1>4. Gleichwertig(h, SetModeManual(h, b.rate, b.dauer))
  BY DEF Gleichwertig, IstVentil, SetModeManual, Felder
<1>5. Gleichwertig(h, SetModeThermostat(h, b.temp, b.dauer))
  BY DEF Gleichwertig, IstVentil, SetModeThermostat, Felder
<1> QED
  BY <1>1, <1>2, <1>3, <1>4, <1>5 DEF heizung_can_callback

-----------------------------------------------------------------------------
(* A step that touches neither contact nor valve nor losses.               *)
LEMMA Unberuehrt ==
  ASSUME Rechtzeitig, Gleichwertig(h, h'), vorrat' \in Vorrat, vorrat'.verlust = vorrat.verlust,
         UNCHANGED <<reed, fenster, offen, dran>>
  PROVE  Rechtzeitig'
<1>1. Typen'
  BY DEF Rechtzeitig, Typen, Gleichwertig
<1>2. Schliesst(offen, h) => Schliesst(offen, h')
  BY DEF Schliesst, Gleichwertig
<1> QED
  BY <1>1, <1>2 DEF Rechtzeitig, Gleichwertig

(* A step after which the observer counts from zero.                       *)
LEMMA VonVorn ==
  ASSUME Genug, Rechtzeitig, IstVentil(h'), reed'.timer_counter \in 0..MaxReed,
         vorrat' \in Vorrat, vorrat'.verlust = vorrat.verlust,
         fenster' \in BOOLEAN, offen' = 0, dran' = dran
  PROVE  Rechtzeitig'
<1>1. Typen'
  BY DEF Rechtzeitig, Typen
<1>2. dran \in Stand /\ vorrat.verlust \in Nat /\ vorrat.verlust <= MaxVerlust
  BY DEF Rechtzeitig, Typen, Stand, Vorrat
<1>3. Ungehoert(0, reed'.timer_counter, dran, vorrat.verlust)
  BY <1>2, RechneAnfang
<1> QED
  BY <1>1, <1>3 DEF Rechtzeitig

LEMMA VentilSchritt ==
  ASSUME Genug, Rechtzeitig, Ventil
  PROVE  Rechtzeitig'
<1> DEFINE c == reed.timer_counter
           r == vorrat.verlust
           s == h.reed_heiz_stop_counter
<1>1. /\ "Ventil" \in dran /\ dran' = Nach(dran, "Ventil")
      /\ h' = Gemeldet(Stelle(Sekundentakt(h, uhr), uhr, zonen, temps))
      /\ UNCHANGED <<reed, fenster>>
      /\ offen' = IF fenster /\ offen < FRIST THEN offen + 1 ELSE offen
  BY DEF Ventil, Getan, Nach, umgebung
<1>2. /\ IstVentil(h) /\ c \in 0..MaxReed /\ vorrat \in Vorrat /\ r \in Nat /\ r <= MaxVerlust
      /\ fenster \in BOOLEAN /\ offen \in Nat /\ dran \in Stand /\ s \in Nat
      /\ MaxVerlust \in Nat
  BY DEF Rechtzeitig, Typen, IstVentil, Stand, Vorrat, Genug
<1>3. /\ IstVentil(h')
      /\ h'.reed_heiz_stop_counter = Weniger(s)
      /\ h'.reed_heiz_stop_counter > 0 =>
           /\ h'.pwm_width = 0
           /\ h.pwm_width = 0 => h'.pin = 0 \/ h'.ventilpflege_counter > 0
  BY <1>1, <1>2, VentilWerte
<1>4. vorrat' \in Vorrat /\ vorrat'.verlust \in Nat /\ vorrat'.verlust <= r
  <2>1. CASE UNCHANGED vorrat
    BY <1>2, <2>1
  <2>2. CASE \E weg \in {{}, {"bedarf"}, {"schalten"}} : Verbraucht("verlust", Cardinality(weg))
    <3>1. PICK weg \in {{}, {"bedarf"}, {"schalten"}} : Verbraucht("verlust", Cardinality(weg))
      BY <2>2
    <3>2. Cardinality(weg) \in Nat
      <4>1. IsFiniteSet({}) /\ IsFiniteSet({"bedarf"}) /\ IsFiniteSet({"schalten"})
        BY FS_EmptySet, FS_Singleton
      <4> QED BY <4>1, FS_CardinalityType
    <3>3. PICK m \in Nat : m = Cardinality(weg)
      BY <3>2
    <3>4. vorrat' \in Vorrat /\ vorrat'.verlust = r - m /\ r >= m
      BY <1>2, <3>1, <3>3, Verbrauch DEF Verbraucht
    <3> QED BY <1>2, <3>4
  <2> QED BY <2>1, <2>2 DEF Ventil
<1>5. PICK q \in Nat : q = vorrat'.verlust /\ q <= r /\ q <= MaxVerlust
  BY <1>2, <1>4
<1>6. PICK o \in Nat : o = offen'
  BY <1>1, <1>2
<1>7. FRIST = MaxReed + 4 + Verzug(0) /\ Verzug(0) \in Nat /\ MaxReed \in Nat
  <2>1. Verzug(0) \in Nat /\ MaxReed \in Nat
    BY <1>2, Verzugsregeln, Zahlen
  <2>2. MaxVerlust - 0 = MaxVerlust
    BY <1>2
  <2>3. Verzug(0) = REED * MaxVerlust
    BY <2>2 DEF Verzug
  <2> QED BY <2>1, <2>3 DEF FRIST, MaxReed, MaxVerlust
<1>8. Typen'
  BY <1>1, <1>2, <1>3, <1>4, <1>5, <1>6, Vorsprungsregeln DEF Typen, Stand
<1>9. CASE ~fenster
  BY <1>1, <1>8, <1>9 DEF Rechtzeitig
<1>10. CASE fenster /\ Ungehoert(offen, c, dran, r)
  <2>1. Ungehoert(offen + 1, c, dran', q) /\ offen <= MaxReed + 1 + Verzug(0)
    BY <1>1, <1>2, <1>5, <1>10, RechneVentil
  <2>2. offen' = offen + 1
    BY <1>1, <1>2, <1>7, <1>10, <2>1
  <2> QED BY <1>1, <1>5, <1>8, <1>10, <2>1, <2>2 DEF Rechtzeitig
<1>11. CASE fenster /\ Stoppt(s, c, dran, r) /\ Schliesst(offen, h)
  <2>1. Stoppt(Weniger(s), c, dran', q) /\ Weniger(s) > 0
    BY <1>1, <1>2, <1>5, <1>11, RechneVentil
  <2>2. h'.pwm_width = 0 /\ (h.pwm_width = 0 => h'.pin = 0 \/ h'.ventilpflege_counter > 0)
    BY <1>3, <2>1
  <2>3. Schliesst(o, h')
    <3>1. CASE offen <= MaxReed + 2 + Verzug(0)
      <4>1. o <= MaxReed + 3 + Verzug(0)
        BY <1>1, <1>2, <1>6, <1>7, <3>1
      <4> QED BY <2>2, <4>1 DEF Schliesst
    <3>2. CASE h.pwm_width = 0
      BY <2>2, <3>2 DEF Schliesst
    <3> QED BY <1>11, <3>1, <3>2 DEF Schliesst
  <2> QED BY <1>1, <1>3, <1>5, <1>6, <1>8, <1>11, <2>1, <2>3 DEF Rechtzeitig
<1> QED
  BY <1>2, <1>9, <1>10, <1>11 DEF Rechtzeitig

LEMMA FuehlerSchritt ==
  ASSUME Genug, Rechtzeitig, Fuehler
  PROVE  Rechtzeitig'
<1> DEFINE c == reed.timer_counter
           r == vorrat.verlust
           s == h.reed_heiz_stop_counter
           f == reedkontakt_timer_handler(reed, fenster)
           m == tempsensor_timer_handler(sensor, IF defekt THEN -1 ELSE temp)
           gesendet == (IF f.meldet THEN {"reed"} ELSE {}) \cup
                       (IF m.meldet THEN {"temp"} ELSE {})
           g(da) == IF "reed" \in da THEN ReedkontaktOffen(h) ELSE h
<1>1. /\ "Fuehler" \in dran /\ dran' = Nach(dran, "Fuehler")
      /\ reed' = f.r /\ UNCHANGED <<fenster, offen>>
  BY DEF Fuehler, Getan, Nach, umgebung
<1>2. /\ IstVentil(h) /\ c \in 0..MaxReed /\ vorrat \in Vorrat /\ r \in Nat /\ r <= MaxVerlust
      /\ fenster \in BOOLEAN /\ offen \in Nat /\ dran \in Stand /\ s \in Nat
      /\ MaxVerlust \in Nat
  BY DEF Rechtzeitig, Typen, IstVentil, Stand, Vorrat, Genug
<1>3. /\ ~fenster => reed'.timer_counter = 0 /\ ~f.meldet
      /\ fenster /\ c = 0 => reed'.timer_counter = REED - 1
      /\ fenster /\ c # 0 => reed'.timer_counter = c - 1 /\ ~f.meldet
      /\ f.meldet <=> fenster /\ c = 0
  BY <1>1 DEF reedkontakt_timer_handler
<1>4. reed'.timer_counter \in 0..MaxReed
  BY <1>2, <1>3, Zahlen
<1>5. PICK da \in SUBSET gesendet :
        /\ Verbraucht("verlust", Cardinality(gesendet \ da))
        /\ h' = IF "temp" \in da THEN OneWireTemperature(g(da), m.s.temperature) ELSE g(da)
  BY DEF Fuehler
<1> HIDE DEF f, m
<1>6. gesendet \ da \subseteq {"reed", "temp"}
  OBVIOUS
<1>7. "reed" \in da => fenster /\ c = 0
  BY <1>3
<1>8. fenster /\ c = 0 /\ "reed" \notin da => "reed" \in gesendet \ da
  BY <1>3
<1>9. IsFiniteSet({"reed", "temp"})
  <2>1. IsFiniteSet({"reed"})
    BY FS_Singleton
  <2>2. IsFiniteSet({"reed"} \cup {"temp"})
    BY <2>1, FS_AddElement
  <2>3. {"reed"} \cup {"temp"} = {"reed", "temp"}
    OBVIOUS
  <2> QED BY <2>2, <2>3
<1> HIDE DEF gesendet
<1>10. IsFiniteSet(gesendet \ da)
  BY <1>6, <1>9, FS_Subset
<1>11. /\ Cardinality(gesendet \ da) \in Nat
       /\ gesendet \ da # {} => Cardinality(gesendet \ da) > 0
  <2>1. Cardinality(gesendet \ da) \in Nat
    BY <1>10, FS_CardinalityType
  <2>2. Cardinality(gesendet \ da) = 0 <=> gesendet \ da = {}
    BY <1>10, FS_EmptySet
  <2> QED BY <2>1, <2>2
<1>12. PICK n \in Nat : n = Cardinality(gesendet \ da)
  BY <1>11
<1>13. /\ vorrat' \in Vorrat /\ vorrat'.verlust = r - n /\ r >= n
       /\ fenster /\ c = 0 /\ "reed" \notin da => n > 0
  BY <1>2, <1>5, <1>8, <1>11, <1>12, Verbrauch DEF Verbraucht
<1>14. PICK q \in Nat : /\ q = vorrat'.verlust /\ q <= r /\ q <= MaxVerlust
                        /\ fenster /\ c = 0 /\ "reed" \notin da => q < r
  BY <1>2, <1>13
<1>15. LET x == g(da)
       IN  /\ IstVentil(x) /\ x.ventilpflege_counter = h.ventilpflege_counter
           /\ x.pwm_width = h.pwm_width /\ x.pin = h.pin
           /\ x.reed_heiz_stop_counter = IF "reed" \in da THEN HEIZSTOP ELSE s
  BY <1>2, NachrichtWerte
<1> HIDE DEF g
<1>16. Gleichwertig(g(da), h')
  <2>1. Gleichwertig(g(da), g(da))
    BY <1>15 DEF Gleichwertig
  <2> QED BY <1>5, <1>15, <2>1, NachrichtWerte
<1>17. /\ IstVentil(h') /\ h'.ventilpflege_counter = h.ventilpflege_counter
       /\ h'.pwm_width = h.pwm_width /\ h'.pin = h.pin
       /\ h'.reed_heiz_stop_counter = IF "reed" \in da THEN HEIZSTOP ELSE s
  BY <1>15, <1>16 DEF Gleichwertig
<1>18. Typen'
  BY <1>1, <1>2, <1>4, <1>13, <1>14, <1>17, Vorsprungsregeln DEF Typen, Stand
<1>19. Schliesst(offen, h) => Schliesst(offen, h')
  BY <1>17 DEF Schliesst
<1>20. CASE ~fenster
  BY <1>1, <1>18, <1>20 DEF Rechtzeitig
<1>21. CASE fenster /\ "reed" \in da
  <2>1. c = 0 /\ reed'.timer_counter = REED - 1 /\ h'.reed_heiz_stop_counter = HEIZSTOP
    BY <1>3, <1>7, <1>17, <1>21
  <2>2. Stoppt(HEIZSTOP, REED - 1, dran', q)
    BY <1>1, <1>2, <1>14, RechneFuehler
  <2>3. Ungehoert(offen, c, dran, r) => offen <= MaxReed + 2 + Verzug(0)
    BY <1>1, <1>2, <1>14, RechneFuehler
  <2>4. Schliesst(offen, h')
    BY <1>19, <1>21, <2>3 DEF Rechtzeitig, Schliesst
  <2> QED BY <1>1, <1>14, <1>18, <2>1, <2>2, <2>4 DEF Rechtzeitig
<1>22. CASE fenster /\ "reed" \notin da
  <2>1. h'.reed_heiz_stop_counter = s
    BY <1>17, <1>22
  <2>2. Ungehoert(offen, c, dran, r) => Ungehoert(offen, reed'.timer_counter, dran', q)
    <3>1. CASE c = 0
      BY <1>1, <1>2, <1>3, <1>14, <1>22, <3>1, RechneFuehler
    <3>2. CASE c # 0
      <4>1. c > 0 /\ reed'.timer_counter = c - 1
        BY <1>2, <1>3, <1>22, <3>2, Zahlen
      <4> QED BY <1>1, <1>2, <1>14, <4>1, RechneFuehler
    <3> QED BY <3>1, <3>2
  <2>3. Stoppt(s, c, dran, r) => Stoppt(s, reed'.timer_counter, dran', q)
    <3>1. CASE c = 0
      BY <1>1, <1>2, <1>3, <1>14, <1>22, <3>1, RechneFuehler
    <3>2. CASE c # 0
      <4>1. c > 0 /\ reed'.timer_counter = c - 1
        BY <1>2, <1>3, <1>22, <3>2, Zahlen
      <4> QED BY <1>1, <1>2, <1>14, <4>1, RechneFuehler
    <3> QED BY <3>1, <3>2
  <2> QED BY <1>1, <1>14, <1>18, <1>19, <1>22, <2>1, <2>2, <2>3 DEF Rechtzeitig
<1> QED
  BY <1>2, <1>20, <1>21, <1>22

-----------------------------------------------------------------------------
(* One step of the circuit.                                                *)
LEMMA UmgebungSchritt ==
  ASSUME Genug, Rechtzeitig, Umgebung
  PROVE  Rechtzeitig'
<1>1. /\ IstVentil(h) /\ vorrat \in Vorrat /\ fenster \in BOOLEAN
      /\ reed.timer_counter \in 0..MaxReed
  BY DEF Rechtzeitig, Typen
<1>2. Gleichwertig(h, h)
  BY <1>1 DEF Gleichwertig
<1>3. ASSUME NEW b \in Befehle, Befehl(b) PROVE Rechtzeitig'
  <2>1. vorrat' \in Vorrat /\ vorrat'.verlust = vorrat.verlust
    BY <1>1, <1>3 DEF Befehl, Vorrat
  <2>2. Gleichwertig(h, h')
    BY <1>1, <1>3, BefehlWerte DEF Befehl
  <2> QED BY <1>3, <2>1, <2>2, Unberuehrt DEF Befehl, umgebung
<1>4. ASSUME \/ \E i \in DOMAIN temps, t \in Temperaturen : SolltempWriteLine(i, t)
             \/ \E y \in Zonen : ZeitzoneWriteDetails(y)
             \/ \E id \in Andere, b \in Raten : AnderesVentil(id, b)
             \/ PumpeNeustart \/ Raum \/ Uhr \/ Kabelbruch
      PROVE  Rechtzeitig'
  <2>1. /\ \/ Verbraucht("temp", 1) \/ Verbraucht("uhr", 1) \/ Verbraucht("zone", 1)
           \/ Verbraucht("neustart", 1) \/ Verbraucht("andere", 1) \/ Verbraucht("defekt", 1)
        /\ UNCHANGED <<h, reed, fenster, offen, dran>>
    BY <1>4 DEF SolltempWriteLine, ZeitzoneWriteDetails, AnderesVentil, PumpeNeustart,
                Raum, Uhr, Kabelbruch, anlage, umgebung
  <2>2. vorrat' \in Vorrat /\ vorrat'.verlust = vorrat.verlust
    BY <1>1, <2>1, Verbrauch
  <2> QED BY <1>2, <2>1, <2>2, Unberuehrt
<1>5. ASSUME VentilNeustart PROVE Rechtzeitig'
  <2>1. vorrat' \in Vorrat /\ vorrat'.verlust = vorrat.verlust
    BY <1>1, <1>5, Verbrauch DEF VentilNeustart
  <2>2. PICK t \in 0..TAKT : h' = heizung_init(t)
    BY <1>5 DEF VentilNeustart
  <2>3. IstVentil(h')
    BY <2>2 DEF heizung_init, IstVentil, Felder
  <2> QED BY <1>1, <1>5, <2>1, <2>3, VonVorn DEF VentilNeustart, umgebung
<1>6. ASSUME FuehlerNeustart PROVE Rechtzeitig'
  <2>1. vorrat' \in Vorrat /\ vorrat'.verlust = vorrat.verlust
    BY <1>1, <1>6, Verbrauch DEF FuehlerNeustart
  <2>2. reed'.timer_counter = Gruppe
    BY <1>6 DEF FuehlerNeustart, reedkontakt_init
  <2>3. reed'.timer_counter \in 0..MaxReed
    BY <2>2, Zahlen
  <2> QED BY <1>1, <1>6, <2>1, <2>3, VonVorn DEF FuehlerNeustart, umgebung
<1>7. ASSUME Fenster PROVE Rechtzeitig'
  <2>1. vorrat' \in Vorrat /\ vorrat'.verlust = vorrat.verlust
    BY <1>1, <1>7, Verbrauch DEF Fenster
  <2> QED BY <1>1, <1>7, <2>1, VonVorn DEF Fenster, anlage
<1> QED
  BY <1>3, <1>4, <1>5, <1>6, <1>7 DEF Umgebung

LEMMA AnfangRechtzeitig ==
  ASSUME Genug, Init, \A v \in Vorraete : v.verlust <= MaxVerlust
  PROVE  Rechtzeitig
<1>1. IstVentil(h)
  <2>1. PICK t \in 0..TAKT : h = heizung_init(t)
    BY DEF Init
  <2> QED BY <2>1 DEF heizung_init, IstVentil, Felder
<1>2. vorrat \in Vorrat /\ vorrat.verlust <= MaxVerlust
  <2>1. vorrat \in Vorraete
    BY DEF Init
  <2>2. vorrat \in [befehle : SUBSET Befehle, fenster : Nat, temp : Nat, uhr : Nat,
                    zone : Nat, verlust : Nat, neustart : Nat, andere : Nat, defekt : 0..1]
    BY <2>1, HeizkreisAssumption
  <2>3. vorrat \in Vorrat
    BY <2>2 DEF Vorrat
  <2> QED BY <2>1, <2>3
<1>3. reed.timer_counter = Gruppe
  BY DEF Init, reedkontakt_init
<1>4. reed.timer_counter \in 0..MaxReed
  BY <1>3, Zahlen
<1> QED
  BY <1>1, <1>2, <1>4 DEF Init, Rechtzeitig, Typen

(* When the deadline has passed, the valve is closed or exercised.         *)
LEMMA NachDerFrist ==
  ASSUME Genug, Rechtzeitig
  PROVE  FensterOffenZu
<1>1. /\ Verzug(0) \in Nat /\ MaxReed \in Nat /\ MaxVerlust \in Nat
      /\ vorrat.verlust \in Nat /\ vorrat.verlust <= MaxVerlust
      /\ dran \in Stand /\ reed.timer_counter \in 0..MaxReed /\ offen \in Nat
  BY Verzugsregeln, Zahlen DEF Genug, Rechtzeitig, Typen, Vorrat, Stand
<1>2. FRIST = MaxReed + 4 + Verzug(0)
  <2>1. MaxVerlust - 0 = MaxVerlust
    BY <1>1
  <2>2. Verzug(0) = REED * MaxVerlust
    BY <2>1 DEF Verzug
  <2> QED BY <1>1, <2>2 DEF FRIST, MaxReed, MaxVerlust
<1>3. Verzug(vorrat.verlust) \in Nat /\ Verzug(vorrat.verlust) <= Verzug(0)
  BY <1>1, Verzugsregeln
<1>4. Vorsprung(dran) \in {-1, 0, 1}
  BY <1>1, Vorsprungsregeln
<1>5. Ungehoert(offen, reed.timer_counter, dran, vorrat.verlust) => offen < FRIST
  BY <1>1, <1>2, <1>3, <1>4 DEF Ungehoert
<1>6. ~fenster => offen < FRIST
  BY <1>1, <1>2 DEF Rechtzeitig
<1>7. Schliesst(offen, h) => offen < FRIST \/ h.pin = 0 \/ h.ventilpflege_counter > 0
  BY <1>1, <1>2 DEF Schliesst
<1>8. offen < FRIST \/ h.pin = 0 \/ h.ventilpflege_counter > 0
  BY <1>5, <1>6, <1>7 DEF Rechtzeitig
<1> QED
  BY <1>1, <1>2, <1>8 DEF FensterOffenZu

(* A window that stays open closes the valve by the deadline, whatever the *)
(* mode and the order of the boards (heizung_can_callback,                 *)
(* REEDKONTAKT_OFFEN; heizung_update_heizstop).  At most n reports are     *)
(* lost; heizung.c stops the heating for 60 seconds, the contact reports   *)
(* every 5, so that n may be 10.                                           *)
THEOREM FensterSchliesst ==
  ASSUME NEW n \in Nat, \A v \in Vorraete : v.verlust <= n,
         REED * (n + 1) + 2 <= HEIZSTOP
  PROVE  Spec => []FensterOffenZu
<1>1. Vorraete # {} => Genug /\ \A v \in Vorraete : v.verlust <= MaxVerlust
  <2> SUFFICES ASSUME Vorraete # {}
               PROVE  Genug /\ \A v \in Vorraete : v.verlust <= MaxVerlust
    OBVIOUS
  <2>1. /\ MaxVerlust \in Nat /\ MaxVerlust <= n
        /\ \A v \in Vorraete : v.verlust <= MaxVerlust
    BY GroessterVerlust
  <2>2. PICK x \in Nat : n = MaxVerlust + x /\ MaxVerlust - 0 = MaxVerlust
    BY <2>1
  <2>3. REED * (n + 1) = REED * MaxVerlust + REED * x + REED
    BY <2>1, <2>2, Zahlen
  <2>4. REED * x \in Nat /\ REED * MaxVerlust \in Nat
    BY <2>1, Zahlen
  <2>5. Verzug(0) = REED * MaxVerlust
    BY <2>2 DEF Verzug
  <2>6. Verzug(0) + REED + 2 <= HEIZSTOP
    BY <2>3, <2>4, <2>5, Zahlen
  <2> QED BY <2>1, <2>6 DEF Genug
<1>2. Init => Vorraete # {}
  BY DEF Init
<1>3. Init => Rechtzeitig /\ Vorraete # {}
  BY <1>1, <1>2, AnfangRechtzeitig
<1>4. (Rechtzeitig /\ Vorraete # {}) /\ [Next]_vars => (Rechtzeitig /\ Vorraete # {})'
  <2> SUFFICES ASSUME Rechtzeitig, Vorraete # {}, [Next]_vars PROVE Rechtzeitig'
    OBVIOUS
  <2>1. CASE Ventil
    BY <1>1, <2>1, VentilSchritt
  <2>2. CASE Fuehler
    BY <1>1, <2>2, FuehlerSchritt
  <2>3. CASE Umgebung
    BY <1>1, <2>3, UmgebungSchritt
  <2>4. CASE UNCHANGED vars
    BY <2>4 DEF vars, anlage, umgebung, Rechtzeitig, Typen
  <2> QED BY <2>1, <2>2, <2>3, <2>4 DEF Next
<1>5. Rechtzeitig /\ Vorraete # {} => FensterOffenZu
  BY <1>1, NachDerFrist
<1> QED
  BY <1>3, <1>4, <1>5, PTL DEF Spec
=============================================================================
