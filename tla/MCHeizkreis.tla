---------------------------- MODULE MCHeizkreis ----------------------------
(* The times are scaled down; their order is kept. *)
EXTENDS Heizkreis

MCk == [id |-> 1, periode |-> 2, hysterese |-> 1, zeitzonen |-> <<9, 1>>, doppelt |-> FALSE]

Werktag == [day_of_week |-> 1, minute |-> 100]
Pflegezeit == [day_of_week |-> 7, minute |-> 723]
MCUhrzeiten == {Werktag, Pflegezeit}

(* A zone that crosses midnight, and one of the sunday. *)
Nachts == [day_pattern |-> {1, 2}, from |-> 1320, to |-> 360]
Sonntag == [day_pattern |-> {7}, from |-> 0, to |-> 1439]
MCZonen == {Nachts, Sonntag}

MCTemperaturen == {10, 20}
MCtemps == <<15, 15>>

Aus == [typ |-> "OFF"]
Automatik == [typ |-> "AUTOMATIK"]
Halb == [typ |-> "MANUAL", rate |-> 50, dauer |-> 3]
Fest == [typ |-> "THERMOSTAT", temp |-> 15, dauer |-> 0]
MCBefehle == {Aus, Automatik, Halb, Fest}

V(b, f, t, u, z, v, n, a, d) ==
  [befehle |-> b, fenster |-> f, temp |-> t, uhr |-> u, zone |-> z, verlust |-> v,
   neustart |-> n, andere |-> a, defekt |-> d]

MCVorraete ==
  {V(MCBefehle, 0, 0, 0, 0, 0, 0, 0, 0), V({Halb}, 1, 0, 0, 0, 0, 0, 0, 0),
   V({Automatik}, 1, 0, 0, 0, 1, 0, 0, 0), V({Fest}, 2, 0, 0, 0, 0, 0, 0, 0),
   V({Automatik}, 0, 1, 0, 0, 0, 0, 0, 0), V({Automatik}, 1, 0, 1, 0, 0, 0, 0, 0),
   V({Automatik}, 0, 0, 0, 1, 0, 0, 0, 0), V({Fest}, 1, 0, 0, 0, 0, 1, 0, 0),
   V({Fest}, 0, 0, 0, 0, 1, 0, 1, 0), V({Fest}, 0, 0, 0, 0, 0, 0, 2, 0),
   V({Fest}, 0, 0, 0, 0, 0, 0, 0, 1)}

(* For the deviations. *)
NurAutomatik == {V({Automatik}, 0, 0, 0, 0, 0, 0, 0, 0)}
HalbDannAus == {V({Aus, Halb}, 0, 0, 0, 0, 0, 0, 0, 0)}
NurFenster == {V({Automatik}, 1, 0, 0, 0, 0, 0, 0, 0)}
MitAnderen == {V({Fest}, 0, 0, 0, 0, 0, 0, 2, 0)}
=============================================================================
