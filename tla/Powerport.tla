----------------------------- MODULE Powerport ------------------------------
(***************************************************************************)
(* A power port (controllerboard powerport.c): a relay that follows the    *)
(* frames of up to four groups, at once or with a countdown, and the short *)
(* term alarm clock of the user panel.                                     *)
(*                                                                         *)
(* A port is a record p of its state, k is its configuration: gruppen is   *)
(* gruppe0 to gruppe3, of which the last one is the delay, too.  Bistable  *)
(* relays, whose handler sleeps, are left out.                             *)
(***************************************************************************)
EXTENDS Integers

Features == {"VERZOEGERT_EIN", "AUTO_AUS", "NACHLAUF"}
Weckarten == {"WECK_VERZOEGERT_EIN", "WECK_AUTO_AUS"}
ZaehlerMax == 65535  \* timers and countdowns have 16 bits

(* powerport_init; the pin is set by darlingtonoutput_init.                *)
Aus == [pin |-> FALSE, timer |-> 0, weck |-> {}]

is_in_group(k, g) ==
  \E i \in 1..(IF "AUTO_AUS" \in k.feature THEN 3 ELSE 4) : g # 255 /\ k.gruppen[i] = g

port_setup_timer(k) == IF k.gruppen[4] >= 128 THEN k.gruppen[4] - 128 ELSE k.gruppen[4] * 60

(* Mutant: a port that switches itself off starts no countdown when it is  *)
(* switched on.                                                            *)
Mut_steigende_flanke(k, p) == [p EXCEPT !.pin = TRUE, !.timer = 0]

(* set_powerport_or_timer                                                  *)
steigende_flanke(k, p) ==
  CASE "AUTO_AUS" \in k.feature -> [p EXCEPT !.pin = TRUE, !.timer = port_setup_timer(k)]
    [] "AUTO_AUS" \notin k.feature /\ "VERZOEGERT_EIN" \in k.feature ->
         [p EXCEPT !.timer = port_setup_timer(k)]
    [] k.feature \cap {"AUTO_AUS", "VERZOEGERT_EIN"} = {} -> [p EXCEPT !.pin = TRUE, !.timer = 0]

fallende_flanke(k, p) == IF "NACHLAUF" \in k.feature
                         THEN [p EXCEPT !.timer = port_setup_timer(k)]
                         ELSE [p EXCEPT !.pin = FALSE, !.timer = 0]

powerport_toggle(k, p) == IF p.pin THEN fallende_flanke(k, p) ELSE steigende_flanke(k, p)

(* WECKER_SET for its first group.                                         *)
wecker_set(p, w, t) == [pin |-> p.pin \/ "WECK_AUTO_AUS" \in p.weck \cup {w},
                        timer |-> t, weck |-> p.weck \cup {w}]

(* powerport_timer_handler, once a second.                                 *)
ablauf(k, p) ==
  CASE "WECK_VERZOEGERT_EIN" \in p.weck ->
         [pin |-> TRUE, weck |-> p.weck \ {"WECK_VERZOEGERT_EIN"},
          timer |-> (port_setup_timer(k) - 1) % (ZaehlerMax + 1)]
    [] p.weck = {"WECK_AUTO_AUS"} -> [pin |-> FALSE, weck |-> {}, timer |-> 0]
    [] p.weck = {} -> [pin |-> \/ "VERZOEGERT_EIN" \in k.feature
                               \/ k.feature = {} /\ p.pin,
                       weck |-> {}, timer |-> 0]

port_sekunde(k, p) == CASE p.timer = 0 -> p
                        [] p.timer = 1 -> ablauf(k, p)
                        [] p.timer > 1 -> [p EXCEPT !.timer = @ - 1]
=============================================================================
