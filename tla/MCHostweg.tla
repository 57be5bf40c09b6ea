----------------------------- MODULE MCHostweg -----------------------------
(* Two programs and hcanhid, two slots in hcand. *)
EXTENDS Hostweg

MCProgramme == {"hcanhid", "telican", "hcanweb"}
MCKunden == {"telican", "hcanweb"}

V(s, e, f, b, hin, her) ==
  [starten |-> s, enden |-> e, dauernd |-> {}, busDauernd |-> FALSE,
   senden |-> f, bus |-> b, hin |-> hin, her |-> her]

(* Two programs on an undisturbed line; one program and the line in both   *)
(* directions, undisturbed, disturbed on the way to the bus, on the way    *)
(* from it, on both; a program or a board that never stops sending.        *)
MCVorraete ==
  LET eins == {"telican"}
      nichts == V(eins, {}, 0, 0, 0, 0)
  IN  {V(MCKunden, eins, 1, 0, 0, 0), V(eins, {}, 1, 1, 0, 0),
       V(eins, {}, 2, 0, 1, 0), V(eins, {}, 0, 1, 0, 1), V(eins, {}, 1, 0, 1, 1),
       [nichts EXCEPT !.dauernd = eins], [nichts EXCEPT !.busDauernd = TRUE]}

(* For the deviations: two frames on the line from the host interface.     *)
ZweiHer == {V({"telican"}, {}, 0, 2, 0, 1)}
ZweiHin == {V({"telican"}, {}, 1, 0, 2, 0)}
=============================================================================
