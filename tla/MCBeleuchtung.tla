---------------------------- MODULE MCBeleuchtung ----------------------------
(***************************************************************************)
(* Board 1 has two zones that share their lamp: a staircase with a timer of *)
(* two seconds and a room without one.  Board 2 has the lamp, which listens *)
(* to a second group as well, and a fan that switches itself off.  Buttons  *)
(* are on both boards; group frames come from board 2.                      *)
(***************************************************************************)
EXTENDS Beleuchtung

MCBoards == {1, 2}
MCgeraete == [b \in MCBoards |-> <<<<"flur", "zimmer">>, <<"lampe", "luefter">>>>[b]]
MCzone ==
  [d \in {"flur", "zimmer"} |->
     IF d = "flur" THEN [toggle |-> {1}, off |-> {3}, on |-> {}, action |-> {11}, delay |-> 130]
     ELSE [toggle |-> {2}, off |-> {3}, on |-> {4}, action |-> {11}, delay |-> 0]]
MCport ==
  [d \in {"lampe", "luefter"} |->
     IF d = "lampe" THEN [feature |-> {}, gruppen |-> <<11, 12, 255, 255>>]
     ELSE [feature |-> {"AUTO_AUS"}, gruppen |-> <<13, 11, 255, 130>>]]
MCEingaben == {<<1, Down(1)>>, <<1, Down(2)>>, <<2, Down(3)>>, <<2, On(11)>>, <<2, On(12)>>,
               <<2, SetTimer(11, 0)>>, <<2, SetTimer(11, 1)>>,
               <<1, Wecker(13, "WECK_VERZOEGERT_EIN", 0)>>}

(* The alarm clock of the lamp, and the switch that interrupts it.          *)
MCEingabenWecker == {<<1, Wecker(11, "WECK_VERZOEGERT_EIN", 3)>>, <<1, Wecker(11, "WECK_AUTO_AUS", 1)>>,
                     <<1, Off(11)>>}

(* The zones do not share their lamp.                                       *)
MCzoneAllein == [MCzone EXCEPT !["flur"].action = {14}]
==============================================================================
