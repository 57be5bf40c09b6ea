-------------------------- MODULE ZeitdienstProofs --------------------------
(***************************************************************************)
(* Proofs about the time service, for every set of boards and every        *)
(* configuration of them, and for any number of failures, restarts and     *)
(* missed frames: once nothing has been disturbed for long enough, only    *)
(* the boards of the lowest level send, and they send in time.             *)
(*                                                                         *)
(* The boards run their handlers at any moment of a second, so that one    *)
(* may be a second ahead of another.  What holds of a board is therefore   *)
(* said for both cases: its handler ran in this second already, or not.    *)
(***************************************************************************)
EXTENDS Zeitdienst, WellFoundedInduction, TLAPS

(* The master's patience: it has counted every quiet second.               *)
Gezaehlt(b, g, r, rc) == \/ rc = ByteMax
                         \/ b \in g /\ r <= rc
                         \/ b \notin g /\ r <= rc + 1

(* It has not sent since the disturbance, but counts towards it.           *)
Noch(b, g, r, s) == \/ b \in g /\ r <= s + takeover_time[b]
                    \/ b \notin g /\ r <= s + takeover_time[b] + 1

(* It has sent: the silence is as long as its own count.                   *)
Laut(b, g, st, s) == \/ b \in g /\ st <= s
                     \/ b \notin g /\ st <= s + 1

(* And another board has heard it: its count is no further than the        *)
(* master's, up to the handler calls of this second.                       *)
Gehoert(b, c, g, rc, s) == \/ b \in g /\ c \in g /\ rc <= s + 1
                           \/ b \in g /\ c \notin g /\ rc <= s
                           \/ b \notin g /\ c \in g /\ rc <= s + 2
                           \/ b \notin g /\ c \notin g /\ rc <= s + 1

Herrscht(b) == /\ Laut(b, getickt, still, last_time_frame_sent[b])
               /\ \A c \in an \ Master :
                    Gehoert(b, c, getickt, last_time_frame_received[c], last_time_frame_sent[b])
Takt == /\ TypeOK
        /\ \A b \in Boards : last_time_frame_sent[b] <= interval[b]
        /\ \A b \in Master :
             /\ Gezaehlt(b, getickt, ruhig, last_time_frame_received[b])
             /\ Noch(b, getickt, ruhig, last_time_frame_sent[b]) \/ Herrscht(b)
-----------------------------------------------------------------------------
(* Of the boards that run, some have the lowest level.                     *)
LEMMA MasterDa == an \subseteq Boards /\ an # {} => Master # {}
<1> SUFFICES ASSUME an \subseteq Boards, an # {} PROVE Master # {}
  OBVIOUS
<1> DEFINE T == {level[b] : b \in an}
           R == OpToRel(<, Nat)
<1>1. T \subseteq Nat /\ T # {}
  BY ZeitdienstAssumption
<1>2. IsWellFoundedOn(R, Nat)
  BY NatLessThanWellFounded
<1> HIDE DEF T, R
<1>3. PICK x \in T : \A y \in T : ~(<<y, x>> \in R)
  BY <1>1, <1>2, WFMin
<1>4. \A y \in T : ~(y < x)
  BY <1>1, <1>3 DEF R, OpToRel
<1>5. PICK b \in an : level[b] = x
  BY DEF T
<1>6. \A c \in an : level[c] \in T /\ level[c] \in Nat
  BY <1>1 DEF T
<1>7. b \in Master
  BY <1>4, <1>5, <1>6 DEF Master
<1> QED
  BY <1>7
LEMMA UeberAnderen ==
  ASSUME NEW b \in Master, NEW c \in an \ Master, an \subseteq Boards
  PROVE  level[b] < level[c] /\ interval[b] + 3 <= takeover_time[c]
<1>1. PICK d \in an : ~(level[c] <= level[d])
  BY DEF Master
<1>2. b \in Boards /\ c \in Boards /\ d \in Boards /\ level[b] <= level[d]
  BY DEF Master
<1>3. level[b] \in Int /\ level[c] \in Int /\ level[d] \in Int
  BY <1>2, ZeitdienstAssumption
<1>4. level[b] < level[c]
  BY <1>1, <1>2, <1>3
<1> QED
  BY <1>2, <1>4, ZeitdienstAssumption

(* The numbers of the configuration, and those of a state.                 *)
LEMMA Zahlen ==
  /\ ByteMax \in Nat /\ RuheMax \in Nat
  /\ \A b \in Boards : /\ takeover_time[b] \in Nat /\ takeover_time[b] <= ByteMax
                       /\ interval[b] \in Nat /\ interval[b] + 1 <= ByteMax
<1>1. ByteMax \in Nat
  BY ZeitdienstAssumption
<1>2. RuheMax \in Nat
  BY <1>1 DEF RuheMax
<1>3. ASSUME NEW b \in Boards
      PROVE  /\ takeover_time[b] \in Nat /\ takeover_time[b] <= ByteMax
             /\ interval[b] \in Nat /\ interval[b] + 1 <= ByteMax
  <2>1. takeover_time[b] \in 0..ByteMax /\ interval[b] \in 0..(ByteMax - 1)
    BY ZeitdienstAssumption
  <2> QED BY <1>1, <2>1
<1> QED
  BY <1>1, <1>2, <1>3

LEMMA TaktZahlen ==
  ASSUME Takt
  PROVE  /\ an \subseteq Boards /\ getickt \subseteq an /\ Master \subseteq an
         /\ ruhig \in Nat /\ still \in Nat
         /\ \A b \in Boards : /\ last_time_frame_received[b] \in Nat
                              /\ last_time_frame_received[b] <= ByteMax
                              /\ last_time_frame_sent[b] \in Nat
                              /\ last_time_frame_sent[b] <= interval[b]
<1>1. ASSUME NEW b \in Boards
      PROVE  last_time_frame_received[b] \in 0..ByteMax /\ last_time_frame_sent[b] \in 0..ByteMax
  BY DEF Takt, TypeOK
<1>2. ruhig \in 0..RuheMax /\ still \in 0..RuheMax
  BY DEF Takt, TypeOK
<1> QED
  BY <1>1, <1>2, Zahlen DEF Takt, TypeOK, Master

(* At the end of a second nobody's handler has run in the next one.        *)
LEMMA Sekundenende ==
  ASSUME NEW g, NEW b \in g, NEW r \in Nat
  PROVE  /\ \A rc \in Nat : Gezaehlt(b, g, r, rc) =>
              Gezaehlt(b, {}, r, rc) /\ Gezaehlt(b, {}, r + 1, rc)
         /\ \A s \in Nat : takeover_time[b] \in Nat /\ Noch(b, g, r, s) =>
              Noch(b, {}, r, s) /\ Noch(b, {}, r + 1, s)
         /\ \A s \in Nat : Laut(b, g, r, s) => Laut(b, {}, r, s) /\ Laut(b, {}, r + 1, s)
         /\ \A c \in g : \A s, rc \in Nat : Gehoert(b, c, g, rc, s) => Gehoert(b, c, {}, rc, s)
  BY DEF Gezaehlt, Noch, Laut, Gehoert

-----------------------------------------------------------------------------
(* One call of the handler of board x, before the second may end with it.  *)
n_nach(x) == IF x \in sender' THEN 0 ELSE still
Danach(b, g, n) ==
  /\ Gezaehlt(b, g, ruhig, last_time_frame_received'[b])
  /\ \/ Noch(b, g, ruhig, last_time_frame_sent'[b])
     \/ /\ Laut(b, g, n, last_time_frame_sent'[b])
        /\ \A c \in an \ Master :
             Gehoert(b, c, g, last_time_frame_received'[c], last_time_frame_sent'[b])

(* The counter of another board, or of the board itself, goes on by one    *)
(* at most.                                                                *)
LEMMA Weitergezaehlt ==
  ASSUME Takt, NEW x \in Boards
  PROVE  /\ received_nach(x) \in Nat /\ received_nach(x) <= ByteMax
         /\ received_nach(x) <= last_time_frame_received[x] + 1
         /\ received_nach(x) = ByteMax \/ received_nach(x) = last_time_frame_received[x] + 1
         /\ last_time_frame_received[x] = ByteMax => received_nach(x) = ByteMax
  BY TaktZahlen, Zahlen DEF received_nach

LEMMA AndererHandler ==
  ASSUME Takt, NEW x \in an \ getickt, NEW b \in Master, b # x,
         last_time_frame_received'[b] = last_time_frame_received[b],
         last_time_frame_sent'[b] = last_time_frame_sent[b],
         \A c \in an : \/ last_time_frame_received'[c] = last_time_frame_received[c]
                       \/ last_time_frame_received'[c] = 0
                       \/ c = x /\ last_time_frame_received'[c] = received_nach(c),
         NEW n \in {0, still}
  PROVE  Danach(b, getickt \cup {x}, n)
<1> DEFINE g == getickt \cup {x}
           rc == last_time_frame_received
           s == last_time_frame_sent[b]
<1>1. /\ Gezaehlt(b, getickt, ruhig, rc[b])
      /\ Noch(b, getickt, ruhig, s) \/ Herrscht(b)
  BY DEF Takt
<1>2. /\ an \subseteq Boards /\ b \in Boards /\ x \in Boards /\ b \in an
      /\ s \in Nat /\ still \in Nat /\ (b \in g <=> b \in getickt)
      /\ \A c \in an : rc[c] \in Nat
  BY TaktZahlen
<1>3. Gezaehlt(b, g, ruhig, rc'[b])
  BY <1>1, <1>2 DEF Gezaehlt
<1>4. CASE Noch(b, getickt, ruhig, s)
  BY <1>2, <1>3, <1>4 DEF Noch, Danach
<1>5. CASE Herrscht(b)
  <2>1. Laut(b, g, n, s)
    BY <1>2, <1>5 DEF Herrscht, Laut
  <2>2. ASSUME NEW c \in an \ Master PROVE Gehoert(b, c, g, rc'[c], s)
    <3>1. Gehoert(b, c, getickt, rc[c], s)
      BY <1>5 DEF Herrscht
    <3>2. CASE c # x
      <4>1. (c \in g <=> c \in getickt) /\ (rc'[c] = rc[c] \/ rc'[c] = 0) /\ rc[c] \in Nat
        BY <1>2, <3>2
      <4> QED BY <1>2, <3>1, <4>1 DEF Gehoert
    <3>3. CASE c = x
      <4>1. c \in g /\ c \notin getickt /\ rc[c] \in Nat
        BY <1>2, <3>3
      <4>2. rc'[c] \in Nat /\ rc'[c] <= rc[c] + 1
        BY <1>2, <3>3, <4>1, Weitergezaehlt
      <4>3. PICK v \in Nat : v = rc'[c]
        BY <4>2
      <4>4. Gehoert(b, c, g, v, s)
        BY <1>2, <3>1, <4>1, <4>2, <4>3 DEF Gehoert
      <4> QED BY <4>3, <4>4
    <3> QED BY <3>2, <3>3
  <2> QED BY <1>3, <2>1, <2>2 DEF Danach
<1> QED
  BY <1>1, <1>4, <1>5

(* The master's own handler.                                               *)
LEMMA EigenerHandler ==
  ASSUME Takt, NEW x \in an \ getickt, x \in Master,
         warten(x) \/ zaehlen(x) \/ senden(x, {})
  PROVE  /\ Danach(x, getickt \cup {x}, n_nach(x))
         /\ last_time_frame_sent'[x] <= interval[x]
<1> DEFINE g == getickt \cup {x}
           rc == last_time_frame_received
           s == last_time_frame_sent[x]
<1>1. /\ Gezaehlt(x, getickt, ruhig, rc[x])
      /\ Noch(x, getickt, ruhig, s) \/ Herrscht(x)
  BY DEF Takt
<1>2. /\ an \subseteq Boards /\ x \in Boards /\ x \in g /\ x \notin getickt
      /\ s \in Nat /\ s <= interval[x] /\ still \in Nat /\ ruhig \in Nat /\ ByteMax \in Nat
      /\ rc[x] \in Nat /\ rc[x] <= ByteMax
      /\ takeover_time[x] \in Nat /\ takeover_time[x] <= ByteMax
      /\ interval[x] \in Nat /\ interval[x] + 1 <= ByteMax
      /\ \A c \in an : rc[c] \in Nat
  BY TaktZahlen, Zahlen
<1>3. rc \in [Boards -> 0..ByteMax] /\ last_time_frame_sent \in [Boards -> 0..ByteMax]
  BY DEF Takt, TypeOK
<1>4. rc'[x] = received_nach(x)
  BY <1>2, <1>3 DEF warten, zaehlen, senden
<1>5. /\ received_nach(x) \in Nat
      /\ received_nach(x) = ByteMax \/ received_nach(x) = rc[x] + 1
      /\ rc[x] = ByteMax => received_nach(x) = ByteMax
  BY <1>2, Weitergezaehlt
<1>6. Gezaehlt(x, g, ruhig, received_nach(x))
  <2>1. rc[x] = ByteMax \/ ruhig <= rc[x] + 1
    BY <1>1, <1>2 DEF Gezaehlt
  <2> QED BY <1>2, <1>5, <2>1 DEF Gezaehlt
<1>7. CASE warten(x)
  <2>1. last_time_frame_sent' = last_time_frame_sent /\ ~(received_nach(x) >= takeover_time[x])
    BY <1>7 DEF warten, faellig
  <2>2. ruhig <= s + takeover_time[x]
    <3>1. received_nach(x) # ByteMax /\ rc[x] # ByteMax
      BY <1>2, <1>5, <2>1
    <3>2. ruhig <= rc[x] + 1
      BY <1>1, <1>2, <3>1 DEF Gezaehlt
    <3> QED BY <1>2, <1>5, <2>1, <3>1, <3>2
  <2> QED BY <1>2, <1>4, <1>6, <2>1, <2>2 DEF Danach, Noch
<1>8. CASE zaehlen(x)
  <2>1. /\ last_time_frame_sent'[x] = (s + 1) % (ByteMax + 1) /\ s # interval[x] /\ sender' = {}
        /\ rc' = [rc EXCEPT ![x] = received_nach(x)]
    BY <1>2, <1>3, <1>8 DEF zaehlen
  <2>2. (s + 1) % (ByteMax + 1) = s + 1 /\ s + 1 <= interval[x]
    BY <1>2, <2>1
  <2>3. n_nach(x) = still
    BY <2>1 DEF n_nach
  <2>4. \A c \in an : c # x => rc'[c] = rc[c]
    BY <1>2, <1>3, <2>1
  <2>5. CASE Noch(x, getickt, ruhig, s)
    <3>1. Noch(x, g, ruhig, s + 1)
      BY <1>2, <2>5 DEF Noch
    <3> QED BY <1>4, <1>6, <2>1, <2>2, <3>1 DEF Danach
  <2>6. CASE Herrscht(x)
    <3>1. Laut(x, g, still, s + 1)
      BY <1>2, <2>6 DEF Herrscht, Laut
    <3>2. ASSUME NEW c \in an \ Master PROVE Gehoert(x, c, g, rc[c], s + 1)
      <4>1. Gehoert(x, c, getickt, rc[c], s) /\ (c \in g <=> c \in getickt)
        BY <2>6 DEF Herrscht
      <4> QED BY <1>2, <4>1 DEF Gehoert
    <3>3. \A c \in an \ Master : rc'[c] = rc[c]
      BY <2>4
    <3>4. \A c \in an \ Master : Gehoert(x, c, g, rc'[c], s + 1)
      BY <3>2, <3>3
    <3> QED BY <1>4, <1>6, <2>1, <2>2, <2>3, <3>1, <3>4 DEF Danach
  <2> QED BY <1>1, <2>5, <2>6
<1>9. CASE senden(x, {})
  <2>1. /\ last_time_frame_sent'[x] = 0 /\ sender' = {x}
        /\ \A c \in an : c # x /\ level[x] < level[c] => rc'[c] = 0
    BY <1>2, <1>3, <1>9 DEF senden, hoert
  <2>2. \A c \in an \ Master : rc'[c] = 0
    BY <1>2, <2>1, UeberAnderen
  <2>3. Laut(x, g, 0, 0) /\ \A c \in an \ Master : Gehoert(x, c, g, 0, 0)
    BY <1>2 DEF Laut, Gehoert
  <2>4. n_nach(x) = 0
    BY <2>1 DEF n_nach
  <2>5. \A c \in an \ Master : Gehoert(x, c, g, rc'[c], last_time_frame_sent'[x])
    BY <2>1, <2>2, <2>3
  <2>6. Laut(x, g, n_nach(x), last_time_frame_sent'[x])
    BY <2>1, <2>3, <2>4
  <2>7. Gezaehlt(x, g, ruhig, rc'[x])
    BY <1>4, <1>6
  <2>8. Danach(x, g, n_nach(x))
    BY <2>5, <2>6, <2>7 DEF Danach
  <2>9. last_time_frame_sent'[x] <= interval[x]
    BY <1>2, <2>1
  <2> QED BY <2>8, <2>9
<1> QED
  BY <1>7, <1>8, <1>9

(* The types after a handler call that some boards may have missed, and    *)
(* after a failure and a restart.                                          *)
LEMMA TypenBleiben ==
  ASSUME Takt, NEW x \in Boards, Sekunde(x) \/ Verlust(x) \/ Ausfall(x) \/ Neustart(x)
  PROVE  TypeOK' /\ \A b \in Boards : last_time_frame_sent'[b] <= interval[b]
<1> DEFINE rc == last_time_frame_received
           s == last_time_frame_sent
<1>1. /\ an \subseteq Boards /\ getickt \subseteq an
      /\ rc \in [Boards -> 0..ByteMax] /\ s \in [Boards -> 0..ByteMax]
      /\ stoerungen \in 0..MaxStoerung /\ ruhig \in 0..RuheMax /\ still \in 0..RuheMax
  BY DEF Takt, TypeOK
<1>2. /\ ByteMax \in Nat /\ RuheMax \in Nat /\ MaxStoerung \in Nat
      /\ \A b \in Boards : s[b] \in Nat /\ s[b] <= interval[b] /\ interval[b] \in Nat
                           /\ interval[b] + 1 <= ByteMax
  BY TaktZahlen, Zahlen, ZeitdienstAssumption
<1>3. received_nach(x) \in 0..ByteMax
  BY <1>2, Weitergezaehlt
<1>4. ASSUME NEW n \in 0..RuheMax, Stille(x, n) PROVE still' \in 0..RuheMax
  BY <1>2, <1>4 DEF Stille
<1>5. ASSUME Ruhe(x) PROVE ruhig' \in 0..RuheMax
  BY <1>1, <1>2, <1>5 DEF Ruhe
<1>6. ASSUME Abgelaufen(x), x \in an PROVE getickt' \subseteq an
  BY <1>1, <1>6 DEF Abgelaufen
<1>7. ASSUME NEW taub, senden(x, taub)
      PROVE  /\ rc' \in [Boards -> 0..ByteMax] /\ s' \in [Boards -> 0..ByteMax]
             /\ still' \in 0..RuheMax /\ sender' \subseteq Boards
             /\ \A b \in Boards : s'[b] <= interval[b]
  <2>1. /\ s' = [s EXCEPT ![x] = 0] /\ sender' = {x} /\ Stille(x, 0)
        /\ rc' = [c \in Boards |-> IF c = x THEN received_nach(x)
                                   ELSE IF c \in an \ taub /\ hoert(c, x) THEN 0 ELSE rc[c]]
    BY <1>7 DEF senden
  <2>2. 0 \in 0..ByteMax /\ 0 \in 0..RuheMax
    BY <1>2
  <2>3. rc' \in [Boards -> 0..ByteMax]
    BY <1>1, <1>3, <2>1, <2>2
  <2>4. s' \in [Boards -> 0..ByteMax]
    BY <1>1, <2>1, <2>2
  <2>5. \A b \in Boards : s'[b] <= interval[b]
    BY <1>1, <1>2, <2>1
  <2> QED BY <1>4, <2>1, <2>2, <2>3, <2>4, <2>5
<1>8. CASE Sekunde(x)
  <2>1. x \in an /\ an' = an /\ Abgelaufen(x) /\ Ruhe(x) /\ stoerungen' = stoerungen
    BY <1>8 DEF Sekunde, warten, zaehlen
  <2>2. CASE warten(x)
    <3>1. /\ rc' = [rc EXCEPT ![x] = received_nach(x)] /\ s' = s
          /\ sender' = {} /\ Stille(x, still)
      BY <2>2 DEF warten
    <3>2. rc' \in [Boards -> 0..ByteMax]
      BY <1>1, <1>3, <3>1
    <3> QED BY <1>1, <1>2, <1>4, <1>5, <1>6, <2>1, <3>1, <3>2 DEF TypeOK
  <2>3. CASE zaehlen(x)
    <3>1. /\ rc' = [rc EXCEPT ![x] = received_nach(x)] /\ s[x] # interval[x]
          /\ s' = [s EXCEPT ![x] = (s[x] + 1) % (ByteMax + 1)]
          /\ sender' = {} /\ Stille(x, still)
      BY <2>3 DEF zaehlen
    <3>2. rc' \in [Boards -> 0..ByteMax]
      BY <1>1, <1>3, <3>1
    <3>3. (s[x] + 1) % (ByteMax + 1) = s[x] + 1 /\ s[x] + 1 <= interval[x] /\ s[x] + 1 \in 0..ByteMax
      BY <1>2, <3>1
    <3>4. s' = [s EXCEPT ![x] = s[x] + 1]
      BY <3>1, <3>3
    <3>5. s' \in [Boards -> 0..ByteMax]
      BY <1>1, <3>3, <3>4
    <3>6. \A b \in Boards : s'[b] <= interval[b]
      BY <1>1, <1>2, <3>3, <3>4
    <3> QED BY <1>1, <1>4, <1>5, <1>6, <2>1, <3>1, <3>2, <3>5, <3>6 DEF TypeOK
  <2>4. CASE senden(x, {})
    BY <1>1, <1>5, <1>6, <1>7, <2>1, <2>4 DEF TypeOK
  <2> QED BY <1>8, <2>2, <2>3, <2>4 DEF Sekunde
<1>9. CASE Verlust(x)
  <2>1. /\ x \in an /\ an' = an /\ Abgelaufen(x) /\ ruhig' = 0
        /\ stoerungen < MaxStoerung /\ stoerungen' = stoerungen + 1
        /\ \E taub : senden(x, taub)
    BY <1>9 DEF Verlust
  <2>2. stoerungen' \in 0..MaxStoerung /\ ruhig' \in 0..RuheMax
    BY <1>1, <1>2, <2>1
  <2> QED BY <1>1, <1>6, <1>7, <2>1, <2>2 DEF TypeOK
<1>10. CASE Ausfall(x)
  <2>1. /\ an' = an \ {x} /\ ruhig' = 0 /\ sender' = {}
        /\ stoerungen < MaxStoerung /\ stoerungen' = stoerungen + 1
        /\ getickt' = IF an \ {x} \subseteq getickt THEN {} ELSE getickt \ {x}
        /\ rc' = rc /\ s' = s /\ still' = still
    BY <1>10 DEF Ausfall
  <2>2. stoerungen' \in 0..MaxStoerung /\ ruhig' \in 0..RuheMax
    BY <1>1, <1>2, <2>1
  <2>3. an' \subseteq Boards /\ getickt' \subseteq an'
    BY <1>1, <2>1
  <2> QED BY <1>1, <1>2, <2>1, <2>2, <2>3 DEF TypeOK
<1>11. CASE Neustart(x)
  <2>1. /\ an' = an \cup {x} /\ ruhig' = 0 /\ sender' = {}
        /\ stoerungen < MaxStoerung /\ stoerungen' = stoerungen + 1
        /\ getickt' = getickt /\ still' = still
        /\ rc' = [rc EXCEPT ![x] = 0] /\ s' = [s EXCEPT ![x] = 0]
    BY <1>11 DEF Neustart
  <2>2. stoerungen' \in 0..MaxStoerung /\ ruhig' \in 0..RuheMax /\ 0 \in 0..ByteMax
    BY <1>1, <1>2, <2>1
  <2>3. rc' \in [Boards -> 0..ByteMax] /\ s' \in [Boards -> 0..ByteMax]
    BY <1>1, <2>1, <2>2
  <2>4. \A b \in Boards : s'[b] <= interval[b]
    BY <1>1, <1>2, <2>1
  <2>5. an' \subseteq Boards /\ getickt' \subseteq an'
    BY <1>1, <2>1
  <2> QED BY <1>1, <2>1, <2>2, <2>3, <2>4, <2>5 DEF TypeOK
<1> QED
  BY <1>8, <1>9, <1>10, <1>11

(* After a disturbance the observer counts from zero.                      *)
LEMMA Gestoert ==
  ASSUME TypeOK', \A b \in Boards : last_time_frame_sent'[b] <= interval[b], ruhig' = 0
  PROVE  Takt'
<1>1. ASSUME NEW b \in Master'
      PROVE  /\ Gezaehlt(b, getickt', 0, last_time_frame_received'[b])
             /\ Noch(b, getickt', 0, last_time_frame_sent'[b])
  <2>1. b \in Boards
    BY <1>1 DEF TypeOK, Master
  <2>2. last_time_frame_received'[b] \in 0..ByteMax /\ last_time_frame_sent'[b] \in 0..ByteMax
    BY <2>1 DEF TypeOK
  <2>3. takeover_time[b] \in Nat
    BY <2>1, Zahlen
  <2> QED BY <2>2, <2>3 DEF Gezaehlt, Noch
<1> QED
  BY <1>1 DEF Takt

(* A handler call that everybody hears.                                    *)
LEMMA HandlerHaeltTakt ==
  ASSUME Takt, NEW x \in Boards, Sekunde(x)
  PROVE  Takt'
<1> DEFINE g == getickt \cup {x}
           n == n_nach(x)
           rc == last_time_frame_received
           s == last_time_frame_sent
<1>1. /\ x \in an \ getickt /\ an' = an /\ Abgelaufen(x) /\ Ruhe(x)
      /\ warten(x) \/ zaehlen(x) \/ senden(x, {})
  BY DEF Sekunde
<1>2. /\ an \subseteq Boards /\ getickt \subseteq an /\ Master \subseteq an
      /\ rc \in [Boards -> 0..ByteMax] /\ s \in [Boards -> 0..ByteMax]
      /\ ruhig \in Nat /\ still \in Nat
  BY TaktZahlen DEF Takt, TypeOK
<1>3. Stille(x, n) /\ n \in {0, still} /\ n \in Nat
  BY <1>1, <1>2 DEF warten, zaehlen, senden, n_nach
<1>4. \A c \in an : \/ rc'[c] = rc[c]
                    \/ rc'[c] = 0
                    \/ c = x /\ rc'[c] = received_nach(c)
  BY <1>1, <1>2 DEF warten, zaehlen, senden
<1>5. ASSUME NEW b \in Master, b # x PROVE rc'[b] = rc[b] /\ s'[b] = s[b]
  <2>1. b \in Boards /\ x \in Boards /\ level[b] <= level[x] /\ level[b] \in Int /\ level[x] \in Int
    BY <1>1, <1>2, ZeitdienstAssumption DEF Master
  <2>2. ~hoert(b, x)
    BY <2>1 DEF hoert
  <2> QED BY <1>1, <1>2, <1>5, <2>1, <2>2 DEF warten, zaehlen, senden
<1>6. ASSUME NEW b \in Master PROVE Danach(b, g, n)
  <2>1. CASE b = x
    BY <1>1, <2>1, EigenerHandler
  <2>2. CASE b # x
    BY <1>1, <1>3, <1>4, <1>5, <2>2, AndererHandler
  <2> QED BY <2>1, <2>2
<1>7. TypeOK' /\ (\A b \in Boards : s'[b] <= interval[b])
  BY TypenBleiben
<1>8. Master' = Master
  BY <1>1 DEF Master
<1>9. CASE g # an
  <2>1. getickt' = g /\ ruhig' = ruhig /\ still' = n
    BY <1>1, <1>3, <1>9 DEF Abgelaufen, Ruhe, Stille
  <2>2. ASSUME NEW b \in Master
        PROVE  /\ Gezaehlt(b, getickt', ruhig', rc'[b])
               /\ Noch(b, getickt', ruhig', s'[b]) \/ Herrscht(b)'
    BY <1>1, <1>6, <1>8, <2>1 DEF Danach, Herrscht
  <2> QED BY <1>7, <1>8, <2>2 DEF Takt
<1>10. CASE g = an
  <2>1. /\ getickt' = {} /\ ruhig' \in {ruhig, ruhig + 1} /\ still' \in {n, n + 1}
    BY <1>1, <1>3, <1>10 DEF Abgelaufen, Ruhe, Stille
  <2>2. ASSUME NEW b \in Master
        PROVE  /\ Gezaehlt(b, {}, ruhig', rc'[b])
               /\ Noch(b, {}, ruhig', s'[b]) \/ Herrscht(b)'
    <3>1. b \in g /\ b \in Boards /\ takeover_time[b] \in Nat /\ an \ Master \subseteq g
      BY <1>2, <1>10, Zahlen
    <3>2. rc'[b] \in Nat /\ s'[b] \in Nat /\ \A c \in an : rc'[c] \in Nat
      BY <1>2, <1>7, <3>1 DEF TypeOK
    <3>3. Danach(b, g, n)
      BY <1>6
    <3>4. Gezaehlt(b, {}, ruhig', rc'[b])
      <4>1. Gezaehlt(b, g, ruhig, rc'[b])
        BY <3>3 DEF Danach
      <4> QED BY <1>2, <2>1, <3>1, <3>2, <4>1, Sekundenende
    <3>5. CASE Noch(b, g, ruhig, s'[b])
      <4>1. Noch(b, {}, ruhig, s'[b]) /\ Noch(b, {}, ruhig + 1, s'[b])
        BY <1>2, <3>1, <3>2, <3>5, Sekundenende
      <4> QED BY <2>1, <3>4, <4>1
    <3>6. CASE /\ Laut(b, g, n, s'[b])
               /\ \A c \in an \ Master : Gehoert(b, c, g, rc'[c], s'[b])
      <4>1. Laut(b, {}, n, s'[b]) /\ Laut(b, {}, n + 1, s'[b])
        BY <1>3, <3>1, <3>2, <3>6, Sekundenende
      <4>2. Laut(b, {}, still', s'[b])
        BY <2>1, <4>1
      <4>3. ASSUME NEW c \in an \ Master PROVE Gehoert(b, c, {}, rc'[c], s'[b])
        BY <1>2, <3>1, <3>2, <3>6, Sekundenende
      <4> QED BY <1>1, <1>8, <2>1, <3>4, <4>2, <4>3 DEF Herrscht
    <3> QED BY <3>3, <3>5, <3>6 DEF Danach
  <2> QED BY <1>7, <1>8, <2>1, <2>2 DEF Takt
<1> QED
  BY <1>9, <1>10

-----------------------------------------------------------------------------
(* When the time has passed, every master has sent since the disturbance   *)
(* and has been heard.                                                     *)
LEMMA NachDerFrist ==
  ASSUME Takt, NEW b \in Master, NEW r \in Nat, r >= takeover_time[b] + interval[b] + 2,
         r = ruhig \/ (r = ruhig + 1 /\ b \in getickt)
  PROVE  Herrscht(b)
<1>1. /\ b \in Boards /\ takeover_time[b] \in Nat /\ interval[b] \in Nat /\ ruhig \in Nat
      /\ last_time_frame_sent[b] \in Nat /\ last_time_frame_sent[b] <= interval[b]
  BY TaktZahlen, Zahlen
<1>2. ~Noch(b, getickt, ruhig, last_time_frame_sent[b])
  BY <1>1 DEF Noch
<1> QED
  BY <1>2 DEF Takt

LEMMA HandlerNurMaster ==
  ASSUME Takt, NEW x \in Boards, Sekunde(x), Frist'
  PROVE  sender' \subseteq Master'
<1>1. /\ x \in an \ getickt /\ an' = an /\ Ruhe(x)
      /\ warten(x) \/ zaehlen(x) \/ senden(x, {})
  BY DEF Sekunde
<1>2. Master' = Master
  BY <1>1 DEF Master
<1>3. /\ an \subseteq Boards /\ getickt \subseteq an /\ Master \subseteq an
      /\ ruhig \in Nat
  BY TaktZahlen
<1>4. CASE sender' = {}
  BY <1>4
<1>5. CASE senden(x, {})
  <2>1. sender' = {x} /\ received_nach(x) >= takeover_time[x]
    BY <1>5 DEF senden, faellig
  <2>2. SUFFICES ASSUME x \notin Master PROVE FALSE
    BY <1>2, <2>1
  <2>3. PICK b : b \in Master
    BY <1>1, <1>3, MasterDa
  <2>4. b \in Boards /\ b # x /\ b \in an
    BY <1>3, <2>2, <2>3
  <2>5. PICK r \in Nat : r = ruhig' /\ (r = ruhig \/ (r = ruhig + 1 /\ b \in getickt))
    BY <1>1, <1>3, <2>4 DEF Ruhe
  <2>6. r >= takeover_time[b] + interval[b] + 2
    BY <1>2, <2>3, <2>5 DEF Frist
  <2>7. Herrscht(b)
    BY <2>3, <2>5, <2>6, NachDerFrist
  <2>8. Gehoert(b, x, getickt, last_time_frame_received[x], last_time_frame_sent[b])
    BY <1>1, <2>2, <2>7 DEF Herrscht
  <2>9. interval[b] + 3 <= takeover_time[x]
    BY <1>1, <1>3, <2>2, <2>3, UeberAnderen
  <2>10. /\ last_time_frame_received[x] \in Nat /\ last_time_frame_sent[b] \in Nat
         /\ last_time_frame_sent[b] <= interval[b]
         /\ interval[b] \in Nat /\ takeover_time[x] \in Nat /\ received_nach(x) \in Nat
         /\ received_nach(x) <= last_time_frame_received[x] + 1
    BY <2>4, TaktZahlen, Zahlen, Weitergezaehlt
  <2>11. last_time_frame_received[x] <= last_time_frame_sent[b] + 1
    BY <1>1, <2>8, <2>10 DEF Gehoert
  <2> QED BY <2>1, <2>9, <2>10, <2>11
<1> QED
  BY <1>1, <1>4, <1>5 DEF warten, zaehlen

(* The invariant with the property itself: a step of the time service.     *)
LEMMA TaktSchritt ==
  ASSUME Takt, EinMaster, [Next]_vars
  PROVE  Takt' /\ EinMaster'
<1>1. ASSUME NEW x \in Boards, Sekunde(x) PROVE Takt' /\ EinMaster'
  BY <1>1, HandlerHaeltTakt, HandlerNurMaster DEF EinMaster
<1>2. ASSUME NEW x \in Boards, Verlust(x) PROVE Takt' /\ EinMaster'
  <2>1. Takt'
    BY <1>2, TypenBleiben, Gestoert DEF Verlust
  <2>2. Master' = Master /\ x \in an /\ ruhig' = 0
    BY <1>2 DEF Verlust, Master
  <2>3. PICK b : b \in Master
    BY <2>2, TaktZahlen, MasterDa
  <2>4. takeover_time[b] \in Nat /\ interval[b] \in Nat
    BY <2>3, TaktZahlen, Zahlen
  <2>5. ~Frist'
    BY <2>2, <2>3, <2>4 DEF Frist
  <2> QED BY <2>1, <2>5 DEF EinMaster
<1>3. ASSUME NEW x \in Boards, Ausfall(x) \/ Neustart(x) PROVE Takt' /\ EinMaster'
  <2>1. ruhig' = 0 /\ sender' = {}
    BY <1>3 DEF Ausfall, Neustart
  <2> QED BY <1>3, <2>1, TypenBleiben, Gestoert DEF EinMaster
<1>4. CASE UNCHANGED vars
  <2>1. Master' = Master
    BY <1>4 DEF vars, Master
  <2> QED BY <1>4, <2>1 DEF vars, Takt, TypeOK, Herrscht, EinMaster, Frist
<1> QED
  BY <1>1, <1>2, <1>3, <1>4 DEF Next

LEMMA TaktAnfang == Init => Takt /\ EinMaster
<1> SUFFICES ASSUME Init PROVE Takt /\ EinMaster
  OBVIOUS
<1>1. ByteMax \in Nat /\ RuheMax \in Nat /\ MaxStoerung \in Nat
  BY Zahlen, ZeitdienstAssumption
<1>2. TypeOK
  BY <1>1 DEF Init, TypeOK
<1>3. \A b \in Boards : /\ last_time_frame_sent[b] = 0 /\ last_time_frame_received[b] = 0
                        /\ interval[b] \in Nat /\ takeover_time[b] \in Nat
  BY Zahlen DEF Init
<1>4. \A b \in Boards : /\ last_time_frame_sent[b] <= interval[b]
                        /\ Gezaehlt(b, getickt, ruhig, last_time_frame_received[b])
                        /\ Noch(b, getickt, ruhig, last_time_frame_sent[b])
  <2>1. getickt = {} /\ ruhig = 0
    BY DEF Init
  <2>2. ASSUME NEW b \in Boards
        PROVE  /\ last_time_frame_sent[b] <= interval[b]
               /\ Gezaehlt(b, {}, 0, last_time_frame_received[b])
               /\ Noch(b, {}, 0, last_time_frame_sent[b])
    <3>1. /\ 0 <= interval[b] /\ Gezaehlt(b, {}, 0, 0) /\ Noch(b, {}, 0, 0)
      BY <1>3 DEF Gezaehlt, Noch
    <3> QED BY <1>3, <3>1
  <2> QED BY <2>1, <2>2
<1>5. Master \subseteq Boards
  BY <1>2 DEF TypeOK, Master
<1>6. EinMaster
  BY DEF Init, EinMaster
<1> QED
  BY <1>2, <1>4, <1>5, <1>6 DEF Takt

(* A master is settled (timeservice.c:28): whatever failed, came back or   *)
(* was missed before, once nothing has been disturbed for takeover_time +  *)
(* interval + 2 seconds only boards of the lowest level send.              *)
THEOREM NurMasterSendet == Spec => []EinMaster
<1>1. Init => Takt /\ EinMaster
  BY TaktAnfang
<1>2. Takt /\ EinMaster /\ [Next]_vars => Takt' /\ EinMaster'
  BY TaktSchritt
<1> QED
  BY <1>1, <1>2, PTL DEF Spec

(* And they send in time (timeservice.c:30): no more than interval + 1     *)
(* seconds, by the count of those who listen, lie between two frames.      *)
THEOREM MasterHaeltTakt == Spec => []ZeitImTakt
<1>1. Init => Takt /\ EinMaster
  BY TaktAnfang
<1>2. Takt /\ EinMaster /\ [Next]_vars => Takt' /\ EinMaster'
  BY TaktSchritt
<1>3. Takt => ZeitImTakt
  <2> SUFFICES ASSUME Takt, Frist, NEW b \in Master PROVE still <= interval[b] + 1
    BY DEF ZeitImTakt
  <2>1. ruhig \in Nat /\ ruhig >= takeover_time[b] + interval[b] + 2
    BY TaktZahlen DEF Frist
  <2>2. Laut(b, getickt, still, last_time_frame_sent[b])
    BY <2>1, NachDerFrist DEF Herrscht
  <2>3. /\ still \in Nat /\ interval[b] \in Nat /\ last_time_frame_sent[b] \in Nat
        /\ last_time_frame_sent[b] <= interval[b]
    BY TaktZahlen, Zahlen
  <2> QED BY <2>2, <2>3 DEF Laut
<1> QED
  BY <1>1, <1>2, <1>3, PTL DEF Spec
=============================================================================
