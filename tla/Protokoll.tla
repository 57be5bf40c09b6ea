----------------------------- MODULE Protokoll -----------------------------
(***************************************************************************)
(* A program of the host talks to the boards: the calls of Hostrufe over   *)
(* the messages of Nachrichten, the handlers of Firmware at the other end. *)
(*                                                                         *)
(* The host sends and waits; recv_X gives up after 300 ms, and throws on a *)
(* frame that is not X.  Frames get lost, come late, and other programs    *)
(* send to the address of the host.  What was not taken stays in the       *)
(* socket for the next call of the same session.                           *)
(***************************************************************************)
EXTENDS Hostrufe, Meldungen, Integers

CONSTANTS
  MaxRest,    \* frames of earlier calls a session starts a call with
  Fremde      \* messages other programs of the host send

ASSUME FremdeAssumption == Fremde \subseteq Alle

VARIABLES
  ruf,        \* the steps the running call still has to take
  hin,        \* frames from the host, in the order they were sent
  her,        \* frames to the host: under way or in its socket
  modus,      \* of the board: application, booting, or stopped boot loader
  gestoert,   \* the running call met something it does not deal with
  bus         \* a message between the boards, or none

vars == <<ruf, hin, her, modus, gestoert, bus>>

-----------------------------------------------------------------------------
(* Calls that the boot loader serves as well as the application, and the   *)
(* only one that needs the boot loader.                                    *)
RufeUeberall ==
  UNION {board_connection, read_eeprom_byte, read_eeprom_word,
         write_eeprom_byte, write_eeprom_word, save_crc16_to_board,
         cmd_getaddress, cmd_setaddress, cmd_reset, cmd_getstate, cmd_dump_ee,
         cmd_bootloader, ping}

RufeLader == RufeUeberall \cup load_crc16_from_board \cup cmd_loadapp

RufeGruppe ==
  UNION {rolladen_command, lampe_command, sonstige_command,
         reedkontakt_command, tempsensor_command, heizung_command, send_time}

RufeAnwendung ==
  UNION {RufeUeberall, RufeGruppe, cmd_setsysloglevel, cmd_getuptime,
         cmd_show_system, cmd_show_time, cmd_discover_1wire,
         cmd_show_ram_usage, cmd_config_reload, usv_exec_command,
         field, uint16_field, strfield, set_field_uint8, set_field_uint16,
         set_field_str, eds_update, space_free, space_used, create_block,
         delete_block, eds_defragment, eds_format, usv_betrieb,
         usv_min_bat_spannung, oap_access}

Rufe == RufeLader \cup RufeAnwendung

Modi == {"anwendung", "boot", "lader"}

-----------------------------------------------------------------------------
(* send_X: the service and the command of X, then the arguments in their   *)
(* order.  `zu' tells to which request of the call an answer belongs; it   *)
(* is not in the frame.                                                    *)
send(s, zu) ==
  [an |-> s.ziel, dienst |-> s.nachricht.dienst, befehl |-> s.nachricht.befehl,
   werte |-> s.werte, zu |-> zu]

(* Mutant: the service of the frame is not compared. *)
MutDienstEgal(s, f) ==
  /\ s.ziel = "brett" => f.von = "brett"
  /\ Len(f.werte) = Len(s.nachricht.werte)
  /\ f.befehl = s.nachricht.befehl

(* recv_X takes a frame: from the board that was asked (an answer of a     *)
(* group from anyone), of the size of X, with the service and the command  *)
(* of X.  get_details looks at the command alone.                          *)
recv(s, f) ==
  IF s.art = "details"
    THEN f.befehl \in {HEIZUNG_MODE_OFF_DETAILS.befehl,
                       HEIZUNG_MODE_MANUAL_DETAILS.befehl,
                       HEIZUNG_MODE_THERMOSTAT_DETAILS.befehl,
                       HEIZUNG_MODE_AUTOMATIK_DETAILS.befehl}
    ELSE /\ s.ziel = "brett" => f.von = "brett"
         /\ Len(f.werte) = Len(s.nachricht.werte)
         /\ f.dienst = s.nachricht.dienst
         /\ f.befehl = s.nachricht.befehl

(* The handlers a frame of the host reaches, and the cases that know it.   *)
Tabelle(m, f) ==
  IF f.an = "brett" /\ m # "anwendung" THEN Bootlader(f.dienst)
                                       ELSE Anwendung(f.dienst)

Faelle(m, f) == {c \in Tabelle(m, f) : c.befehl = f.befehl}

Antworten(m, f) ==
  LET g == UNION {c.gibt : c \in Faelle(m, f)} IN IF g = {} THEN Stumm ELSE g

Frames(f, g) ==
  [i \in DOMAIN g |->
     [von |-> IF f.an = "brett" THEN "brett" ELSE "geraet",
      dienst |-> f.dienst, befehl |-> g[i].befehl, werte |-> g[i].werte,
      zu |-> f.zu]]

(* DEVICE_RESET starts the boot loader; DEVICE_BOOT_STOP keeps it there,   *)
(* DEVICE_LOAD_APP leaves it: the application knows neither.               *)
ModusNach(m, f) ==
  IF f.an # "brett" \/ f.dienst # HCAN_SRV.HMS THEN m
  ELSE CASE f.befehl = HMS.DEVICE_RESET -> "boot"
         [] f.befehl = HMS.DEVICE_BOOT_STOP /\ m = "boot" -> "lader"
         [] f.befehl = HMS.DEVICE_LOAD_APP -> "anwendung"
         [] OTHER -> m

-----------------------------------------------------------------------------
Init ==
  /\ ruf = << >>
  /\ hin = << >>
  /\ her = << >>
  /\ modus = "anwendung"
  /\ gestoert = FALSE
  /\ bus = << >>

Alt(q) == [i \in DOMAIN q |-> [q[i] EXCEPT !.zu = 0]]

(* The user starts a call.  Frames left from earlier calls, a board that   *)
(* runs the other program or is about to change it, are disturbances.      *)
Beginne(c) ==
  /\ ruf = << >> /\ bus = << >>
  /\ Len(hin) + Len(her) <= MaxRest
  /\ ruf' = c
  /\ hin' = Alt(hin)
  /\ her' = Alt(her)
  /\ gestoert' = \/ her # << >>
                 \/ hin # << >>
                 \/ c \notin RufeGruppe
                    /\ c \notin (IF modus = "anwendung" THEN RufeAnwendung
                                                       ELSE RufeLader)
  /\ UNCHANGED <<modus, bus>>

(* The program ends: its socket, and what would still come, is gone. *)
Beende ==
  /\ ruf = << >>
  /\ hin # << >> \/ her # << >>
  /\ hin' = << >>
  /\ her' = << >>
  /\ gestoert' = FALSE
  /\ UNCHANGED <<ruf, modus, bus>>

Sende ==
  /\ ruf # << >> /\ Head(ruf).art = "send"
  /\ hin' = Append(hin, send(Head(ruf), Len(ruf)))
  /\ ruf' = Tail(ruf)
  /\ UNCHANGED <<her, modus, gestoert, bus>>

(* recv_X takes the frame, or throws: then the rest of the call is not     *)
(* done.                                                                   *)
Empfange ==
  /\ ruf # << >> /\ Head(ruf).art # "send"
  /\ her # << >>
  /\ her' = Tail(her)
  /\ ruf' = IF recv(Head(ruf), Head(her)) THEN Tail(ruf) ELSE << >>
  /\ UNCHANGED <<hin, modus, gestoert, bus>>

(* Nothing for 300 ms: recv_X throws.  What is under way comes late. *)
Frist ==
  /\ ruf # << >> /\ Head(ruf).art # "send"
  /\ her = << >>
  /\ ruf' = << >>
  /\ gestoert' = (gestoert \/ hin # << >>)
  /\ UNCHANGED <<hin, her, modus, bus>>

(* A board handles a frame; of a group none, one or two devices answer. *)
Bearbeite ==
  /\ hin # << >>
  /\ LET f == Head(hin)
         A == Antworten(modus, f)
     IN  /\ \E g1 \in A, g2 \in IF f.an = "gruppe" THEN A ELSE Stumm :
              /\ her' = her \o Frames(f, g1) \o Frames(f, g2)
              /\ gestoert' = (gestoert
                              \/ /\ f.an = "gruppe" /\ A # Stumm
                                 /\ (g1 = << >>) = (g2 = << >>))
         /\ modus' = ModusNach(modus, f)
  /\ hin' = Tail(hin)
  /\ UNCHANGED <<ruf, bus>>

(* Five seconds after a reset without DEVICE_BOOT_STOP. *)
BootEnde ==
  /\ modus = "boot"
  /\ modus' = "anwendung"
  /\ gestoert' = (gestoert \/ ruf # << >>)
  /\ UNCHANGED <<ruf, hin, her, bus>>

(* A frame is lost.  Of losses and foreign frames a call meets at most     *)
(* one: a bound of the model.                                              *)
Verliere ==
  /\ ~gestoert
  /\ \/ hin # << >> /\ hin' = Tail(hin) /\ UNCHANGED her
     \/ her # << >> /\ her' = Tail(her) /\ UNCHANGED hin
  /\ gestoert' = TRUE
  /\ UNCHANGED <<ruf, modus, bus>>

(* Another program of the host sends to our address. *)
Fremd(m) ==
  /\ ~gestoert
  /\ her = << >>
  /\ ruf # << >> /\ Head(ruf).art # "send"
  /\ her' = <<[von |-> "fremd", dienst |-> m.dienst, befehl |-> m.befehl,
               werte |-> m.werte, zu |-> 0]>>
  /\ gestoert' = TRUE
  /\ UNCHANGED <<ruf, hin, modus, bus>>

(* A device, a panel or another program of the host sends to everyone. *)
Melde(m) ==
  /\ bus = << >> /\ ruf = << >> /\ hin = << >> /\ her = << >>
  /\ bus' = <<[an |-> "gruppe", dienst |-> m.dienst, befehl |-> m.befehl,
               werte |-> m.werte, zu |-> 0]>>
  /\ UNCHANGED <<ruf, hin, her, modus, gestoert>>

(* The boards handle it; an answer goes back to the sender. *)
Verteile ==
  /\ bus # << >>
  /\ \E g \in Antworten("anwendung", Head(bus)) :
       bus' = IF g = << >> THEN << >>
              ELSE <<[an |-> "gruppe", dienst |-> Head(bus).dienst,
                      befehl |-> g[1].befehl, werte |-> g[1].werte, zu |-> 0]>>
  /\ UNCHANGED <<ruf, hin, her, modus, gestoert>>

Next ==
  \/ \E c \in Rufe : Beginne(c)
  \/ Beende
  \/ Sende
  \/ Empfange
  \/ Frist
  \/ Bearbeite
  \/ BootEnde
  \/ Verliere
  \/ \E m \in Fremde : Fremd(m)
  \/ \E m \in VonGeraeten \cup Fremde : Melde(m)
  \/ Verteile

Spec == Init /\ [][Next]_vars

-----------------------------------------------------------------------------
(* Every handler that knows a message finds in it what it reads: each byte *)
(* is there, and the sender put there what the handler takes it for.  The  *)
(* callers of send_X, the generated library, and the handlers of twenty    *)
(* files agree only by the numbers and by position.  They do not agree on  *)
(* one message of the 148: WECKER_SET as the library builds it             *)
(* (hcan-def.h:474-478) has no byte for the feature that the power port    *)
(* takes from it (powerport.c:234-241); as the panel builds it             *)
(* (weck_page.c:75) it has one.                                            *)
Versteht(m, f) ==
  \A c \in Faelle(m, f) :
    /\ Len(c.liest) <= Len(f.werte)
    /\ \A i \in DOMAIN c.liest : c.liest[i] \in {"", f.werte[i]}

Ist(f, n) == f.dienst = n.dienst /\ f.befehl = n.befehl /\ f.werte = n.werte

Verstanden ==
  /\ hin # << >> => Versteht(modus, Head(hin))
  /\ bus # << >> => (Versteht("anwendung", Head(bus)) <=> ~Ist(Head(bus), WECKER_SET))

(* The step that waits, and the frame it finds. *)
Wartet == ruf # << >> /\ Head(ruf).art # "send"

(* What recv_X accepts was sent as X: every variable of the caller gets    *)
(* the value it stands for, whatever else arrives on the socket.           *)
KeineVerwechslung ==
  Wartet /\ her # << >> /\ recv(Head(ruf), Head(her)) =>
    LET f == Head(her)
        v == IF Head(ruf).art = "details" THEN DetailsLiest(f.befehl)
                                          ELSE Head(ruf).werte
    IN  /\ Len(v) <= Len(f.werte)
        /\ \A i \in DOMAIN v : v[i] \in {"dummy", f.werte[i]}

(* A call fails only when it was disturbed: its requests are known to the  *)
(* program they go to, every answer is the one the next recv_X of the call *)
(* wants, and no answer is left over.                                      *)
AbbruchNurGestoert ==
  ~gestoert =>
    /\ Wartet /\ her # << >> => recv(Head(ruf), Head(her)) \/ Head(ruf).fangen
    /\ Wartet /\ hin = << >> /\ her = << >> => Head(ruf).fangen
    /\ ruf = << >> /\ hin = << >> => her = << >>

(* The answer of a board that a call takes is the one to its own last      *)
(* request.                                                                *)
AntwortFrisch ==
  (/\ Wartet /\ her # << >> /\ Head(her).von # "fremd"
   /\ recv(Head(ruf), Head(her))) =>
    Head(her).zu = Len(ruf) + 1
=============================================================================
