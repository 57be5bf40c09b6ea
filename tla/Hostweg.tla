------------------------------ MODULE Hostweg ------------------------------
(***************************************************************************)
(* The way of a frame between the programs of the host and the bus:        *)
(* program -> hcand -> hcanhid -> USB line -> host interface -> bus, and   *)
(* back.  Programs get their addresses from hcanaddressd.  Programs start  *)
(* and end, the line loses characters, hcand forgets programs.             *)
(***************************************************************************)
EXTENDS Hid, Adressen

CONSTANTS
  Vorraete,       \* bounds, one of which a behaviour starts with: programs
                  \* that start, that end and that send again and again;
                  \* whether a board does; how many other frames they and
                  \* the boards send and characters are lost to and from the
                  \* host interface
  MehrAlsEins     \* of one frame to the host interface two may be lost

ASSUME HostwegAssumption ==
  /\ Kunden = Programme \ {hid}
  /\ Vorraete \subseteq [starten : SUBSET Kunden, enden : SUBSET Kunden,
                          dauernd : SUBSET Kunden, busDauernd : BOOLEAN,
                          senden : Nat, bus : Nat, hin : Nat, her : Nat]
  /\ \A v \in Vorraete : Cardinality(v.dauernd) < MAX_PEERS
  /\ MehrAlsEins \in BOOLEAN

VARIABLES
  vorrat,         \* what is left of the bounds
  gesendet,       \* <<program, frame>> of every frame sent
  vomBus,         \* the frames the boards sent
  beschaedigt,    \* a character of the frame hcanhid is writing is lost
  luecke,         \* a character from the host interface is lost or thrown away
  gelesen         \* program |-> frames it has read

beobachtet == <<vorrat, gesendet, vomBus, beschaedigt, luecke, gelesen>>
hostwegVars == <<hcandVars, linie, hidVars, hiVars, adressenVars, beobachtet>>

HostwegInit ==
  /\ HcandInit /\ HidInit /\ AdressenInit
  /\ vorrat \in Vorraete
  /\ gesendet = {} /\ vomBus = {}
  /\ beschaedigt = FALSE /\ luecke = FALSE
  /\ gelesen = [k \in Kunden |-> {}]

Brett == 1
SFP == 1

-----------------------------------------------------------------------------
(* A program of the host.                                                  *)
Starte(k) ==
  /\ k \in vorrat.starten
  /\ allocate(k)
  /\ UNCHANGED <<hcandVars, linie, hidVars, hiVars, beobachtet>>

(* The constructor of transport_connection. *)
transport_connection(k) ==
  /\ erhalten(k)
  /\ eingang' = AnHcand(k, keepalive)
  /\ UNCHANGED <<peer_addr, peer_timeout, hcand, socket, linie, hidVars, hiVars,
                 beobachtet>>

(* send_X: two bytes of data, the second tells the frames apart; the frame *)
(* that is sent again and again has a 0 there.                             *)
Sendet(k, n) ==
  /\ zustand[k] = "laeuft"
  /\ LET cf == write_to(adresse[k], Brett, SFP, prio_lo, <<1, n>>)
     IN  /\ eingang' = AnHcand(k, cf)
         /\ gesendet' = gesendet \cup {<<k, cf>>}
  /\ UNCHANGED <<peer_addr, peer_timeout, hcand, socket, linie, hidVars, hiVars,
                 adressenVars, vomBus, beschaedigt, luecke, gelesen>>

Sende(k) ==
  /\ vorrat.senden > 0
  /\ Sendet(k, vorrat.senden)
  /\ vorrat' = [vorrat EXCEPT !.senden = @ - 1]

(* No faster than hcand takes the datagrams. *)
SendeWieder(k) ==
  /\ k \in vorrat.dauernd /\ eingang = << >>
  /\ Sendet(k, 0)
  /\ UNCHANGED vorrat

(* read_from; the socket of a program that has ended loses its frames. *)
Lies(k) ==
  /\ socket[k] # << >>
  /\ socket' = [socket EXCEPT ![k] = Tail(@)]
  /\ gelesen' = [gelesen EXCEPT ![k] = @ \cup {Head(socket[k])}]
  /\ UNCHANGED <<peer_addr, peer_timeout, hcand, eingang, linie, hidVars, hiVars,
                 adressenVars, vorrat, gesendet, vomBus, beschaedigt, luecke>>

Ende(k) ==
  /\ k \in vorrat.enden
  /\ beende(k)
  /\ UNCHANGED <<hcandVars, linie, hidVars, hiVars, beobachtet>>

Hcanaddressd ==
  /\ runde
  /\ UNCHANGED <<hcandVars, linie, hidVars, hiVars, beobachtet>>

-----------------------------------------------------------------------------
Hcand_ ==
  /\ HcandSchritt
  /\ UNCHANGED <<linie, hidVars, hiVars, adressenVars, beobachtet>>

Sekunde ==
  /\ sig_alarm
  /\ UNCHANGED <<linie, hidVars, hiVars, adressenVars, beobachtet>>

Hcanhid ==
  /\ HidSchritt
  /\ luecke' = (luecke \/ hidPc = "leeren")
  /\ beschaedigt' = (beschaedigt /\ hidRest' # << >>)
  /\ UNCHANGED <<adressenVars, vorrat, gesendet, vomBus, gelesen>>

Hostinterface ==
  /\ HiSchritt
  /\ UNCHANGED <<adressenVars, beobachtet>>

Controller ==
  /\ \E i \in 0..2 : CanSendet(i)
  /\ UNCHANGED <<adressenVars, beobachtet>>

BrettSendet ==
  /\ vorrat.bus > 0 \/ vorrat.busDauernd
  /\ LET cf == write_to(Brett, 512, SFP, prio_lo, <<1, 16 + vorrat.bus>>)
     IN  /\ VomBus(cf)
         /\ vomBus' = vomBus \cup {cf}
  /\ vorrat' = [vorrat EXCEPT !.bus = IF @ = 0 THEN 0 ELSE @ - 1]
  /\ UNCHANGED <<adressenVars, gesendet, beschaedigt, luecke, gelesen>>

VerlustHin ==
  /\ vorrat.hin > 0
  /\ MehrAlsEins \/ ~beschaedigt
  /\ ZeichenVerlorenHin
  /\ vorrat' = [vorrat EXCEPT !.hin = @ - 1]
  /\ beschaedigt' = TRUE
  /\ UNCHANGED <<adressenVars, gesendet, vomBus, luecke, gelesen>>

VerlustHer ==
  /\ vorrat.her > 0
  /\ ZeichenVerlorenHer
  /\ vorrat' = [vorrat EXCEPT !.her = @ - 1]
  /\ luecke' = TRUE
  /\ UNCHANGED <<adressenVars, gesendet, vomBus, beschaedigt, gelesen>>

(* Nothing but the alarm makes a difference to the steps with which hcand  *)
(* passes a datagram on, so that only the alarm is interleaved with them.  *)
Umgebung ==
  \/ \E k \in Kunden : Starte(k)
  \/ \E k \in Kunden : transport_connection(k)
  \/ \E k \in Kunden : Sende(k)
  \/ \E k \in Kunden : SendeWieder(k)
  \/ \E k \in Kunden : Lies(k)
  \/ \E k \in Kunden : Ende(k)
  \/ Hcanaddressd
  \/ Hcanhid
  \/ Hostinterface
  \/ Controller
  \/ BrettSendet
  \/ VerlustHin
  \/ VerlustHer

HostwegNext ==
  \/ Hcand_
  \/ Sekunde
  \/ hcand.pc = "recvfrom" /\ Umgebung

(* The loops of hcand, hcanhid and the host interface run, and the alarm   *)
(* comes every second.  Strong fairness, since a datagram of a program     *)
(* between two steps of hcanhid does not hold hcanhid up.                  *)
HostwegSpec ==
  /\ HostwegInit /\ [][HostwegNext]_hostwegVars
  /\ WF_hostwegVars(Hcand_) /\ WF_hostwegVars(Sekunde)
  /\ SF_hostwegVars(hcand.pc = "recvfrom" /\ Hcanhid)
  /\ SF_hostwegVars(hcand.pc = "recvfrom" /\ Hostinterface)

-----------------------------------------------------------------------------
(* What reaches the bus is a frame as a program sent it, though the line   *)
(* loses a character of a frame now and then and the host interface is     *)
(* reset in between.  What reaches a program is a frame as another program *)
(* or a board sent it, as long as the line loses nothing on that way.      *)
Unverfaelscht ==
  LET alle == {g[2] : g \in gesendet}
  IN  /\ DOMAIN bus \subseteq alle
      /\ ~luecke =>
           \A k \in Kunden : ToSet(socket[k]) \subseteq alle \cup vomBus

(* Nothing is sent twice and nothing comes back: the bus sees the frame of *)
(* a program at most once, a program sees every frame once and never its   *)
(* own, whatever slots the alarm frees while hcand passes a frame on.  In  *)
(* which order the bus sees two frames is not said: the controller has     *)
(* three buffers, and drops what finds none of them free.                  *)
Einmalig(f) == f.data[2] \notin {0, 16}
HoechstensEinmal ==
  /\ \A f \in DOMAIN bus : Einmalig(f) => bus[f] = 1
  /\ ~luecke =>
       \A k \in Kunden :
         LET gekommen == SelectSeq(socket[k], Einmalig)
         IN  /\ IsInjective(gekommen)
             /\ ToSet(gekommen) \cap gelesen[k] = {}
             /\ \A f \in ToSet(socket[k]) : <<k, f>> \notin gesendet

(* Two running programs never have the same address, whatever the order in *)
(* which programs start and end and hcanaddressd gets to know of it.       *)
EigeneAdresse ==
  \A k, l \in Kunden :
    k # l /\ zustand[k] = "laeuft" /\ zustand[l] = "laeuft" =>
      adresse[k] # adresse[l]

(* hcanhid is known to hcand again and again, though hcand forgets it      *)
(* while frames go only towards the bus, all slots are taken for a while,  *)
(* the host interface is reset, the line loses characters and is full in   *)
(* one direction.  Two things cut the host off for good: both ends of the  *)
(* line wait for a full line, so that nobody reads (usb.c:19), and hcanhid *)
(* waits for the reset flag after Y, which the line lost                   *)
(* (hcanhid/main.c:127).                                                   *)
BeideWarten ==
  /\ hidRest # << >> /\ Len(zuHi) = KapHi
  /\ hiRest # << >> /\ Len(zuHost) = KapHost
WartetAufFlagge == hidPc = "recchar" /\ zuHost = << >>
WiederAngemeldet ==
  <>[]BeideWarten \/ <>[]WartetAufFlagge \/ []<>Angemeldet(hid)

(* What reaches a program was sent by a board or another program.          *)
HerUnverfaelscht ==
  \A k \in Kunden :
    ToSet(socket[k]) \subseteq {g[2] : g \in gesendet} \cup vomBus
=============================================================================
