------------------------------- MODULE Hcand -------------------------------
(***************************************************************************)
(* hcand: every program of the host, hcanhid included, sends its frames as *)
(* datagrams to hcand, which passes each on to all the others.  A program  *)
(* is known from its first datagram on and forgotten when the alarm of     *)
(* every second has counted more than TIMEOUT seconds without another one. *)
(* The alarm interrupts the main loop anywhere.                            *)
(***************************************************************************)
EXTENDS Frame

CONSTANTS
  Programme,   \* the programs, by the address of their socket
  Niemand,     \* a free slot: sin_addr is 0
  MAX_PEERS, TIMEOUT,
  MaxSocket    \* datagrams a socket holds; the kernel drops further ones

ASSUME HcandAssumption ==
  /\ Niemand \notin Programme
  /\ MAX_PEERS \in Nat \ {0} /\ TIMEOUT \in Nat /\ MaxSocket \in Nat \ {0}

VARIABLES
  peer_addr, peer_timeout,
  hcand,       \* where the main loop is: [pc, peer, f, i]
  eingang,     \* the socket of hcand: sequence of <<program, CANFrame>>
  socket       \* program |-> frames in its socket

hcandVars == <<peer_addr, peer_timeout, hcand, eingang, socket>>

Plaetze == 1..MAX_PEERS

Wartet == [pc |-> "recvfrom", peer |-> Niemand, f |-> keepalive, i |-> 0]

HcandInit ==
  /\ peer_addr = [i \in Plaetze |-> Niemand]
  /\ peer_timeout = [i \in Plaetze |-> TIMEOUT]
  /\ hcand = Wartet
  /\ eingang = << >>
  /\ socket = [p \in Programme |-> << >>]

(* sendto of a program: the queue with its datagram, or without it when it *)
(* is full.                                                                *)
AnHcand(p, cf) ==
  IF Len(eingang) < MaxSocket THEN Append(eingang, <<p, cf>>) ELSE eingang

-----------------------------------------------------------------------------
(* The first slot with this address, 0 for -1. *)
Suche(p) ==
  IF \E i \in Plaetze : peer_addr[i] = p
    THEN CHOOSE i \in Plaetze : /\ peer_addr[i] = p
                                /\ \A j \in 1..(i - 1) : peer_addr[j] # p
    ELSE 0

recvfrom_und_suche ==
  /\ hcand.pc = "recvfrom" /\ eingang # << >>
  /\ LET p == eingang[1][1]
     IN  hcand' = [pc |-> IF Suche(p) # 0 THEN "timeout" ELSE "add_peer",
                   peer |-> p, f |-> eingang[1][2], i |-> Suche(p)]
  /\ eingang' = Tail(eingang)
  /\ UNCHANGED <<peer_addr, peer_timeout, socket>>

(* Without a free slot the datagram is dropped. *)
add_peer ==
  /\ hcand.pc = "add_peer"
  /\ LET i == Suche(Niemand)
     IN  /\ peer_addr' = IF i = 0 THEN peer_addr
                         ELSE [peer_addr EXCEPT ![i] = hcand.peer]
         /\ hcand' = IF i = 0 THEN Wartet
                     ELSE [hcand EXCEPT !.pc = "timeout", !.i = i]
  /\ UNCHANGED <<peer_timeout, eingang, socket>>

(* peer_timeout is reset for the slot found before, whoever has it now. *)
timeout_zurueck ==
  /\ hcand.pc = "timeout"
  /\ peer_timeout' = [peer_timeout EXCEPT ![hcand.i] = 0]
  /\ hcand' = IF hcand.f.id = 0 THEN Wartet
              ELSE [hcand EXCEPT !.pc = "verteilen", !.i = 1]
  /\ UNCHANGED <<peer_addr, eingang, socket>>

(* Mutant: the sender gets its own frame back. *)
MutEcho ==
  /\ hcand.pc = "verteilen"
  /\ LET p == peer_addr[hcand.i]
     IN  socket' = IF p # Niemand /\ Len(socket[p]) < MaxSocket
                     THEN [socket EXCEPT ![p] = Append(@, hcand.f)]
                     ELSE socket
  /\ hcand' = IF hcand.i = MAX_PEERS THEN Wartet
              ELSE [hcand EXCEPT !.i = @ + 1]
  /\ UNCHANGED <<peer_addr, peer_timeout, eingang>>

(* To every slot in use but the sender's. *)
verteilen ==
  /\ hcand.pc = "verteilen"
  /\ LET p == peer_addr[hcand.i]
     IN  socket' = IF p \notin {Niemand, hcand.peer} /\ Len(socket[p]) < MaxSocket
                     THEN [socket EXCEPT ![p] = Append(@, hcand.f)]
                     ELSE socket
  /\ hcand' = IF hcand.i = MAX_PEERS THEN Wartet
              ELSE [hcand EXCEPT !.i = @ + 1]
  /\ UNCHANGED <<peer_addr, peer_timeout, eingang>>

(* Once a second, between any two of the steps above. *)
sig_alarm ==
  LET abgelaufen == {i \in Plaetze : /\ peer_addr[i] # Niemand
                                     /\ peer_timeout[i] + 1 > TIMEOUT}
  IN  /\ peer_addr' = [i \in Plaetze |-> IF i \in abgelaufen THEN Niemand
                                                             ELSE peer_addr[i]]
      /\ peer_timeout' = [i \in Plaetze |->
                            CASE i \in abgelaufen -> 0
                              [] peer_addr[i] = Niemand -> peer_timeout[i]
                              [] OTHER -> peer_timeout[i] + 1]
      /\ UNCHANGED <<hcand, eingang, socket>>

HcandSchritt ==
  \/ recvfrom_und_suche
  \/ add_peer
  \/ timeout_zurueck
  \/ verteilen

Angemeldet(p) == \E i \in Plaetze : peer_addr[i] = p
=============================================================================
