------------------------------ MODULE Adressen ------------------------------
(***************************************************************************)
(* hcanaddressd and its client dynaddress: a program of the host gets its  *)
(* address on the bus over a TCP connection and has it as long as the      *)
(* connection lasts.                                                       *)
(***************************************************************************)
EXTENDS Integers, Sequences, FiniteSets, SequencesExt

CONSTANTS
  Kunden,      \* the programs that want an address
  MAX_PEER,    \* addresses there are
  Zufall       \* what an uninitialized variable may hold


VARIABLES
  peers,       \* slot |-> the program at the other end of the socket, or 0
  anfragen,    \* connections not accepted yet
  zustand,     \* program |-> where it is
  adresse      \* program |-> m_address

adressenVars == <<peers, anfragen, zustand, adresse>>

Frei == "frei"

ASSUME AdressenAssumption ==
  MAX_PEER \in Nat \ {0} /\ Zufall \subseteq Int /\ Frei \notin Kunden

AdressenInit ==
  /\ peers = [i \in 0..(MAX_PEER - 1) |-> Frei]
  /\ anfragen = << >>
  /\ zustand = [k \in Kunden |-> "aus"]
  /\ adresse = [k \in Kunden |-> -1]

(* dynaddress::allocate connects ... *)
allocate(k) ==
  /\ zustand[k] = "aus"
  /\ zustand' = [zustand EXCEPT ![k] = "wartet"]
  /\ anfragen' = Append(anfragen, k)
  /\ UNCHANGED <<peers, adresse>>

(* Mutant: the slot is found but not marked. *)
MutNichtBelegt(p, k) ==
  IF \E i \in DOMAIN p : p[i] = Frei
    THEN <<p, 512 + (CHOOSE i \in DOMAIN p : /\ p[i] = Frei
                                             /\ \A j \in 0..(i - 1) : p[j] # Frei)>>
    ELSE <<p, -1>>

(* assign_address: the slots with k in the first free one, and its address *)
assign_address(p, k) ==
  IF \E i \in DOMAIN p : p[i] = Frei
    THEN LET i == CHOOSE i \in DOMAIN p : /\ p[i] = Frei
                                          /\ \A j \in 0..(i - 1) : p[j] # Frei
         IN  <<[p EXCEPT ![i] = k], 512 + i>>
    ELSE <<p, -1>>

(* One round of hcanaddressd: the next connection is accepted and answered *)
(* or closed, then the slots of closed connections become free.  read of a *)
(* connection closed by the daemon gives nothing: allocate makes an error  *)
(* object, does not throw it, and keeps what the variable holds.           *)
runde ==
  /\ anfragen # << >> \/ \E i \in DOMAIN peers : /\ peers[i] # Frei
                                                 /\ zustand[peers[i]] = "beendet"
  /\ LET a == IF anfragen = << >> THEN <<peers, -1>>
                                   ELSE assign_address(peers, Head(anfragen))
         tot == {i \in DOMAIN peers : /\ peers[i] # Frei
                                      /\ zustand[peers[i]] = "beendet"}
     IN  /\ peers' = [i \in DOMAIN peers |-> IF i \in tot THEN Frei ELSE a[1][i]]
         /\ IF anfragen = << >>
              THEN UNCHANGED <<anfragen, zustand, adresse>>
              ELSE \E z \in Zufall :
                     /\ anfragen' = Tail(anfragen)
                     /\ adresse' = [adresse EXCEPT ![Head(anfragen)] =
                                      IF a[2] # -1 THEN a[2] ELSE z]
                     /\ UNCHANGED zustand

(* ... and reads the answer. *)
erhalten(k) ==
  /\ zustand[k] = "wartet" /\ k \notin ToSet(anfragen)
  /\ zustand' = [zustand EXCEPT ![k] = "laeuft"]
  /\ UNCHANGED <<peers, anfragen, adresse>>

(* The program ends, or is killed while it waits. *)
beende(k) ==
  /\ zustand[k] \in {"wartet", "laeuft"}
  /\ zustand' = [zustand EXCEPT ![k] = "beendet"]
  /\ UNCHANGED <<peers, anfragen, adresse>>
=============================================================================
