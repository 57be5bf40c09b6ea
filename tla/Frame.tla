------------------------------- MODULE Frame -------------------------------
(***************************************************************************)
(* A frame on its way between the programs of the host and the bus: the    *)
(* packing of its header in frame.cc, and its characters on the USB line   *)
(* between hcanhid and the host interface.                                 *)
(***************************************************************************)
EXTENDS Naturals, Sequences, SequencesExt

prio_hi == 0
prio_lo == 3

(* frame::write_to: the CANFrame of the datagram. *)
write_to(src, dst, proto, prio, data) ==
  [id |-> (src % 2^10) + (dst % 2^10) * 2^10 + (proto % 2^3) * 2^20 + prio * 2^24,
   data |-> data]

(* frame::read_from: the priority is not taken over, a frame has at most   *)
(* eight bytes.                                                            *)
read_from(cf) ==
  [src |-> cf.id % 2^10, dst |-> (cf.id \div 2^10) % 2^10,
   proto |-> (cf.id \div 2^20) % 2^3,
   data |-> SubSeq(cf.data, 1, IF Len(cf.data) > 8 THEN 8 ELSE Len(cf.data))]

(* keep_connection_alive: the identifier 0 is for hcand alone. *)
keepalive == write_to(0, 0, 0, prio_hi, << >>)

-----------------------------------------------------------------------------
hexchars == <<"0", "1", "2", "3", "4", "5", "6", "7",
              "8", "9", "a", "b", "c", "d", "e", "f">>

(* A byte is two characters, a command a single capital letter. *)
hexstr(v) == <<hexchars[v \div 16 + 1], hexchars[(v % 16) + 1]>>

convert_hexstr2int(msb, lsb) ==
  LET wert(c) == (CHOOSE i \in 1..16 : hexchars[i] = c) - 1
  IN  16 * wert(msb) + wert(lsb)

Befehle == {"B", "C", "F", "P", "R", "S", "Y"}

(* A CANFrame as characters: the identifier from its lowest byte on, the   *)
(* size, the data, between C and F.                                        *)
Zeichen(cf) ==
  LET kopf == [i \in 1..4 |-> (cf.id \div 2^(8 * (i - 1))) % 2^8]
      bytes == kopf \o <<Len(cf.data)>> \o cf.data
  IN  <<"C">> \o FlattenSeq([i \in DOMAIN bytes |-> hexstr(bytes[i])]) \o <<"F">>

(* Mutant: what is announced is not compared with what came. *)
MutGroesseEgal(b) == Len(b) >= 5

(* The bytes between C and F as a CANFrame, and whether they are as many   *)
(* as the fifth of them announces.                                         *)
GroesseStimmt(b) == Len(b) >= 5 /\ b[5] = Len(b) - 5

AlsFrame(b) ==
  [id |-> b[1] + b[2] * 2^8 + b[3] * 2^16 + b[4] * 2^24,
   data |-> SubSeq(b, 6, Len(b))]
=============================================================================
