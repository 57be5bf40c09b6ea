-------------------------------- MODULE Hid --------------------------------
(***************************************************************************)
(* hcanhid and the host interface: the two ends of a USB line that carries *)
(* frames as characters between hcand and the CAN bus.  Both are a single  *)
(* loop that writes a whole frame, waiting whenever the line takes no more *)
(* characters, and reads one character a round.  Nothing happens between   *)
(* characters that are not commands, so that a step writes as many as the  *)
(* line takes and reads up to the next command.                            *)
(***************************************************************************)
EXTENDS Hcand

CONSTANTS
  hid,         \* the program hcanhid
  KapHi,       \* characters the line holds on the way to the host interface
  KapHost,     \* and on the way to the host
  MaxCan       \* frames the receive queue of canix holds

ASSUME HidAssumption ==
  /\ hid \in Programme
  /\ KapHi \in Nat \ {0} /\ KapHost \in Nat \ {0} /\ MaxCan \in Nat \ {0}

VARIABLES
  zuHi, zuHost,        \* the characters on the line
  hidPc,               \* "schleife", or where reset_HI is
  hidErst, ibuffer,    \* firstBitsChar ("" for -1) and ibuffer up to iindex
  hidRest,             \* characters hcanhid still has to write
  frame_to_hi, frame_to_hcand,   \* << >> when not busy
  hiErst, obuffer,     \* the same in the host interface
  hiRest,
  can,                 \* frames in the receive queue of canix
  hiTx,                \* transmit buffers of the CAN controller, << >> when free
  bus                  \* frame |-> how often the controller sent it, 2 for more

hidVars == <<hidPc, hidErst, ibuffer, hidRest, frame_to_hi, frame_to_hcand>>
hiVars == <<hiErst, obuffer, hiRest, can, hiTx, bus>>
linie == <<zuHi, zuHost>>
TxFrei == [i \in 0..2 |-> << >>]

(* The line is quiet and the host interface runs; reset_HI is behind. *)
HidInit ==
  /\ zuHi = << >> /\ zuHost = << >>
  /\ hidPc = "schleife"
  /\ hidErst = "" /\ ibuffer = << >> /\ hidRest = << >>
  /\ frame_to_hi = << >> /\ frame_to_hcand = << >>
  /\ hiErst = "" /\ obuffer = << >> /\ hiRest = << >>
  /\ can = << >> /\ hiTx = TxFrei /\ bus = << >>

-----------------------------------------------------------------------------
(* How many of the characters z the line takes. *)
Passen(z, line, kap) ==
  LET platz == kap - Len(line) IN IF Len(z) < platz THEN Len(z) ELSE platz

(* The characters before the first command, and the rest of the line. *)
BisBefehl(line) ==
  LET k == {i \in DOMAIN line : line[i] \in Befehle}
      n == IF k = {} THEN Len(line) ELSE (CHOOSE i \in k : \A j \in k : i <= j) - 1
  IN  <<SubSeq(line, 1, n), SubSeq(line, n + 1, Len(line))>>

(* What a loop makes of characters z with firstBitsChar e and buffer b:    *)
(* firstBitsChar and the buffer afterwards.                                *)
Werte(e, b, z) ==
  LET y == IF e = "" THEN z ELSE <<e>> \o z
      n == Len(y) \div 2
  IN  <<IF Len(y) % 2 = 1 THEN Last(y) ELSE "",
        b \o [i \in 1..n |-> convert_hexstr2int(y[2 * i - 1], y[2 * i])]>>

-----------------------------------------------------------------------------
(* hcanhid.  In a round it first writes what it can write.                 *)
HidFrei == hidPc = "schleife" /\ hidRest = << >>

schreibe_hcand ==
  /\ HidFrei /\ frame_to_hcand # << >>
  /\ eingang' = AnHcand(hid, frame_to_hcand[1])
  /\ frame_to_hcand' = << >>
  /\ UNCHANGED <<linie, hidPc, hidErst, ibuffer, hidRest, frame_to_hi, hiVars,
                 peer_addr, peer_timeout, hcand, socket>>

(* send_frame_to_HI begins when the line takes a character. *)
send_frame_to_HI ==
  /\ HidFrei /\ frame_to_hi # << >> /\ Len(zuHi) < KapHi
  /\ hidRest' = Zeichen(frame_to_hi[1])
  /\ frame_to_hi' = << >>
  /\ UNCHANGED <<linie, hidPc, hidErst, ibuffer, frame_to_hcand, hiVars, hcandVars>>

sendchar ==
  /\ hidRest # << >> /\ Len(zuHi) < KapHi
  /\ LET n == Passen(hidRest, zuHi, KapHi)
     IN  /\ zuHi' = zuHi \o SubSeq(hidRest, 1, n)
         /\ hidRest' = SubSeq(hidRest, n + 1, Len(hidRest))
  /\ UNCHANGED <<zuHost, hidPc, hidErst, ibuffer, frame_to_hi, frame_to_hcand,
                 hiVars, hcandVars>>

(* Then it reads: a frame of hcand when the way on is free ... *)
lies_hcand ==
  /\ HidFrei /\ frame_to_hcand = << >> /\ frame_to_hi = << >>
  /\ socket[hid] # << >>
  /\ frame_to_hi' = <<Head(socket[hid])>>
  /\ socket' = [socket EXCEPT ![hid] = Tail(@)]
  /\ UNCHANGED <<linie, hidPc, hidErst, ibuffer, hidRest, frame_to_hcand, hiVars,
                 peer_addr, peer_timeout, hcand, eingang>>

(* ... and characters of the host interface: a command c with the bytes b *)
(* before it.  A byte that is not complete survives every command.         *)
handle_serial_command(c, b) ==
  CASE c \in {"B", "C"} ->
         /\ ibuffer' = << >>
         /\ UNCHANGED <<hidPc, frame_to_hcand, hidRest>>
    [] c = "Y" ->
         /\ hidPc' = "recchar"
         /\ ibuffer' = b
         /\ UNCHANGED <<frame_to_hcand, hidRest>>
    [] c = "F" /\ GroesseStimmt(b) ->
         /\ frame_to_hcand' = <<AlsFrame(b)>>
         /\ ibuffer' = b
         /\ UNCHANGED <<hidPc, hidRest>>
    [] c = "F" /\ ~GroesseStimmt(b) ->
         /\ hidPc' = "leeren"
         /\ ibuffer' = << >>
         /\ UNCHANGED <<frame_to_hcand, hidRest>>
    [] OTHER ->
         /\ hidRest' = <<"R">>
         /\ ibuffer' = b
         /\ UNCHANGED <<hidPc, frame_to_hcand>>

lies_zeichen ==
  /\ HidFrei /\ frame_to_hcand = << >> /\ (frame_to_hi # << >> => Len(zuHi) = KapHi)
  /\ zuHost # << >>
  /\ LET t == BisBefehl(zuHost)
         w == Werte(hidErst, ibuffer, t[1])
     IN  /\ hidErst' = w[1]
         /\ IF t[2] = << >>
              THEN /\ ibuffer' = w[2]
                   /\ zuHost' = << >>
                   /\ UNCHANGED <<hidPc, hidRest, frame_to_hcand>>
              ELSE /\ handle_serial_command(Head(t[2]), w[2])
                   /\ zuHost' = Tail(t[2])
  /\ UNCHANGED <<zuHi, frame_to_hi, hiVars, hcandVars>>

(* After Y the loop waits for the reset flag, whatever character it is. *)
lies_flagge ==
  /\ hidPc = "recchar" /\ zuHost # << >>
  /\ zuHost' = Tail(zuHost)
  /\ hidPc' = "schleife"
  /\ ibuffer' = << >>
  /\ UNCHANGED <<zuHi, hidErst, hidRest, frame_to_hi, frame_to_hcand, hiVars,
                 hcandVars>>

(* reset_HI: throw away what comes, five times, and what comes after the  *)
(* last time, in the middle of a frame or not, stays; then R.              *)
leeren ==
  /\ hidPc = "leeren"
  /\ \E n \in 0..Len(zuHost) : zuHost' = SubSeq(zuHost, n + 1, Len(zuHost))
  /\ hidPc' = "schlafen"
  /\ UNCHANGED <<zuHi, hidErst, ibuffer, hidRest, frame_to_hi, frame_to_hcand,
                 hiVars, hcandVars>>

reset_HI_ende ==
  /\ hidPc = "schlafen"
  /\ hidPc' = "schleife"
  /\ hidRest' = <<"R">>
  /\ UNCHANGED <<linie, hidErst, ibuffer, frame_to_hi, frame_to_hcand, hiVars,
                 hcandVars>>

(* Mutant: a round without anything sends nothing. *)
MutStumm ==
  /\ HidFrei /\ frame_to_hcand = << >> /\ frame_to_hi = << >>
  /\ zuHost = << >> /\ socket[hid] = << >>
  /\ UNCHANGED <<linie, hidVars, hiVars, hcandVars>>

(* A second without anything: only then hcand hears of hcanhid. *)
select_timeout ==
  /\ HidFrei /\ frame_to_hcand = << >> /\ frame_to_hi = << >>
  /\ zuHost = << >> /\ socket[hid] = << >>
  /\ eingang' = AnHcand(hid, keepalive)
  /\ UNCHANGED <<linie, hidVars, hiVars, peer_addr, peer_timeout, hcand, socket>>

HidSchritt ==
  \/ schreibe_hcand
  \/ send_frame_to_HI
  \/ sendchar
  \/ lies_hcand
  \/ lies_zeichen
  \/ lies_flagge
  \/ leeren
  \/ reset_HI_ende
  \/ select_timeout

-----------------------------------------------------------------------------
(* The host interface.  usb_putc waits as long as the line is full.        *)
usb_putc ==
  /\ hiRest # << >> /\ Len(zuHost) < KapHost
  /\ LET n == Passen(hiRest, zuHost, KapHost)
     IN  /\ zuHost' = zuHost \o SubSeq(hiRest, 1, n)
         /\ hiRest' = SubSeq(hiRest, n + 1, Len(hiRest))
  /\ UNCHANGED <<zuHi, hidVars, hiErst, obuffer, can, hiTx, bus, hcandVars>>

(* The slots of the queue are emptied in any order (Canix). *)
handle_frame_input ==
  /\ hiRest = << >>
  /\ \E i \in DOMAIN can :
       /\ hiRest' = Zeichen(can[i])
       /\ can' = RemoveAt(can, i)
  /\ UNCHANGED <<linie, hidVars, hiErst, obuffer, hiTx, bus, hcandVars>>

(* The watchdog, or R: main starts anew, canix_init empties the queue and  *)
(* resets the controller, and main reports the reason.                     *)
Neustart ==
  /\ hiErst' = "" /\ obuffer' = << >>
  /\ can' = << >> /\ hiTx' = TxFrei
  /\ hiRest' = <<"Y", "8">>

(* Into the first free transmit buffer; without one the frame is dropped,  *)
(* and nobody looks at the result.                                         *)
can_send_message(f) ==
  hiTx' = IF \E i \in 0..2 : hiTx[i] = << >>
            THEN [hiTx EXCEPT ![CHOOSE i \in 0..2 : /\ hiTx[i] = << >>
                                                    /\ \A j \in 0..(i - 1) : hiTx[j] # << >>]
                                = <<f>>]
            ELSE hiTx

(* Of the commands hcanhid sends C, F and R. *)
hi_serial_command(c, e, b) ==
  CASE c = "C" -> /\ hiErst' = "" /\ obuffer' = << >>
                  /\ UNCHANGED <<hiRest, can, hiTx>>
    [] c = "F" /\ GroesseStimmt(b) ->
         /\ can_send_message(AlsFrame(b))
         /\ hiErst' = e /\ obuffer' = b
         /\ UNCHANGED <<hiRest, can>>
    [] OTHER -> Neustart

handle_serial_input ==
  /\ hiRest = << >> /\ zuHi # << >>
  /\ LET t == BisBefehl(zuHi)
         w == Werte(hiErst, obuffer, t[1])
     IN  IF t[2] = << >>
           THEN /\ hiErst' = w[1] /\ obuffer' = w[2]
                /\ zuHi' = << >>
                /\ UNCHANGED <<hiRest, can, hiTx>>
           ELSE /\ hi_serial_command(Head(t[2]), w[1], w[2])
                /\ zuHi' = Tail(t[2])
  /\ UNCHANGED <<zuHost, hidVars, bus, hcandVars>>

HiSchritt ==
  \/ usb_putc
  \/ handle_frame_input
  \/ handle_serial_input

-----------------------------------------------------------------------------
(* The controller sends the frame of one of its buffers, of any of them.   *)
CanSendet(i) ==
  /\ hiTx[i] # << >>
  /\ LET f == hiTx[i][1]
         war == IF f \in DOMAIN bus THEN 1 ELSE 0
     IN  bus' = [g \in DOMAIN bus \cup {f} |-> IF g = f THEN 1 + war ELSE bus[g]]
  /\ hiTx' = [hiTx EXCEPT ![i] = << >>]
  /\ UNCHANGED <<linie, hidVars, hiErst, obuffer, hiRest, can, hcandVars>>

(* A board sends on the bus; a full queue loses the frame.                 *)
VomBus(cf) ==
  /\ can' = IF Len(can) < MaxCan THEN Append(can, cf) ELSE can
  /\ UNCHANGED <<linie, hidVars, hiErst, obuffer, hiRest, hiTx, bus, hcandVars>>

(* A character is lost before it is on the line. *)
ZeichenVerlorenHin ==
  /\ \E i \in DOMAIN hidRest : hidRest' = RemoveAt(hidRest, i)
  /\ UNCHANGED <<hidPc, hidErst, ibuffer, frame_to_hi, frame_to_hcand, linie,
                 hiVars, hcandVars>>

ZeichenVerlorenHer ==
  /\ \E i \in DOMAIN hiRest : hiRest' = RemoveAt(hiRest, i)
  /\ UNCHANGED <<hiErst, obuffer, can, hiTx, bus, linie, hidVars, hcandVars>>
=============================================================================
