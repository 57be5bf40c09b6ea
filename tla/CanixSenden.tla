---------------------------- MODULE CanixSenden -----------------------------
(***************************************************************************)
(* Sending frames with canix (canix/canix.c, canix/mcp2515.c):             *)
(* canix_frame_send gives a frame to a free transmit buffer of the         *)
(* MCP2515, if there is one, and then delivers it to the callbacks of the  *)
(* board itself.  A callback may send frames in turn.                      *)
(*                                                                         *)
(* The controller empties a pending buffer at any moment; each register    *)
(* read between cli() and sei() is one step.                               *)
(***************************************************************************)
EXTENDS Integers, Sequences, FiniteSets

CONSTANTS Frames,              \* the frames the board sends, each one once
          Leer,                \* no frame
          dst, proto, srv,     \* the fields of a frame the filters look at
          MAX_FRAME_CALLBACKS,
          cb_dst, cb_proto, cb_srv  \* the filters of each callback

TxBuffer == 0..2
Callbacks == 0..(MAX_FRAME_CALLBACKS - 1)
ANY == -1

ASSUME SendenAssumption ==
  /\ IsFiniteSet(Frames) /\ Leer \notin Frames
  /\ MAX_FRAME_CALLBACKS \in Nat \ {0}
  /\ dst \in [Frames -> Nat] /\ proto \in [Frames -> Nat] /\ srv \in [Frames -> Nat]
  /\ cb_dst \in [Callbacks -> Nat \cup {ANY}]
  /\ cb_proto \in [Callbacks -> Nat] /\ cb_srv \in [Callbacks -> Nat]

VARIABLES offen,            \* frames not sent yet
          tx,               \* transmit buffer |-> frame with TXREQ, or Leer
          uebertragen,      \* frames that went over the bus
          canix_tx_sent,
          canix_tx_dropped,
          stapel,           \* calls of canix_frame_send, the innermost last
          zugestellt,       \* local deliveries <<frame, callback>>, in order
          verworfen         \* observer: frames that got no buffer

vars == <<offen, tx, uebertragen, canix_tx_sent, canix_tx_dropped, stapel,
          zugestellt, verworfen>>

(* A call: its frame, where it stands, and its buffer or callback index.   *)
Orte == {"sendable", "waehlen", "fuellen", "zustellen", "callback"}
Aufruf(f, wo, k) == [f |-> f, wo |-> wo, k |-> k]
oben == stapel[Len(stapel)]
Bei(wo) == stapel # <<>> /\ oben.wo = wo
Weiter(wo, k) == stapel' = [stapel EXCEPT ![Len(stapel)] = Aufruf(oben.f, wo, k)]

Init == /\ offen = Frames
        /\ tx = [k \in TxBuffer |-> Leer]
        /\ uebertragen = {}
        /\ canix_tx_sent = 0 /\ canix_tx_dropped = 0
        /\ stapel = <<>>
        /\ zugestellt = <<>>
        /\ verworfen = {}

-----------------------------------------------------------------------------
(* The controller has sent a frame and clears TXREQ.                       *)
Bus(k) == /\ tx[k] # Leer
          /\ tx' = [tx EXCEPT ![k] = Leer]
          /\ uebertragen' = uebertragen \cup {tx[k]}
          /\ UNCHANGED <<offen, canix_tx_sent, canix_tx_dropped, stapel, zugestellt, verworfen>>

(* canix_frame_send, from the main loop or from a callback.                *)
canix_frame_send(f) ==
  /\ stapel = <<>> \/ Bei("callback")
  /\ stapel' = Append(stapel, Aufruf(f, "sendable", 0))
  /\ offen' = offen \ {f}
  /\ UNCHANGED <<tx, uebertragen, canix_tx_sent, canix_tx_dropped, zugestellt, verworfen>>

can_sendable(k) == tx[k] = Leer

(* can_any_sendable asks one buffer after the other.                       *)
any_frei == /\ Bei("sendable")
            /\ can_sendable(oben.k)
            /\ Weiter("waehlen", 0)
            /\ UNCHANGED <<offen, tx, uebertragen, canix_tx_sent, canix_tx_dropped,
                           zugestellt, verworfen>>

any_belegt == /\ Bei("sendable")
              /\ ~can_sendable(oben.k)
              /\ IF oben.k < 2
                 THEN Weiter("sendable", oben.k + 1) /\ UNCHANGED verworfen
                 ELSE Weiter("zustellen", 0) /\ verworfen' = verworfen \cup {oben.f}
              /\ UNCHANGED <<offen, tx, uebertragen, canix_tx_sent, canix_tx_dropped, zugestellt>>

(* Mutant: the first buffer is taken without asking.                       *)
Mut_waehlen_frei == /\ Bei("waehlen")
                    /\ Weiter("fuellen", oben.k)
                    /\ UNCHANGED <<offen, tx, uebertragen, canix_tx_sent, canix_tx_dropped,
                                   zugestellt, verworfen>>

(* can_send_message asks again, counts the frame as dropped if there is no *)
(* buffer, and otherwise fills the buffer with interrupts off.             *)
waehlen_frei == /\ Bei("waehlen")
                /\ can_sendable(oben.k)
                /\ Weiter("fuellen", oben.k)
                /\ UNCHANGED <<offen, tx, uebertragen, canix_tx_sent, canix_tx_dropped,
                               zugestellt, verworfen>>

waehlen_belegt ==
  /\ Bei("waehlen")
  /\ ~can_sendable(oben.k)
  /\ IF oben.k < 2
     THEN Weiter("waehlen", oben.k + 1) /\ UNCHANGED <<canix_tx_dropped, verworfen>>
     ELSE /\ Weiter("zustellen", 0)
          /\ canix_tx_dropped' = canix_tx_dropped + 1
          /\ verworfen' = verworfen \cup {oben.f}
  /\ UNCHANGED <<offen, tx, uebertragen, canix_tx_sent, zugestellt>>

fuellen == /\ Bei("fuellen")
           /\ tx' = [tx EXCEPT ![oben.k] = oben.f]
           /\ canix_tx_sent' = canix_tx_sent + 1
           /\ Weiter("zustellen", 0)
           /\ UNCHANGED <<offen, uebertragen, canix_tx_dropped, zugestellt, verworfen>>

(* canix_deliver_frame.                                                    *)
passt(i, f) == /\ cb_dst[i] \in {ANY, dst[f]}
               /\ cb_proto[i] \in {0, proto[f]}
               /\ cb_srv[i] \in {0, srv[f]}

zustellen == /\ Bei("zustellen")
             /\ oben.k < MAX_FRAME_CALLBACKS
             /\ IF passt(oben.k, oben.f)
                THEN /\ Weiter("callback", oben.k)
                     /\ zugestellt' = Append(zugestellt, <<oben.f, oben.k>>)
                ELSE Weiter("zustellen", oben.k + 1) /\ UNCHANGED zugestellt
             /\ UNCHANGED <<offen, tx, uebertragen, canix_tx_sent, canix_tx_dropped, verworfen>>

(* Mutant: the first callback that matches is the only one called.         *)
Mut_callback_zurueck ==
  /\ Bei("callback")
  /\ Weiter("zustellen", MAX_FRAME_CALLBACKS)
  /\ UNCHANGED <<offen, tx, uebertragen, canix_tx_sent, canix_tx_dropped, zugestellt, verworfen>>

callback_zurueck ==
  /\ Bei("callback")
  /\ Weiter("zustellen", oben.k + 1)
  /\ UNCHANGED <<offen, tx, uebertragen, canix_tx_sent, canix_tx_dropped, zugestellt, verworfen>>

(* The last callback has been asked, and the call returns.                 *)
zurueck ==
  /\ Bei("zustellen")
  /\ oben.k = MAX_FRAME_CALLBACKS
  /\ stapel' = SubSeq(stapel, 1, Len(stapel) - 1)
  /\ UNCHANGED <<offen, tx, uebertragen, canix_tx_sent, canix_tx_dropped, zugestellt, verworfen>>

Next == \/ \E k \in TxBuffer : Bus(k)
        \/ \E f \in offen : canix_frame_send(f)
        \/ any_frei \/ any_belegt \/ waehlen_frei \/ waehlen_belegt \/ fuellen
        \/ zustellen \/ callback_zurueck \/ zurueck

Spec == Init /\ [][Next]_vars

-----------------------------------------------------------------------------
(***************************************************************************)
(* Properties                                                              *)
(***************************************************************************)
TypeOK == /\ offen \subseteq Frames
          /\ tx \in [TxBuffer -> Frames \cup {Leer}]
          /\ uebertragen \subseteq Frames /\ verworfen \subseteq Frames
          /\ canix_tx_sent \in Nat /\ canix_tx_dropped \in Nat
          /\ stapel \in Seq([f : Frames, wo : Orte, k : 0..(MAX_FRAME_CALLBACKS + 2)])
          /\ \A j \in 1..Len(stapel) :
                /\ stapel[j].wo \in {"sendable", "waehlen", "fuellen"} => stapel[j].k \in TxBuffer
                /\ stapel[j].wo = "callback" => stapel[j].k \in Callbacks
          /\ zugestellt \in Seq(Frames \X Callbacks)

(* A frame given to the controller stays in its buffer until it has been   *)
(* sent, although callbacks send further frames between the check of a     *)
(* buffer and the end of the call (mcp2515.c:291-302).                     *)
NieUeberschrieben ==
  \A f \in Frames :
    LET beiController == {k \in TxBuffer : tx[k] = f}
        unterwegs == \E j \in 1..Len(stapel) :
                       stapel[j].f = f /\ stapel[j].wo \in {"sendable", "waehlen", "fuellen"}
    IN  /\ Cardinality(beiController) <= 1
        /\ f \in offen \/ unterwegs \/ f \in uebertragen \cup verworfen \/ beiController # {}

(* Every frame sent reaches each matching callback of the board exactly    *)
(* once and in the order of registration, sent over the bus or not, and    *)
(* however many frames the callbacks themselves send (canix.c:469 "und     *)
(* jetzt noch lokal zustellen").                                           *)
Fertig(f) == f \notin offen /\ \A j \in 1..Len(stapel) : stapel[j].f # f
LokalZugestellt ==
  \A f \in Frames : Fertig(f) =>
    /\ \A i \in Callbacks : passt(i, f) <=> \E n \in 1..Len(zugestellt) : zugestellt[n] = <<f, i>>
    /\ \A m, n \in 1..Len(zugestellt) :
         m < n /\ zugestellt[m][1] = f /\ zugestellt[n][1] = f
           => zugestellt[m][2] < zugestellt[n][2]

(* hcan-protocol.xml:203 says of canix_tx_dropped: the number of frames    *)
(* dropped so far.                                                         *)
VerworfeneGezaehlt == canix_tx_dropped = Cardinality(verworfen)
=============================================================================
