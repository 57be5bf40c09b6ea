------------------------------- MODULE Canix -------------------------------
(***************************************************************************)
(* The message loop of canix (canix/canix.c): the timer interrupt polls    *)
(* the CAN controller and puts received frames into a queue of slots; the  *)
(* main loop takes them out again and calls the frame and idle callbacks.  *)
(* A callback may call canix_sleep_100th, which runs the message loop      *)
(* inside the callback until its time is over.                             *)
(*                                                                         *)
(* The interrupt may come between any two steps of the main loop.  What    *)
(* the main loop does between cli() and sei() is one step, and so is the   *)
(* interrupt itself.                                                       *)
(***************************************************************************)
EXTENDS Integers, Sequences, FiniteSets

CONSTANTS Frames,             \* the frames that are sent over the bus, again and again
          Leer,               \* no frame
          CANIX_QUEUE_SIZE,
          MAX_IDLE_CALLBACKS,
          IdleCallbacks,      \* the slots of idle_callback that are in use
          Teiler,             \* 36: interrupts per tick of 10 ms
          Dauern              \* ticks callbacks sleep for

ASSUME CanixAssumption ==
  /\ IsFiniteSet(Frames) /\ Leer \notin Frames
  /\ CANIX_QUEUE_SIZE \in Nat \ {0}
  /\ MAX_IDLE_CALLBACKS \in Nat \ {0}
  /\ IdleCallbacks \subseteq 0..(MAX_IDLE_CALLBACKS - 1)
  /\ Teiler \in Nat \ {0}
  /\ Dauern \subseteq Nat \ {0}

VARIABLES draussen,   \* frames to be sent next
          rx0,        \* RXB0 of the MCP2515, its only receive buffer in use
          ueberlaufen, \* frames that came while rx0 was full
          rx_queue,   \* slot |-> frame, or Leer where used = 0
          verloren,   \* frames counted by canix_rx_lost
          zugestellt, \* frames handed to their callbacks
          rtc_clock_counter,
          sleep_ticker,
          running,    \* the static variable of canix_sleep_100th
          stapel,     \* calls of canix_process_messages, the innermost last
          geschlafen  \* observer: ticks since sleeping began, and its length

vars == <<draussen, rx0, ueberlaufen, rx_queue, verloren, zugestellt,
          rtc_clock_counter, sleep_ticker, running, stapel, geschlafen>>
isrvars == <<rx0, ueberlaufen, rx_queue, verloren, rtc_clock_counter>>
hauptvars == <<rx_queue, verloren, rtc_clock_counter, sleep_ticker, running, stapel, geschlafen>>

Slots == 1..CANIX_QUEUE_SIZE

(* A call of canix_process_messages: its loop index and where it stands,   *)
(* at the head of the loop ("kopf"), about to read ("lesen"), or inside a  *)
(* callback ("frame", "idle").                                             *)
Aufruf(i, wo) == [i |-> i, wo |-> wo]
oben == stapel[Len(stapel)]
Ersetze(a) == stapel' = [stapel EXCEPT ![Len(stapel)] = a]

Init == /\ draussen = Frames
        /\ rx0 = Leer
        /\ ueberlaufen = {}
        /\ rx_queue = [s \in Slots |-> Leer]
        /\ verloren = {}
        /\ zugestellt = {}
        /\ rtc_clock_counter = 0
        /\ sleep_ticker = 0
        /\ running = FALSE
        /\ stapel = <<Aufruf(0, "kopf")>>
        /\ geschlafen = [ticks |-> 0, soll |-> 0]

-----------------------------------------------------------------------------
(* The controller receives a frame into RXB0.                              *)
Ankunft(f) == /\ f \in draussen
              /\ rx0 = Leer
              /\ rx0' = f
              /\ draussen' = draussen \ {f}
              /\ UNCHANGED <<ueberlaufen, zugestellt, hauptvars>>

(* While RXB0 is full a frame is lost: there is no rollover, RXB1 is not   *)
(* used, and nothing counts it.                                            *)
Ueberlauf(f) == /\ f \in draussen
                /\ rx0 # Leer
                /\ ueberlaufen' = ueberlaufen \cup {f}
                /\ draussen' = draussen \ {f}
                /\ UNCHANGED <<rx0, zugestellt, hauptvars>>

(* What became of a frame is over, and it is sent once more.               *)
Wieder(f) == /\ f \in ueberlaufen \cup verloren \cup zugestellt
             /\ draussen' = draussen \cup {f}
             /\ ueberlaufen' = ueberlaufen \ {f}
             /\ verloren' = verloren \ {f}
             /\ zugestellt' = zugestellt \ {f}
             /\ UNCHANGED <<rx0, rx_queue, rtc_clock_counter, sleep_ticker, running, stapel,
                            geschlafen>>

rxq_size == Cardinality({s \in Slots : rx_queue[s] # Leer})

(* The first slot with a frame, and the first without; slot 1 if there is  *)
(* none.  Mutants: the last slot with a frame, and always the first slot.  *)
Mut_rxq_fetch_one ==
  IF \E s \in Slots : rx_queue[s] # Leer
  THEN CHOOSE s \in Slots : rx_queue[s] # Leer /\ \A t \in (s + 1)..CANIX_QUEUE_SIZE : rx_queue[t] = Leer
  ELSE 1

rxq_fetch_one ==
  IF \E s \in Slots : rx_queue[s] # Leer
  THEN CHOOSE s \in Slots : rx_queue[s] # Leer /\ \A t \in 1..(s - 1) : rx_queue[t] = Leer
  ELSE 1


Mut_rxq_put_one == 1

rxq_put_one ==
  IF \E s \in Slots : rx_queue[s] = Leer
  THEN CHOOSE s \in Slots : rx_queue[s] = Leer /\ \A t \in 1..(s - 1) : rx_queue[t] # Leer
  ELSE 1

(* TIMER0_OVF_vect: the three outcomes of polling the controller, and the  *)
(* tick of every Teiler-th call.                                           *)
poll_nichts == /\ rx0 = Leer
               /\ UNCHANGED <<rx0, rx_queue, verloren>>

poll_einreihen == /\ rx0 # Leer
                  /\ rxq_size < CANIX_QUEUE_SIZE
                  /\ rx_queue' = [rx_queue EXCEPT ![rxq_put_one] = rx0]
                  /\ rx0' = Leer
                  /\ UNCHANGED verloren

poll_verlieren == /\ rx0 # Leer
                  /\ rxq_size >= CANIX_QUEUE_SIZE
                  /\ verloren' = verloren \cup {rx0}
                  /\ rx0' = Leer
                  /\ UNCHANGED rx_queue

mcp_pollen == poll_nichts \/ poll_einreihen \/ poll_verlieren

tick_faellig == rtc_clock_counter >= Teiler - 1

kein_tick == /\ ~tick_faellig
             /\ rtc_clock_counter' = rtc_clock_counter + 1
             /\ UNCHANGED <<sleep_ticker, geschlafen>>

tick == /\ tick_faellig
        /\ rtc_clock_counter' = 0
        /\ sleep_ticker' = IF sleep_ticker > 0 THEN sleep_ticker - 1 ELSE 0
        /\ geschlafen' = [ticks |-> IF geschlafen.ticks < geschlafen.soll
                                    THEN geschlafen.ticks + 1 ELSE geschlafen.ticks,
                          soll |-> geschlafen.soll]

TIMER0_OVF == /\ mcp_pollen
              /\ (kein_tick \/ tick)
              /\ UNCHANGED <<draussen, ueberlaufen, zugestellt, running, stapel>>

-----------------------------------------------------------------------------
(* canix_process_messages.                                                 *)

can_message_available == \E s \in Slots : rx_queue[s] # Leer

(* Mutant: a frame is read without looking for one first.                  *)
Mut_pruefe_voll == /\ oben.wo = "kopf"
                   /\ oben.i < MAX_IDLE_CALLBACKS
                   /\ Ersetze(Aufruf(oben.i, "lesen"))
                   /\ UNCHANGED <<isrvars, draussen, zugestellt, sleep_ticker, running, geschlafen>>

pruefe_voll == /\ oben.wo = "kopf"
               /\ oben.i < MAX_IDLE_CALLBACKS
               /\ can_message_available
               /\ Ersetze(Aufruf(oben.i, "lesen"))
               /\ UNCHANGED <<isrvars, draussen, zugestellt, sleep_ticker, running, geschlafen>>

pruefe_leer == /\ oben.wo = "kopf"
               /\ oben.i < MAX_IDLE_CALLBACKS
               /\ ~can_message_available
               /\ Ersetze(IF oben.i \in IdleCallbacks THEN Aufruf(oben.i, "idle")
                                                      ELSE Aufruf(oben.i + 1, "kopf"))
               /\ UNCHANGED <<isrvars, draussen, zugestellt, sleep_ticker, running, geschlafen>>

(* can_read_message takes the frame of the first used slot.                *)
lesen == /\ oben.wo = "lesen"
         /\ can_message_available
         /\ zugestellt' = zugestellt \cup {rx_queue[rxq_fetch_one]}
         /\ rx_queue' = [rx_queue EXCEPT ![rxq_fetch_one] = Leer]
         /\ Ersetze(Aufruf(oben.i, "frame"))
         /\ UNCHANGED <<draussen, rx0, ueberlaufen, verloren, rtc_clock_counter,
                        sleep_ticker, running, geschlafen>>

(* A callback returns.                                                     *)
zurueck == /\ oben.wo \in {"frame", "idle"}
           /\ Ersetze(Aufruf(oben.i + 1, "kopf"))
           /\ UNCHANGED <<isrvars, draussen, zugestellt, sleep_ticker, running, geschlafen>>

(* canix_mainloop calls canix_process_messages again.                      *)
mainloop == /\ oben.wo = "kopf"
            /\ oben.i = MAX_IDLE_CALLBACKS
            /\ Len(stapel) = 1
            /\ Ersetze(Aufruf(0, "kopf"))
            /\ UNCHANGED <<isrvars, draussen, zugestellt, sleep_ticker, running, geschlafen>>

(* Mutant: the guard against a second call is missing.                     *)
Mut_sleep_beginn(n) == /\ oben.wo \in {"frame", "idle"}
                       /\ running' = TRUE
                       /\ sleep_ticker' = n
                       /\ geschlafen' = [ticks |-> 0, soll |-> n]
                       /\ stapel' = Append(stapel, Aufruf(0, "kopf"))
                       /\ UNCHANGED <<isrvars, draussen, zugestellt>>

(* Mutant: the ticker is set before the guard.                             *)
Mut_sleep_sofort(n) == /\ oben.wo \in {"frame", "idle"}
                       /\ running
                       /\ sleep_ticker' = n
                       /\ UNCHANGED <<isrvars, draussen, zugestellt, running, stapel, geschlafen>>

(* canix_sleep_100th(n), called by a callback; while another call is       *)
(* running it returns at once.                                             *)
sleep_beginn(n) == /\ oben.wo \in {"frame", "idle"}
                   /\ ~running
                   /\ running' = TRUE
                   /\ sleep_ticker' = n
                   /\ geschlafen' = [ticks |-> 0, soll |-> n]
                   /\ stapel' = Append(stapel, Aufruf(0, "kopf"))
                   /\ UNCHANGED <<isrvars, draussen, zugestellt>>

sleep_sofort(n) == /\ oben.wo \in {"frame", "idle"}
                   /\ running
                   /\ UNCHANGED vars

sleep_weiter == /\ oben.wo = "kopf"
                /\ oben.i = MAX_IDLE_CALLBACKS
                /\ Len(stapel) > 1
                /\ sleep_ticker # 0
                /\ Ersetze(Aufruf(0, "kopf"))
                /\ UNCHANGED <<isrvars, draussen, zugestellt, sleep_ticker, running, geschlafen>>

sleep_ende == /\ oben.wo = "kopf"
              /\ oben.i = MAX_IDLE_CALLBACKS
              /\ Len(stapel) > 1
              /\ sleep_ticker = 0
              /\ running' = FALSE
              /\ stapel' = SubSeq(stapel, 1, Len(stapel) - 1)
              /\ UNCHANGED <<isrvars, draussen, zugestellt, sleep_ticker, geschlafen>>

Haupt == \/ pruefe_voll \/ pruefe_leer \/ lesen \/ zurueck \/ mainloop
         \/ sleep_weiter \/ sleep_ende

Next == \/ \E f \in Frames : Ankunft(f) \/ Ueberlauf(f) \/ Wieder(f)
        \/ TIMER0_OVF
        \/ Haupt
        \/ \E n \in Dauern : sleep_beginn(n) \/ sleep_sofort(n)

Spec == Init /\ [][Next]_vars

(* The interrupt keeps coming, the processor keeps running the main loop,  *)
(* and no callback sleeps for ever: every call it makes, it also leaves.   *)
FairSpec == Spec /\ WF_vars(TIMER0_OVF) /\ WF_vars(Haupt) /\ SF_vars(zurueck)

-----------------------------------------------------------------------------
(***************************************************************************)
(* Properties                                                              *)
(***************************************************************************)
Aufrufe == {a \in [i : 0..MAX_IDLE_CALLBACKS, wo : {"kopf", "lesen", "frame", "idle"}] :
              a.wo # "kopf" => a.i < MAX_IDLE_CALLBACKS}
TypeOK == /\ draussen \subseteq Frames /\ rx0 \in Frames \cup {Leer}
          /\ ueberlaufen \subseteq Frames /\ zugestellt \subseteq Frames
          /\ rx_queue \in [Slots -> Frames \cup {Leer}]
          /\ verloren \subseteq Frames
          /\ rtc_clock_counter \in 0..(Teiler - 1)
          /\ sleep_ticker \in Nat /\ running \in BOOLEAN
          /\ stapel \in Seq(Aufrufe)
          /\ geschlafen \in [ticks : Nat, soll : Nat]

(* Every frame is in exactly one place: to be sent, in the controller,     *)
(* overrun there, in one slot, counted by canix_rx_lost, or delivered.     *)
(* None is delivered twice or overwritten in the queue, and the only loss  *)
(* that is not counted is the overrun of RXB0 between two polls            *)
(* (canix.c:281).                                                          *)
Wartend == {rx_queue[s] : s \in Slots} \ {Leer}
GenauEinOrt ==
  /\ \A s, t \in Slots : rx_queue[s] = rx_queue[t] /\ rx_queue[s] # Leer => s = t
  /\ Frames = draussen \cup ({rx0} \ {Leer}) \cup ueberlaufen \cup Wartend \cup verloren
               \cup zugestellt
  /\ draussen \cap ({rx0} \cup ueberlaufen \cup Wartend \cup verloren \cup zugestellt) = {}
  /\ rx0 \notin ueberlaufen \cup Wartend \cup verloren \cup zugestellt
  /\ ueberlaufen \cap (Wartend \cup verloren \cup zugestellt) = {}
  /\ Wartend \cap (verloren \cup zugestellt) = {}
  /\ verloren \cap zugestellt = {}

(* canix.c:131 "es muss eh mit canix_rxq_size() vorher geprueft werden":   *)
(* what was checked is still true when the frame is read, although the     *)
(* interrupt and nested message loops run in between.                      *)
LiestNieLeer == oben.wo = "lesen" => can_message_available

(* canix.c:576 "NICHT reentrant; sonst gibts Stack-Ragout": at most one    *)
(* message loop runs inside a callback, and exactly while running is set.  *)
NichtReentrant == Len(stapel) <= 2 /\ (running <=> Len(stapel) = 2)

(* A call of canix_sleep_100th that sleeps at all sleeps its whole time,   *)
(* whatever the callbacks do that run meanwhile.                           *)
SchlaeftAus ==
  [][Len(stapel') < Len(stapel) => geschlafen.ticks = geschlafen.soll]_vars

(* canix.c:535 takes the first used slot.  However many frames keep        *)
(* coming, the first slot is emptied again and again; a later slot is too, *)
(* unless the slots before it are filled for ever (then its frame may wait *)
(* for ever).  Every sleep ends, whatever the load, and the idle callbacks *)
(* run again and again once no more frames come.                           *)
Gefuellt(S) == \E s \in S : rx_queue[s] = Leer /\ rx_queue'[s] # Leer
WirdZugestellt ==
  /\ \A s \in Slots : <>[][~Gefuellt(1..(s - 1))]_rx_queue => []<>(rx_queue[s] = Leer)
  /\ running ~> ~running
  /\ <>[](rx0 = Leer) => []<>(oben.wo = "idle")
=============================================================================
