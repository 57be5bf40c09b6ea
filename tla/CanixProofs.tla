---------------------------- MODULE CanixProofs -----------------------------
(***************************************************************************)
(* Proofs about canix.  The message loop, for every number of slots,       *)
(* callbacks and frames: its variables keep their types, a frame that was  *)
(* seen is still there when it is read, one message loop at most runs      *)
(* inside a callback, every frame is in exactly one place, and a sleep     *)
(* lasts its whole time.  The clock, for every calendar and width of int:  *)
(* its fields keep their ranges, and a clock that is right stays right.    *)
(***************************************************************************)
EXTENDS Canix, Uhr, FiniteSetTheorems, WellFoundedInduction, TLAPS

(* The stack of message loops: one or two, the second inside a callback of *)
(* the first, exactly while running is set.                                *)
Stapel == /\ Len(stapel) \in {1, 2}
          /\ running <=> Len(stapel) = 2
          /\ Len(stapel) = 2 => stapel[1].wo \in {"frame", "idle"}

IInv == TypeOK /\ Stapel /\ LiestNieLeer

-----------------------------------------------------------------------------
(* A nonempty set of numbers has a least element.                          *)
LEMMA Kleinste ==
  ASSUME NEW T \in SUBSET Nat, T # {}
  PROVE  \E x \in T : \A y \in T : x <= y
<1>1. PICK x \in T : \A y \in T : ~(<<y, x>> \in OpToRel(<, Nat))
  BY WFMin, NatLessThanWellFounded, Zenon
<1>2. \A y \in T : ~(y < x)
  BY <1>1 DEF OpToRel
<1> QED
  BY <1>2

(* rxq_fetch_one finds a used slot when there is one.                      *)
LEMMA FetchTrifft ==
  ASSUME CANIX_QUEUE_SIZE \in Nat \ {0}, can_message_available
  PROVE  rxq_fetch_one \in Slots /\ rx_queue[rxq_fetch_one] # Leer
<1> DEFINE T == {s \in Slots : rx_queue[s] # Leer}
<1>1. T \in SUBSET Nat /\ T # {}
  BY DEF Slots, can_message_available
<1>2. PICK x \in T : \A y \in T : x <= y
  BY <1>1, Kleinste
<1>3. \A t \in 1..(x - 1) : rx_queue[t] = Leer
  BY <1>2 DEF Slots
<1>4. \E s \in Slots : rx_queue[s] # Leer /\ \A t \in 1..(s - 1) : rx_queue[t] = Leer
  BY <1>2, <1>3
<1> QED
  BY <1>4 DEF rxq_fetch_one, can_message_available

(* rxq_put_one finds a free slot when the queue is not full.               *)
LEMMA PutTrifft ==
  ASSUME CANIX_QUEUE_SIZE \in Nat \ {0}, rxq_size < CANIX_QUEUE_SIZE
  PROVE  rxq_put_one \in Slots /\ rx_queue[rxq_put_one] = Leer
<1> DEFINE T == {s \in Slots : rx_queue[s] = Leer}
<1>1. T # {}
  <2>1. SUFFICES ASSUME T = {} PROVE FALSE
    OBVIOUS
  <2>2. {s \in Slots : rx_queue[s] # Leer} = Slots
    BY <2>1
  <2>3. Cardinality(Slots) = CANIX_QUEUE_SIZE
    BY FS_Interval DEF Slots
  <2>4. rxq_size = Cardinality(Slots)
    BY <2>2 DEF rxq_size
  <2> QED
    BY <2>3, <2>4
<1>2. T \in SUBSET Nat
  BY DEF Slots
<1>3. PICK x \in T : \A y \in T : x <= y
  BY <1>1, <1>2, Kleinste
<1>4. \A t \in 1..(x - 1) : rx_queue[t] # Leer
  BY <1>3 DEF Slots
<1>5. \E s \in Slots : rx_queue[s] = Leer /\ \A t \in 1..(s - 1) : rx_queue[t] # Leer
  BY <1>3, <1>4
<1> QED
  BY <1>5 DEF rxq_put_one

-----------------------------------------------------------------------------
(* Replacing the innermost call keeps the depth of the stack and all other *)
(* calls.                                                                  *)
LEMMA ErsetzeHaelt ==
  ASSUME stapel \in Seq(Aufrufe), Len(stapel) \in {1, 2}, NEW a \in Aufrufe, Ersetze(a)
  PROVE  /\ stapel' \in Seq(Aufrufe) /\ Len(stapel') = Len(stapel)
         /\ stapel'[Len(stapel)] = a
         /\ Len(stapel) = 2 => stapel'[1] = stapel[1]
BY DEF Ersetze

LEMMA AufrufTyp ==
  ASSUME NEW i \in 0..MAX_IDLE_CALLBACKS, NEW wo \in {"kopf", "lesen", "frame", "idle"},
         wo # "kopf" => i < MAX_IDLE_CALLBACKS
  PROVE  Aufruf(i, wo) \in Aufrufe /\ Aufruf(i, wo).i = i /\ Aufruf(i, wo).wo = wo
BY DEF Aufruf, Aufrufe

LEMMA InitIInv == Init => IInv
<1> SUFFICES ASSUME Init PROVE IInv
  OBVIOUS
<1> USE CanixAssumption
<1>1. Aufruf(0, "kopf") \in Aufrufe /\ Aufruf(0, "kopf").wo = "kopf"
  BY AufrufTyp
<1>2. stapel \in Seq(Aufrufe) /\ Len(stapel) = 1 /\ stapel[1] = Aufruf(0, "kopf")
  BY <1>1 DEF Init
<1>3. TypeOK
  <2>1. rx_queue \in [Slots -> Frames \cup {Leer}] /\ zugestellt \subseteq Frames
    BY DEF Init
  <2>2. rtc_clock_counter \in 0..(Teiler - 1) /\ geschlafen \in [ticks : Nat, soll : Nat]
    BY DEF Init
  <2> QED
    BY <1>2, <2>1, <2>2 DEF Init, TypeOK
<1>4. Stapel
  BY <1>2 DEF Init, Stapel
<1>5. LiestNieLeer
  BY <1>1, <1>2 DEF LiestNieLeer, oben
<1> QED
  BY <1>3, <1>4, <1>5 DEF IInv

(* The interrupt leaves the stack alone and takes nothing out of the       *)
(* queue.                                                                  *)
LEMMA PollenHaelt ==
  ASSUME IInv, mcp_pollen
  PROVE  /\ rx0' \in Frames \cup {Leer} /\ rx_queue' \in [Slots -> Frames \cup {Leer}]
         /\ verloren' \subseteq Frames
         /\ can_message_available => can_message_available'
<1> USE CanixAssumption DEF IInv, TypeOK
<1>1. CASE poll_nichts
  BY <1>1 DEF poll_nichts, can_message_available
<1>2. CASE poll_einreihen
  BY <1>2, PutTrifft DEF poll_einreihen, can_message_available, Slots
<1>3. CASE poll_verlieren
  BY <1>3 DEF poll_verlieren, can_message_available
<1> QED
  BY <1>1, <1>2, <1>3 DEF mcp_pollen

LEMMA SchrittIInv == IInv /\ [Next]_vars => IInv'
<1> SUFFICES ASSUME IInv, [Next]_vars PROVE IInv'
  OBVIOUS
<1> USE CanixAssumption
<1>t. /\ TypeOK /\ Stapel /\ LiestNieLeer
      /\ stapel \in Seq(Aufrufe) /\ oben \in Aufrufe /\ stapel[1] \in Aufrufe
  BY DEF IInv, TypeOK, Stapel, oben
<1>a. ASSUME NEW a \in Aufrufe, Ersetze(a), a.wo = "lesen" => can_message_available',
             oben.wo # "lesen" \/ a.wo # "lesen",
             UNCHANGED <<draussen, rx0, ueberlaufen, verloren, rtc_clock_counter,
                         sleep_ticker, running, geschlafen>>,
             rx_queue' \in [Slots -> Frames \cup {Leer}], zugestellt' \subseteq Frames
      PROVE  IInv'
  <2>1. /\ stapel' \in Seq(Aufrufe) /\ Len(stapel') = Len(stapel)
        /\ stapel'[Len(stapel)] = a
        /\ Len(stapel) = 2 => stapel'[1] = stapel[1]
    BY <1>t, <1>a, ErsetzeHaelt DEF Stapel
  <2>2. TypeOK'
    BY <1>t, <1>a, <2>1 DEF TypeOK
  <2>3. Stapel'
    BY <1>t, <1>a, <2>1 DEF Stapel
  <2>4. LiestNieLeer'
    BY <1>a, <2>1 DEF LiestNieLeer, oben
  <2> QED
    BY <2>2, <2>3, <2>4 DEF IInv
<1>1. ASSUME NEW f \in Frames, Ankunft(f) \/ Ueberlauf(f) \/ Wieder(f) PROVE IInv'
  BY <1>t, <1>1
     DEF IInv, Ankunft, Ueberlauf, Wieder, hauptvars, TypeOK, Stapel, LiestNieLeer,
         can_message_available, oben
<1>2. CASE TIMER0_OVF
  <2>1. /\ rx0' \in Frames \cup {Leer} /\ rx_queue' \in [Slots -> Frames \cup {Leer}]
        /\ verloren' \subseteq Frames
        /\ can_message_available => can_message_available'
    BY <1>2, PollenHaelt DEF TIMER0_OVF
  <2>2. /\ rtc_clock_counter' \in 0..(Teiler - 1) /\ sleep_ticker' \in Nat
        /\ geschlafen' \in [ticks : Nat, soll : Nat]
    BY <1>t, <1>2 DEF TIMER0_OVF, kein_tick, tick, tick_faellig, TypeOK
  <2>3. UNCHANGED <<draussen, ueberlaufen, zugestellt, running, stapel>>
    BY <1>2 DEF TIMER0_OVF
  <2>4. TypeOK'
    BY <1>t, <2>1, <2>2, <2>3 DEF TypeOK
  <2>5. Stapel' /\ LiestNieLeer'
    BY <1>t, <2>1, <2>3 DEF Stapel, LiestNieLeer, oben
  <2> QED
    BY <2>4, <2>5 DEF IInv
<1>3. CASE pruefe_voll
  <2>1. /\ Aufruf(oben.i, "lesen") \in Aufrufe /\ Aufruf(oben.i, "lesen").wo = "lesen"
    BY <1>t, <1>3, AufrufTyp DEF Aufrufe, pruefe_voll
  <2>2. can_message_available' /\ oben.wo # "lesen"
    BY <1>3 DEF pruefe_voll, isrvars, can_message_available
  <2> QED
    BY <1>t, <1>3, <1>a, <2>1, <2>2 DEF pruefe_voll, isrvars, TypeOK
<1>4. CASE pruefe_leer
  <2>1. oben.i \in 0..MAX_IDLE_CALLBACKS /\ oben.i + 1 \in 0..MAX_IDLE_CALLBACKS
    BY <1>t, <1>4 DEF pruefe_leer, Aufrufe
  <2> DEFINE a == IF oben.i \in IdleCallbacks THEN Aufruf(oben.i, "idle")
                                               ELSE Aufruf(oben.i + 1, "kopf")
  <2>2. a \in Aufrufe /\ a.wo # "lesen"
    BY <1>4, <2>1, AufrufTyp DEF pruefe_leer
  <2> QED
    BY <1>t, <1>4, <1>a, <2>2 DEF pruefe_leer, isrvars, TypeOK
<1>5. CASE lesen
  <2>1. Aufruf(oben.i, "frame") \in Aufrufe /\ Aufruf(oben.i, "frame").wo = "frame"
    BY <1>t, <1>5, AufrufTyp DEF Aufrufe, lesen
  <2>2. rx_queue[rxq_fetch_one] \in Frames
    BY <1>t, <1>5, FetchTrifft DEF lesen, TypeOK
  <2>3. rx_queue' \in [Slots -> Frames \cup {Leer}]
    BY <1>t, <1>5 DEF lesen, TypeOK
  <2>5. zugestellt' \subseteq Frames
    BY <1>t, <1>5, <2>2 DEF lesen, TypeOK
  <2>4. /\ Ersetze(Aufruf(oben.i, "frame"))
        /\ UNCHANGED <<draussen, rx0, ueberlaufen, verloren, rtc_clock_counter,
                       sleep_ticker, running, geschlafen>>
    BY <1>5 DEF lesen
  <2> QED
    BY <1>a, <2>1, <2>3, <2>4, <2>5
<1>6. CASE zurueck
  <2>1. oben.i + 1 \in 0..MAX_IDLE_CALLBACKS
    BY <1>t, <1>6 DEF zurueck, Aufrufe
  <2>2. Aufruf(oben.i + 1, "kopf") \in Aufrufe /\ Aufruf(oben.i + 1, "kopf").wo = "kopf"
    BY <2>1, AufrufTyp
  <2> QED
    BY <1>t, <1>6, <1>a, <2>2 DEF zurueck, isrvars, TypeOK
<1>7. CASE mainloop \/ sleep_weiter
  <2>1. Aufruf(0, "kopf") \in Aufrufe /\ Aufruf(0, "kopf").wo = "kopf"
    BY AufrufTyp
  <2> QED
    BY <1>t, <1>7, <1>a, <2>1 DEF mainloop, sleep_weiter, isrvars, TypeOK
<1>8. ASSUME NEW n \in Dauern, sleep_beginn(n) PROVE IInv'
  <2>1. Aufruf(0, "kopf") \in Aufrufe /\ Aufruf(0, "kopf").wo = "kopf"
    BY AufrufTyp
  <2>2. /\ Len(stapel) = 1 /\ stapel' \in Seq(Aufrufe) /\ Len(stapel') = 2
        /\ stapel'[1] = stapel[1] /\ stapel'[2] = Aufruf(0, "kopf")
    BY <1>t, <1>8, <2>1 DEF sleep_beginn, Stapel
  <2>3. TypeOK'
    BY <1>t, <1>8, <2>2 DEF sleep_beginn, TypeOK, isrvars
  <2>4. Stapel'
    BY <1>t, <1>8, <2>2 DEF sleep_beginn, Stapel, oben
  <2>5. LiestNieLeer'
    BY <2>1, <2>2 DEF LiestNieLeer, oben
  <2> QED
    BY <2>3, <2>4, <2>5 DEF IInv
<1>9. CASE sleep_ende
  <2>1. /\ Len(stapel) = 2 /\ stapel' \in Seq(Aufrufe) /\ Len(stapel') = 1
        /\ stapel'[1] = stapel[1]
    BY <1>t, <1>9 DEF sleep_ende, Stapel
  <2>2. TypeOK'
    BY <1>t, <1>9, <2>1 DEF sleep_ende, TypeOK, isrvars
  <2>3. Stapel'
    BY <1>9, <2>1 DEF sleep_ende, Stapel
  <2>4. LiestNieLeer'
    BY <1>t, <2>1 DEF LiestNieLeer, oben, Stapel
  <2> QED
    BY <2>2, <2>3, <2>4 DEF IInv
<1>10. CASE UNCHANGED vars
  BY <1>t, <1>10 DEF vars, IInv, TypeOK, Stapel, LiestNieLeer, can_message_available, oben
<1>11. ASSUME NEW n \in Dauern, sleep_sofort(n) PROVE IInv'
  BY <1>10, <1>11 DEF sleep_sofort
<1> QED
  BY <1>1, <1>2, <1>3, <1>4, <1>5, <1>6, <1>7, <1>8, <1>9, <1>10, <1>11 DEF Next, Haupt

LEMMA ImmerIInv == Spec => []IInv
BY InitIInv, SchrittIInv, PTL DEF Spec

(* Every variable keeps its type: the loop indices, the interrupt divider  *)
(* and what is handed to the callbacks, which is always a frame.           *)
THEOREM TypKorrekt == Spec => []TypeOK
<1>1. IInv => TypeOK
  BY DEF IInv
<1> QED
  BY <1>1, ImmerIInv, PTL

(* What can_message_available saw is still there when can_read_message     *)
(* looks for it (canix.c:131).                                             *)
THEOREM LiestNieAusLeererQueue == Spec => []LiestNieLeer
<1>1. IInv => LiestNieLeer
  BY DEF IInv
<1> QED
  BY <1>1, ImmerIInv, PTL

(* canix_sleep_100th is never running twice (canix.c:576).                 *)
THEOREM SchlaeftNieDoppelt == Spec => []NichtReentrant
<1>1. IInv => NichtReentrant
  BY DEF IInv, Stapel, NichtReentrant
<1> QED
  BY <1>1, ImmerIInv, PTL

-----------------------------------------------------------------------------
(* A step that leaves frames where they are.                               *)
LEMMA OrtBleibt ==
  ASSUME GenauEinOrt,
         UNCHANGED <<draussen, rx0, ueberlaufen, rx_queue, verloren, zugestellt>>
  PROVE  GenauEinOrt'
BY DEF GenauEinOrt, Wartend

(* The controller receives a frame, overruns, or a frame is sent again.    *)
LEMMA OrtBus ==
  ASSUME IInv, GenauEinOrt, NEW f \in Frames, Ankunft(f) \/ Ueberlauf(f) \/ Wieder(f)
  PROVE  GenauEinOrt'
<1>1. Wartend' = Wartend /\ rx_queue' = rx_queue
  BY DEF Ankunft, Ueberlauf, Wieder, hauptvars, Wartend
<1>2. f # Leer /\ Leer \notin draussen
  BY CanixAssumption DEF IInv, TypeOK
<1>3. CASE Ankunft(f)
  BY <1>1, <1>2, <1>3 DEF Ankunft, hauptvars, GenauEinOrt
<1>4. CASE Ueberlauf(f)
  BY <1>1, <1>2, <1>4 DEF Ueberlauf, hauptvars, GenauEinOrt
<1>5. CASE Wieder(f)
  BY <1>1, <1>2, <1>5 DEF Wieder, GenauEinOrt
<1> QED
  BY <1>3, <1>4, <1>5

(* The interrupt puts a frame into a slot that was free.                   *)
LEMMA OrtEinreihen ==
  ASSUME IInv, GenauEinOrt, poll_einreihen, UNCHANGED <<draussen, ueberlaufen, zugestellt>>
  PROVE  GenauEinOrt'
<1> USE CanixAssumption
<1> DEFINE p == rxq_put_one
<1>1. p \in Slots /\ rx_queue[p] = Leer
  BY PutTrifft DEF poll_einreihen
<1>2. /\ rx_queue \in [Slots -> Frames \cup {Leer}] /\ rx0 # Leer /\ rx0 \in Frames
      /\ rx_queue' = [rx_queue EXCEPT ![p] = rx0] /\ rx0' = Leer
      /\ verloren' = verloren
  BY DEF poll_einreihen, IInv, TypeOK
<1> HIDE DEF p
<1>4. rx_queue'[p] = rx0 /\ \A s \in Slots : s # p => rx_queue'[s] = rx_queue[s]
  BY <1>1, <1>2
<1>5. Wartend' = Wartend \cup {rx0}
  BY <1>1, <1>2, <1>4 DEF Wartend
<1>6. \A s, t \in Slots : rx_queue'[s] = rx_queue'[t] /\ rx_queue'[s] # Leer => s = t
  <2>1. \A s \in Slots : rx_queue[s] # rx0
    BY <1>2 DEF GenauEinOrt, Wartend
  <2>2. \A s, t \in Slots : rx_queue[s] = rx_queue[t] /\ rx_queue[s] # Leer => s = t
    BY DEF GenauEinOrt
  <2> QED
    BY <1>1, <1>4, <2>1, <2>2
<1>7. Leer \notin draussen \cup ueberlaufen \cup Wartend \cup verloren \cup zugestellt
  BY DEF IInv, TypeOK, Wartend
<1> QED
  BY <1>2, <1>5, <1>6, <1>7 DEF GenauEinOrt

(* The interrupt counts a frame as lost.                                   *)
LEMMA OrtVerlieren ==
  ASSUME IInv, GenauEinOrt, poll_verlieren, UNCHANGED <<draussen, ueberlaufen, zugestellt>>
  PROVE  GenauEinOrt'
<1> USE CanixAssumption
<1>1. Wartend' = Wartend /\ rx_queue' = rx_queue
  BY DEF poll_verlieren, Wartend
<1>2. rx0 # Leer /\ rx0' = Leer /\ verloren' = verloren \cup {rx0}
  BY DEF poll_verlieren
<1>3. Leer \notin draussen \cup ueberlaufen \cup Wartend \cup verloren \cup zugestellt
  BY DEF IInv, TypeOK, Wartend
<1> QED
  BY <1>1, <1>2, <1>3 DEF GenauEinOrt

(* The main loop takes a frame out of its only slot and delivers it.       *)
LEMMA OrtLesen ==
  ASSUME IInv, GenauEinOrt, lesen
  PROVE  GenauEinOrt'
<1> USE CanixAssumption
<1> DEFINE q == rxq_fetch_one
           x == rx_queue[q]
<1>1. q \in Slots /\ x # Leer
  BY FetchTrifft DEF lesen
<1>2. /\ rx_queue \in [Slots -> Frames \cup {Leer}]
      /\ rx_queue' = [rx_queue EXCEPT ![q] = Leer] /\ zugestellt' = zugestellt \cup {x}
      /\ rx0' = rx0 /\ verloren' = verloren /\ draussen' = draussen
      /\ ueberlaufen' = ueberlaufen
  BY DEF lesen, IInv, TypeOK
<1> HIDE DEF q
<1>3. x \in Frames /\ x \in Wartend
  BY <1>1, <1>2 DEF Wartend
<1>4. rx_queue'[q] = Leer /\ \A s \in Slots : s # q => rx_queue'[s] = rx_queue[s]
  BY <1>1, <1>2
<1>u. \A s, t \in Slots : rx_queue[s] = rx_queue[t] /\ rx_queue[s] # Leer => s = t
  BY DEF GenauEinOrt
<1>5. Wartend' = Wartend \ {x}
  BY <1>1, <1>4, <1>u DEF Wartend
<1>6. x \notin draussen \cup {rx0} \cup ueberlaufen \cup verloren \cup zugestellt
  BY <1>3 DEF GenauEinOrt
<1>7. \A s, t \in Slots : rx_queue'[s] = rx_queue'[t] /\ rx_queue'[s] # Leer => s = t
  BY <1>4, <1>u
<1> HIDE DEF x
<1> QED
  BY <1>2, <1>3, <1>5, <1>6, <1>7 DEF GenauEinOrt

LEMMA SchrittOrt == IInv /\ GenauEinOrt /\ [Next]_vars => GenauEinOrt'
<1> SUFFICES ASSUME IInv, GenauEinOrt, [Next]_vars PROVE GenauEinOrt'
  OBVIOUS
<1>1. ASSUME NEW f \in Frames, Ankunft(f) \/ Ueberlauf(f) \/ Wieder(f) PROVE GenauEinOrt'
  BY <1>1, OrtBus
<1>2. CASE TIMER0_OVF
  <2>1. UNCHANGED <<draussen, ueberlaufen, zugestellt>> /\ mcp_pollen
    BY <1>2 DEF TIMER0_OVF
  <2>2. CASE poll_nichts
    BY <2>1, <2>2, OrtBleibt DEF poll_nichts
  <2> QED
    BY <2>1, <2>2, OrtEinreihen, OrtVerlieren DEF mcp_pollen
<1>3. CASE lesen
  BY <1>3, OrtLesen
<1>4. CASE pruefe_voll \/ pruefe_leer \/ zurueck \/ mainloop \/ sleep_weiter \/ sleep_ende
  BY <1>4, OrtBleibt
     DEF pruefe_voll, pruefe_leer, zurueck, mainloop, sleep_weiter, sleep_ende, isrvars
<1>5. ASSUME NEW n \in Dauern, sleep_beginn(n) \/ sleep_sofort(n) PROVE GenauEinOrt'
  BY <1>5, OrtBleibt DEF sleep_beginn, sleep_sofort, isrvars, vars
<1>6. CASE UNCHANGED vars
  BY <1>6, OrtBleibt DEF vars
<1> QED
  BY <1>1, <1>2, <1>3, <1>4, <1>5, <1>6 DEF Next, Haupt

LEMMA InitOrt == Init => GenauEinOrt
<1> SUFFICES ASSUME Init PROVE GenauEinOrt
  OBVIOUS
<1>1. Wartend = {}
  BY DEF Init, Wartend
<1> QED
  BY <1>1, CanixAssumption DEF Init, GenauEinOrt

(* No frame is delivered twice or kept in two slots, and none is lost      *)
(* without being counted but by an overrun of the controller's one receive *)
(* buffer (canix.c:281), wherever the interrupt falls and however often    *)
(* frames come.                                                            *)
THEOREM KeinFrameDoppelt == Spec => []GenauEinOrt
BY InitOrt, SchrittOrt, ImmerIInv, PTL DEF Spec

-----------------------------------------------------------------------------
(* The ticks slept and those left on the ticker make up the sleep, also    *)
(* when it is over and before there was one.                               *)
Schlaf == geschlafen.ticks + sleep_ticker = geschlafen.soll

LEMMA SchlafBleibt == TypeOK /\ Schlaf /\ [Next]_vars => Schlaf'
<1> SUFFICES ASSUME TypeOK, Schlaf, [Next]_vars PROVE Schlaf'
  OBVIOUS
<1>1. CASE UNCHANGED <<sleep_ticker, geschlafen>>
  BY <1>1 DEF Schlaf
<1>2. CASE TIMER0_OVF
  <2>1. CASE kein_tick
    BY <1>1, <2>1 DEF kein_tick
  <2>2. CASE tick
    <3>1. /\ geschlafen.ticks \in Nat /\ geschlafen.soll \in Nat /\ sleep_ticker \in Nat
          /\ geschlafen'.soll = geschlafen.soll
          /\ geschlafen'.ticks = IF geschlafen.ticks < geschlafen.soll
                                 THEN geschlafen.ticks + 1 ELSE geschlafen.ticks
      BY <2>2 DEF tick, TypeOK
    <3> QED
      BY <2>2, <3>1 DEF tick, Schlaf
  <2> QED
    BY <1>2, <2>1, <2>2 DEF TIMER0_OVF
<1>3. ASSUME NEW n \in Dauern, sleep_beginn(n) PROVE Schlaf'
  BY <1>3, CanixAssumption DEF sleep_beginn, Schlaf
<1> QED
  BY <1>1, <1>2, <1>3
  DEF Next, Haupt, vars, Ankunft, Ueberlauf, Wieder, hauptvars, pruefe_voll, pruefe_leer, lesen, zurueck,
     mainloop, sleep_weiter, sleep_ende, sleep_sofort

(* The stack of message loops shrinks only at the end of a sleep.          *)
LEMMA NurSleepEnde == IInv /\ Next /\ Len(stapel') < Len(stapel) => sleep_ende
<1> SUFFICES ASSUME IInv, Next, Len(stapel') < Len(stapel), ~sleep_ende PROVE FALSE
  OBVIOUS
<1>1. stapel \in Seq(Aufrufe) /\ Len(stapel) \in Nat
  BY DEF IInv, TypeOK
<1>2. ASSUME NEW a, Ersetze(a) PROVE FALSE
  <2>1. Len(stapel') = Len(stapel)
    BY <1>1, <1>2 DEF Ersetze
  <2> QED
    BY <1>1, <2>1
<1>3. CASE pruefe_voll \/ pruefe_leer \/ lesen \/ zurueck \/ mainloop \/ sleep_weiter
  BY <1>2, <1>3 DEF pruefe_voll, pruefe_leer, lesen, zurueck, mainloop, sleep_weiter
<1>4. CASE UNCHANGED stapel
  BY <1>1, <1>4
<1>5. ASSUME NEW n \in Dauern, sleep_beginn(n) PROVE FALSE
  <2>1. Len(stapel') = Len(stapel) + 1
    BY <1>1, <1>5 DEF sleep_beginn
  <2> QED
    BY <1>1, <2>1
<1> QED
  BY <1>3, <1>4, <1>5
  DEF Next, Haupt, Ankunft, Ueberlauf, Wieder, hauptvars, TIMER0_OVF, sleep_sofort, vars

(* canix_sleep_100th returns no earlier than after its whole time          *)
(* (canix.c:572-595): neither a callback that runs inside it and asks for  *)
(* a sleep of its own nor the interrupt ends it too soon.                  *)
THEOREM SchlaeftGanzeZeit == Spec => SchlaeftAus
<1> DEFINE A == Len(stapel') < Len(stapel) => geschlafen.ticks = geschlafen.soll
<1>1. Init => Schlaf
  BY DEF Init, Schlaf
<1>2. IInv /\ Schlaf /\ [Next]_vars => Schlaf'
  BY SchlafBleibt DEF IInv
<1>3. IInv /\ Schlaf /\ [Next]_vars => [A]_vars
  <2> SUFFICES ASSUME IInv, Schlaf, Next, Len(stapel') < Len(stapel)
               PROVE  geschlafen.ticks = geschlafen.soll
    OBVIOUS
  <2>1. sleep_ticker = 0
    BY NurSleepEnde DEF sleep_ende
  <2>2. geschlafen.ticks \in Nat
    BY DEF IInv, TypeOK
  <2> QED
    BY <2>1, <2>2 DEF Schlaf
<1>4. Spec => [][A]_vars
  BY <1>1, <1>2, <1>3, ImmerIInv, PTL DEF Spec
<1> QED
  BY <1>4 DEF SchlaeftAus

-----------------------------------------------------------------------------
(***************************************************************************)
(* The clock                                                               *)
(***************************************************************************)
Lesen == {"lies_second", "lies_minute", "lies_hour"}
Setzen == {"setze_second", "setze_minute", "setze_hour", "setze_day_of_week"}
DatumSetzen == {"setze_month", "setze_year"}
MaxTag == Max({Tage[m] : m \in 1..Monate})
Zeiten == [art : {"TIME_INFO"}, zeit : 0..(Tag - 1), wtag : 1..WOCHE]
Datumsframes == [art : {"DATE_INFO"}, tag : 1..MaxTag, monat : 1..Monate, jahr : 0..ByteMax]

UhrTypen ==
  /\ UhrTypeOK
  /\ phase \in {"ruhe"} \cup Lesen \cup Setzen \cup DatumSetzen
  /\ frame \in {KeinFrame} \cup Zeiten \cup Datumsframes
  /\ phase \in Lesen \cup Setzen => frame \in Zeiten
  /\ phase \in DatumSetzen => frame \in Datumsframes
  /\ getickt \in BOOLEAN /\ war \in BOOLEAN

(* A frame that waits for its handler is a second old at most.             *)
Flug == phase = "ruhe" /\ frame \in Zeiten =>
          \/ echt.zeit = frame.zeit /\ ~getickt
          \/ getickt /\ frame.zeit < Tag - 1 /\ echt.zeit = frame.zeit + 1
          \/ getickt /\ frame.zeit = Tag - 1 /\ echt.zeit = 0

(* One in its handler gets another second older when a tick falls into it. *)
Alt == phase \in Lesen \cup Setzen /\ war =>
          /\ frame.zeit \in Toleranz..(Tag - Toleranz - 1)
          /\ ~getickt => echt.zeit - frame.zeit \in 0..1
          /\ getickt => echt.zeit - frame.zeit \in 1..2

(* A reading no tick fell into is the time of the clock.                   *)
Gelesen == phase \in Lesen /\ war /\ ~getickt =>
          /\ Uhrzeit - echt.zeit \in -(Toleranz - 1)..(Toleranz - 1)
          /\ phase = "lies_minute" => our_time = second
          /\ phase = "lies_hour" => our_time = second + SEK * minute

(* A clock that was right is written only after the tick has fallen.       *)
Gesetzt == phase \in Setzen /\ war =>
          /\ getickt
          /\ phase # "setze_second" => second = frame.zeit % SEK
          /\ phase \in {"setze_hour", "setze_day_of_week"} => minute = (frame.zeit \div SEK) % MIN
          /\ phase = "setze_day_of_week" => hour = frame.zeit \div (SEK * MIN)

(* The inductive invariant: outside the writing the clock that was right   *)
(* is right.                                                               *)
Gleichlauf == /\ UhrTypen /\ Flug /\ Alt /\ Gelesen /\ Gesetzt
              /\ war /\ phase \notin Setzen => Richtig

-----------------------------------------------------------------------------
(* Division with remainder, and its repetition.                            *)
LEMMA ModBereich == ASSUME NEW T \in Nat \ {0}, NEW x \in Int PROVE x % T \in 0..(T-1)
  OBVIOUS
LEMMA DivInt == ASSUME NEW T \in Nat \ {0}, NEW x \in Nat PROVE x \div T \in Nat
<1>1. x \div T \in Int /\ x % T \in 0..(T - 1)
  OBVIOUS
<1>2. x = T * (x \div T) + (x % T)
  OBVIOUS
<1>3. x \div T < 0 => T * (x \div T) <= -T
  <2> SUFFICES ASSUME x \div T < 0 PROVE T * (x \div T) <= -T
    OBVIOUS
  <2> DEFINE q == x \div T
  <2>1. q \in Int /\ q <= -1
    BY <1>1
  <2> HIDE DEF q
  <2>2. T * q <= T * (-1)
    BY <2>1
  <2>3. T * q <= -T
    BY <2>2, <2>1
  <2> QED BY <2>3 DEF q
<1> QED BY <1>1, <1>2, <1>3
LEMMA DivMod == ASSUME NEW T \in Nat \ {0}, NEW x \in Int PROVE x = T * (x \div T) + (x % T)
  OBVIOUS
LEMMA DivEindeutig == ASSUME NEW T \in Nat \ {0}, NEW q \in Nat, NEW r \in 0..(T-1)
                      PROVE  (T*q+r) \div T = q /\ (T*q+r) % T = r
  OBVIOUS
LEMMA DivDiv == ASSUME NEW T \in Nat \ {0}, NEW S \in Nat \ {0}, NEW x \in Nat
  PROVE x \div (T*S) = (x \div T) \div S
<1>1. PICK q \in Nat : q = x \div T
 BY DivInt
<1>2. PICK r \in 0..(T-1) : r = x % T
 BY ModBereich
<1>3. PICK p \in Nat : p = q \div S
 BY DivInt
<1>4. PICK s \in 0..(S-1) : s = q % S
 BY ModBereich
<1>5. x = T*q + r
 BY <1>1, <1>2, DivMod
<1>6. q = S*p + s
 BY <1>3, <1>4, DivMod
<1>7. T*q = (T*S)*p + T*s
 BY <1>6
<1>8. s \in Nat /\ s <= S - 1 /\ r \in Nat /\ r <= T - 1
 OBVIOUS
<1>9. T*s \in Nat /\ T*s <= T*(S-1)
 BY <1>8
<1>10. T*(S-1) = T*S - T /\ T*S \in Nat \ {0}
 OBVIOUS
<1>11. PICK z \in Nat : z = T*s
 BY <1>9
<1>12. z + r \in 0..(T*S-1)
 BY <1>9, <1>8, <1>10, <1>11
<1>13. x = (T*S)*p + (z + r)
 BY <1>5, <1>7, <1>11
<1>14. ((T*S)*p + (z + r)) \div (T*S) = p
 BY <1>12, <1>10, DivEindeutig
<1> QED BY <1>14, <1>13, <1>3, <1>1

(* The day is a product of positive lengths.                               *)
LEMMA TagPositiv == /\ Tag \in Nat \ {0} /\ SEK * MIN \in Nat \ {0}
                    /\ SEK \in Nat \ {0} /\ MIN \in Nat \ {0} /\ STD \in Nat \ {0}
<1>1. SEK \in Nat \ {0} /\ MIN \in Nat \ {0} /\ STD \in Nat \ {0}
  BY UhrAssumption
<1>2. PICK h \in Nat \ {0} : h = SEK * MIN
  BY <1>1
<1>3. h * STD \in Nat \ {0}
  BY <1>1, <1>2
<1> QED BY <1>1, <1>2, <1>3 DEF Tag

(* The way round the clock from one time of day to another: two times are  *)
(* close when their difference is small or almost a day, and stay close    *)
(* when both count on.                                                     *)
LEMMA MinZwei == ASSUME NEW a \in Int, NEW b \in Int
                 PROVE  Min({a, b}) = IF a <= b THEN a ELSE b
  BY DEF Min

LEMMA Nahe ==
  ASSUME NEW a \in 0..(Tag - 1), NEW b \in 0..(Tag - 1)
  PROVE  Abweichung(a, b) < Toleranz
           <=> \/ a - b \in -(Toleranz - 1)..(Toleranz - 1)
               \/ a - b > Tag - Toleranz \/ b - a > Tag - Toleranz
<1>1. PICK T \in Nat \ {0} : T = Tag
  BY TagPositiv
<1>2. a - b \in Int /\ b - a \in Int /\ a - b < T /\ b - a < T
  BY <1>1
<1>3. CASE a = b
  <2>1. (a - b) % T = 0 /\ (b - a) % T = 0
    BY <1>3
  <2>2. Abweichung(a, b) = 0
    BY <2>1, <1>1, MinZwei DEF Abweichung
  <2> QED BY <2>2, <1>3, <1>2 DEF Toleranz
<1>4. CASE a > b
  <2>1. (a - b) % T = a - b
    BY <1>4, <1>2
  <2>2. (b - a) % T = (b - a) + T
    BY <1>4, <1>2
  <2>3. Abweichung(a, b) = IF a - b <= (b - a) + T THEN a - b ELSE (b - a) + T
    BY <2>1, <2>2, <1>1, <1>2, MinZwei DEF Abweichung
  <2> QED BY <2>3, <1>4, <1>2, <1>1 DEF Toleranz
<1>5. CASE a < b
  <2>1. (b - a) % T = b - a
    BY <1>5, <1>2
  <2>2. (a - b) % T = (a - b) + T
    BY <1>5, <1>2
  <2>3. Abweichung(a, b) = IF (a - b) + T <= b - a THEN (a - b) + T ELSE b - a
    BY <2>1, <2>2, <1>1, <1>2, MinZwei DEF Abweichung
  <2> QED BY <2>3, <1>5, <1>2, <1>1 DEF Toleranz
<1> QED BY <1>3, <1>4, <1>5

LEMMA NaheBleibt ==
  ASSUME NEW a \in 0..(Tag - 1), NEW b \in 0..(Tag - 1), NEW c, NEW d,
         c = (IF a + 1 = Tag THEN 0 ELSE a + 1), d = (IF b + 1 = Tag THEN 0 ELSE b + 1),
         Abweichung(a, b) < Toleranz
  PROVE  c \in 0..(Tag - 1) /\ d \in 0..(Tag - 1) /\ Abweichung(c, d) < Toleranz
<1>1. PICK T \in Nat \ {0} : T = Tag
  BY TagPositiv
<1>2. c \in 0..(Tag - 1) /\ d \in 0..(Tag - 1)
  BY <1>1
<1>3. \/ a - b \in -(Toleranz - 1)..(Toleranz - 1)
      \/ a - b > Tag - Toleranz \/ b - a > Tag - Toleranz
  BY Nahe
<1>4. \/ c - d \in -(Toleranz - 1)..(Toleranz - 1)
      \/ c - d > Tag - Toleranz \/ d - c > Tag - Toleranz
  BY <1>1, <1>3 DEF Toleranz
<1> QED BY <1>2, <1>4, Nahe

(* A difference within the tolerance survives the reduction to int.        *)
LEMMA KeineAbweichung == ASSUME NEW x \in -Toleranz..Toleranz PROVE ~weicht_ab(x)
<1>1. PICK W \in Nat : W = Wrap /\ W > 6
  BY UhrAssumption DEF Toleranz
<1>2. PICK h \in Nat : h = W \div 2 /\ h >= 3 /\ h + 3 < W
  BY <1>1
<1>3. x \in Int /\ x >= -3 /\ x <= 3
  BY DEF Toleranz
<1>4. (x + h) % W = x + h
  BY <1>2, <1>1, <1>3
<1>5. als_int(x) = x
  BY <1>4, <1>2, <1>1, <1>3 DEF als_int
<1> QED BY <1>5, <1>3, <1>2, <1>1 DEF weicht_ab, abs, Toleranz

(* The longest month has its days.                                         *)
LEMMA LaengsterMonat == MaxTag \in Nat \ {0} /\ \A m \in 1..Monate : Tage[m] <= MaxTag
<1> DEFINE Gross(n) == \E k \in 1..n : \A j \in 1..n : Tage[j] <= Tage[k]
           U == {n \in 1..Monate : ~Gross(n)}
<1>0. Monate \in Nat \ {0} /\ \A m \in 1..Monate : Tage[m] \in Nat \ {0}
  BY UhrAssumption
<1>1. U = {}
  <2>1. SUFFICES ASSUME U # {} PROVE FALSE
    OBVIOUS
  <2>2. PICK n \in U : \A y \in U : n <= y
    <3>1. U \in SUBSET Nat
      BY <1>0
    <3> HIDE DEF U
    <3> QED BY <2>1, <3>1, Kleinste
  <2>3. n # 1
    <3>1. Gross(1)
      BY <1>0
    <3> QED BY <3>1
  <2>a. n \in 1..Monate /\ n - 1 \notin U
    <3>1. n \in 1..Monate /\ ~(n <= n - 1)
      BY <2>2, <1>0
    <3> HIDE DEF U
    <3> QED BY <2>2, <3>1
  <2>4. n - 1 \in 1..Monate /\ Gross(n - 1)
    BY <2>a, <2>3, <1>0
  <2>5. PICK k \in 1..(n - 1) : \A j \in 1..(n - 1) : Tage[j] <= Tage[k]
    BY <2>4
  <2>6. \A j \in 1..n : j \in 1..(n - 1) \/ j = n
    BY <2>2, <1>0
  <2>7. k \in 1..n /\ n \in 1..n /\ Tage[k] \in Nat /\ Tage[n] \in Nat
    BY <2>2, <2>5, <1>0
  <2>8. CASE Tage[n] <= Tage[k]
    BY <2>2, <2>5, <2>6, <2>7, <2>8
  <2>9. CASE Tage[n] > Tage[k]
    <3>1. \A j \in 1..(n - 1) : Tage[j] \in Nat
      BY <1>0, <2>4
    <3>2. \A j \in 1..n : Tage[j] <= Tage[n]
      BY <2>5, <2>6, <2>7, <2>9, <3>1
    <3> QED BY <2>2, <2>7, <3>2
  <2> QED BY <2>7, <2>8, <2>9
<1>2. Gross(Monate)
  <2>1. Monate \in 1..Monate /\ Monate \notin U
    BY <1>0, <1>1
  <2> QED BY <2>1
<1>3. PICK k \in 1..Monate : \A j \in 1..Monate : Tage[j] <= Tage[k]
  BY <1>2
<1> DEFINE T == {Tage[m] : m \in 1..Monate}
<1>4. \E x \in T : \A y \in T : x >= y
  BY <1>3, <1>0
<1>5. Max(T) \in T /\ \A y \in T : Max(T) >= y
  BY <1>4, Zenon DEF Max
<1> QED BY <1>5, <1>0 DEF MaxTag

(* No month is longer than that.                                           *)
LEMMA TageBeschraenkt == \A m \in 0..Monate : ndays(m) \in 0..MaxTag
  BY LaengsterMonat, UhrAssumption DEF ndays

(* The time of day lies inside the day, whatever the fields say.           *)
LEMMA UhrzeitImTag ==
  ASSUME NEW s \in 0..(SEK - 1), NEW m \in 0..(MIN - 1), NEW h \in 0..(STD - 1)
  PROVE  s + SEK * m + SEK * MIN * h \in 0..(Tag - 1)
<1>1. PICK H \in Nat \ {0} : H = SEK * MIN
  BY TagPositiv
<1>2. SEK \in Nat \ {0} /\ MIN \in Nat \ {0} /\ STD \in Nat \ {0}
  BY TagPositiv
<1>3. SEK * m \in Nat /\ SEK * m <= SEK * (MIN - 1)
  BY <1>2
<1>4. SEK * (MIN - 1) = H - SEK
  BY <1>1, <1>2
<1>5. H * h \in Nat /\ H * h <= H * (STD - 1)
  BY <1>1, <1>2
<1>6. H * (STD - 1) = Tag - H /\ Tag \in Nat
  BY <1>1, <1>2 DEF Tag
<1>7. PICK x \in Nat, y \in Nat : x = SEK * m /\ y = H * h
  BY <1>3, <1>5
<1>8. s + x + y \in 0..(Tag - 1)
  BY <1>2, <1>3, <1>4, <1>5, <1>6, <1>7
<1>9. SEK * MIN * h = y
  BY <1>1, <1>7
<1> QED BY <1>7, <1>8, <1>9

(* canix_update_datetime keeps the fields in their ranges and counts the   *)
(* time of day on by a second, round the clock.                            *)
LEMMA UhrTickt ==
  ASSUME UhrTypeOK, update_datetime
  PROVE  /\ second' \in 0..(SEK - 1) /\ minute' \in 0..(MIN - 1) /\ hour' \in 0..(STD - 1)
         /\ Uhrzeit \in 0..(Tag - 1)
         /\ Uhrzeit' = (IF Uhrzeit + 1 = Tag THEN 0 ELSE Uhrzeit + 1)
<1>1. PICK H \in Nat \ {0} : H = SEK * MIN
  BY TagPositiv
<1>2. SEK \in Nat \ {0} /\ MIN \in Nat \ {0} /\ STD \in Nat \ {0}
  BY TagPositiv
<1>3. second \in 0..(SEK - 1) /\ minute \in 0..(MIN - 1) /\ hour \in 0..(STD - 1)
  BY DEF UhrTypeOK
<1>4. /\ second' = IF neue_minute THEN 0 ELSE second + 1
      /\ minute' = IF neue_stunde THEN 0 ELSE IF neue_minute THEN minute + 1 ELSE minute
      /\ hour' = IF neuer_tag THEN 0 ELSE IF neue_stunde THEN hour + 1 ELSE hour
  BY DEF update_datetime
<1>5. second' \in 0..(SEK - 1) /\ minute' \in 0..(MIN - 1) /\ hour' \in 0..(STD - 1)
  BY <1>2, <1>3, <1>4 DEF neue_minute, neue_stunde, neuer_tag
<1>6. Uhrzeit \in 0..(Tag - 1) /\ Uhrzeit' \in 0..(Tag - 1)
  BY <1>3, <1>5, UhrzeitImTag DEF Uhrzeit
<1>7. SEK * (minute + 1) = SEK * minute + SEK /\ H * (hour + 1) = H * hour + H
  BY <1>1, <1>2, <1>3
<1>8. /\ Uhrzeit = second + SEK * minute + H * hour
      /\ Uhrzeit' = second' + SEK * minute' + H * hour'
  BY <1>1 DEF Uhrzeit
<1>9. Tag = H * STD /\ Tag \in Nat \ {0}
  BY <1>1, TagPositiv DEF Tag
<1>10. PICK x \in Nat, y \in Nat : x = SEK * minute /\ y = H * hour
  BY <1>1, <1>2, <1>3
<1>a. CASE ~neue_minute
  <2>1. second' = second + 1 /\ minute' = minute /\ hour' = hour
    BY <1>a, <1>4 DEF neue_stunde, neuer_tag
  <2>2. Uhrzeit' = (second + 1) + x + y /\ Uhrzeit = second + x + y
    BY <2>1, <1>8, <1>10
  <2>3. Uhrzeit' = Uhrzeit + 1
    BY <2>2, <1>3, <1>2, <1>10
  <2> QED BY <2>3, <1>5, <1>6, <1>9
<1>b. CASE neue_minute /\ ~neue_stunde
  <2>1. second' = 0 /\ second + 1 = SEK /\ minute' = minute + 1 /\ hour' = hour
    BY <1>b, <1>4 DEF neue_minute, neue_stunde, neuer_tag
  <2>2. Uhrzeit' = x + SEK + y /\ Uhrzeit = second + x + y
    BY <2>1, <1>7, <1>8, <1>10, <1>2
  <2>3. Uhrzeit' = Uhrzeit + 1
    BY <2>1, <2>2, <1>3, <1>2, <1>10
  <2> QED BY <2>3, <1>5, <1>6, <1>9
<1>c. CASE neue_stunde /\ ~neuer_tag
  <2>1. /\ second' = 0 /\ second + 1 = SEK /\ minute' = 0 /\ minute + 1 = MIN
        /\ hour' = hour + 1
    BY <1>c, <1>4 DEF neue_minute, neue_stunde, neuer_tag
  <2>2. x + SEK = H
    BY <2>1, <1>7, <1>1, <1>10
  <2>3. Uhrzeit' = y + H /\ Uhrzeit = second + x + y
    BY <2>1, <1>7, <1>8, <1>10, <1>2, <1>1
  <2> QED BY <2>1, <2>2, <2>3, <1>6, <1>9, <1>10, <1>3, <1>2, <1>1
<1>d. CASE neuer_tag
  <2>1. /\ second' = 0 /\ second + 1 = SEK /\ minute' = 0 /\ minute + 1 = MIN
        /\ hour' = 0 /\ hour + 1 = STD
    BY <1>d, <1>4 DEF neue_minute, neue_stunde, neuer_tag
  <2>2. x + SEK = H
    BY <2>1, <1>7, <1>1, <1>10
  <2>3. y + H = Tag
    BY <2>1, <1>7, <1>9, <1>10
  <2>4. Uhrzeit' = 0 /\ Uhrzeit = second + x + y
    BY <2>1, <1>8, <1>10, <1>2, <1>1
  <2> QED BY <2>1, <2>2, <2>3, <2>4, <1>6, <1>9, <1>10, <1>3, <1>2, <1>1
<1>11. neuer_tag => neue_stunde
  BY DEF neuer_tag
<1>12. neue_stunde => neue_minute
  BY DEF neue_stunde
<1> QED BY <1>5, <1>6, <1>a, <1>b, <1>c, <1>d, <1>11, <1>12

(* The fields written from the time of a frame make up that time.          *)
LEMMA Zerlegt ==
  ASSUME NEW z \in 0..(Tag - 1)
  PROVE  /\ z % SEK \in 0..(SEK - 1) /\ (z \div SEK) % MIN \in 0..(MIN - 1)
         /\ z \div (SEK * MIN) \in 0..(STD - 1)
         /\ z = (z % SEK) + SEK * ((z \div SEK) % MIN) + SEK * MIN * (z \div (SEK * MIN))
<1>1. PICK H \in Nat \ {0} : H = SEK * MIN
  BY TagPositiv
<1>2. SEK \in Nat \ {0} /\ MIN \in Nat \ {0} /\ STD \in Nat \ {0} /\ Tag \in Nat \ {0}
  BY TagPositiv
<1>3. z \in Nat /\ z < Tag
  BY <1>2
<1>4. PICK q \in Nat : q = z \div SEK
  BY <1>2, <1>3, DivInt
<1>5. PICK p \in Nat : p = q \div MIN /\ p = z \div H
  <2>1. z \div H = q \div MIN
    BY <1>1, <1>2, <1>3, <1>4, DivDiv
  <2> QED BY <2>1, <1>2, <1>4, DivInt
<1>6. /\ z % SEK \in 0..(SEK - 1) /\ q % MIN \in 0..(MIN - 1) /\ z % H \in 0..(H - 1)
  <2>1. z \in Int /\ q \in Int
    BY <1>3
  <2>2. z % SEK \in 0..(SEK - 1)
    BY <1>2, <2>1, ModBereich
  <2>3. q % MIN \in 0..(MIN - 1)
    BY <1>2, <2>1, ModBereich
  <2>4. z % H \in 0..(H - 1)
    BY <2>1, ModBereich
  <2> QED BY <2>2, <2>3, <2>4
<1>7. z = SEK * q + (z % SEK) /\ q = MIN * p + (q % MIN) /\ z = H * p + (z % H)
  <2>1. z \in Int /\ q \in Int
    BY <1>3
  <2>2. z = SEK * (z \div SEK) + (z % SEK)
    BY <1>2, <2>1, DivMod
  <2>3. q = MIN * (q \div MIN) + (q % MIN)
    BY <1>2, <2>1, DivMod
  <2>4. z = H * (z \div H) + (z % H)
    BY <2>1, DivMod
  <2> QED BY <2>2, <2>3, <2>4, <1>4, <1>5
<1>8. PICK r \in 0..(SEK - 1), s \in 0..(MIN - 1) : r = z % SEK /\ s = q % MIN
  BY <1>6
<1>9. SEK * q = H * p + SEK * s
  <2>1. SEK * (MIN * p + s) = (SEK * MIN) * p + SEK * s
    BY <1>2, <1>5, <1>8
  <2> QED BY <2>1, <1>1, <1>7, <1>8
<1>10. z = r + SEK * s + H * p
  <2>1. PICK a \in Int, b \in Int : a = SEK * s /\ b = H * p
    BY <1>1, <1>2, <1>5, <1>8
  <2> QED BY <2>1, <1>7, <1>8, <1>9, <1>2
<1>11. p <= STD - 1
  <2>1. SUFFICES ASSUME p >= STD PROVE FALSE
    BY <1>2
  <2>2. H * p >= H * STD
    BY <2>1, <1>1, <1>2
  <2>3. H * p <= z
    BY <1>1, <1>5, <1>6, <1>7
  <2>4. H * STD = Tag
    BY <1>1 DEF Tag
  <2> QED BY <2>2, <2>3, <2>4, <1>1, <1>2, <1>3, <1>5
<1>12. p \in 0..(STD - 1)
  BY <1>11, <1>2
<1> QED BY <1>1, <1>4, <1>5, <1>6, <1>8, <1>10, <1>12

(* The frames a sender sends.                                              *)
LEMMA DatenTypen == \A d \in Daten : /\ d.tag \in 1..MaxTag /\ d.monat \in 1..Monate
                                     /\ d.jahr \in 0..ByteMax
  BY UhrAssumption DEF Daten, MaxTag

LEMMA FramesVerschieden ==
  /\ KeinFrame.art = "keins"
  /\ \A f \in Zeiten : /\ f.art = "TIME_INFO" /\ f.zeit \in 0..(Tag - 1) /\ f.wtag \in 1..WOCHE
                       /\ f # KeinFrame
  /\ \A f \in Datumsframes : /\ f.art = "DATE_INFO" /\ f.tag \in 1..MaxTag /\ f.monat \in 1..Monate
                             /\ f.jahr \in 0..ByteMax /\ f # KeinFrame
<1>1. KeinFrame.art = "keins"
  BY DEF KeinFrame
<1>2. \A f \in Zeiten : f.art = "TIME_INFO" /\ f.zeit \in 0..(Tag - 1) /\ f.wtag \in 1..WOCHE
  BY DEF Zeiten
<1>3. \A f \in Datumsframes : /\ f.art = "DATE_INFO" /\ f.tag \in 1..MaxTag
                             /\ f.monat \in 1..Monate /\ f.jahr \in 0..ByteMax
  BY DEF Datumsframes
<1> QED BY <1>1, <1>2, <1>3

(* The timer interrupt keeps all fields in their ranges.                   *)
LEMMA TickTypen == ASSUME UhrTypen, Tick PROVE UhrTypen'
<1> USE DEF UhrTypen
<1>0. UhrTypeOK
  OBVIOUS
<1>1. update_datetime /\ UNCHANGED <<phase, frame, our_time, war, datum_da>>
  BY DEF Tick
<1>2. second' \in 0..(SEK - 1) /\ minute' \in 0..(MIN - 1) /\ hour' \in 0..(STD - 1)
  BY <1>0, <1>1, UhrTickt
<1>3. last_date_update' \in 0..ByteMax
  BY <1>1, UhrAssumption DEF update_datetime, aeltere, UhrTypeOK
<1>4. day_of_week' \in 0..WOCHE
  BY <1>1, UhrAssumption DEF update_datetime, UhrTypeOK
<1>5. /\ day_of_month \in 0..MaxTag /\ month_of_year \in 0..Monate /\ year \in 0..ByteMax
      /\ MaxTag \in Nat \ {0} /\ Monate \in Nat \ {0} /\ ByteMax \in Nat
  BY LaengsterMonat, UhrAssumption DEF UhrTypeOK, MaxTag
<1>6. ndays(month_of_year) \in 0..MaxTag
  BY <1>5, TageBeschraenkt
<1>7. day_of_month' \in 0..MaxTag
  <2>1. day_of_month' = IF neuer_monat THEN 1
                        ELSE IF neuer_tag THEN day_of_month + 1 ELSE day_of_month
    BY <1>1 DEF update_datetime
  <2>2. neuer_tag /\ ~neuer_monat => day_of_month + 1 <= ndays(month_of_year)
    BY <1>5, <1>6 DEF neuer_monat
  <2> QED BY <2>1, <2>2, <1>5, <1>6
<1>8. month_of_year' \in 0..Monate
  BY <1>1, <1>5 DEF update_datetime, neues_jahr
<1>9. year' \in 0..ByteMax
  <2>1. (year + 1) % (ByteMax + 1) \in 0..ByteMax
    BY <1>5, ModBereich
  <2> QED BY <2>1, <1>1, <1>5 DEF update_datetime
<1>10. echt' \in [zeit : 0..(Tag - 1), wtag : 1..WOCHE]
  <2>1. echt.zeit \in 0..(Tag - 1) /\ echt.wtag \in 1..WOCHE
    BY <1>0 DEF UhrTypeOK
  <2>2. 0 \in 0..(Tag - 1) /\ (echt.zeit + 1 # Tag => echt.zeit + 1 \in 0..(Tag - 1))
    BY <2>1, TagPositiv
  <2>3. 1 \in 1..WOCHE /\ (echt.wtag # WOCHE => echt.wtag + 1 \in 1..WOCHE)
    BY <2>1, UhrAssumption
  <2> QED BY <2>1, <2>2, <2>3 DEF Tick
<1>11. alter' \in 0..AlterMax
  <2>1. AlterMax \in Nat
    BY TagPositiv, <1>5 DEF AlterMax
  <2> QED BY <2>1 DEF Tick, UhrTypeOK
<1>12. getickt' \in BOOLEAN
  BY DEF Tick
<1>13. UhrTypeOK'
  BY <1>0, <1>1, <1>2, <1>3, <1>4, <1>7, <1>8, <1>9, <1>10, <1>11 DEF UhrTypeOK, MaxTag
<1> QED BY <1>1, <1>12, <1>13

(* Every step keeps the types: the handler writes parts of a frame's time. *)
LEMMA TypenInit == UhrInit => UhrTypen
<1> SUFFICES ASSUME UhrInit PROVE UhrTypen
  OBVIOUS
<1>1. Max({Tage[m] : m \in 1..Monate}) \in Nat
  BY LaengsterMonat DEF MaxTag
<1>2. AlterMax \in Nat
  BY UhrAssumption DEF AlterMax
<1>3. echt \in [zeit : 0..(Tag - 1), wtag : 1..WOCHE]
  <2>1. Echtzeiten \subseteq 0..(Tag - 1) /\ {1} \subseteq 1..WOCHE
    BY UhrAssumption
  <2> QED BY <2>1 DEF UhrInit
<1>4. UhrTypeOK
  BY <1>1, <1>2, <1>3, UhrAssumption DEF UhrInit, UhrTypeOK
<1> QED BY <1>4 DEF UhrInit, UhrTypen, Lesen, Setzen, DatumSetzen

LEMMA TypenSchritt == ASSUME UhrTypen, [UhrNext]_uhrVars PROVE UhrTypen'
<1> USE DEF uhr, datum, beob
<1>0. UhrTypeOK /\ frame \in {KeinFrame} \cup Zeiten \cup Datumsframes
  BY DEF UhrTypen
<1>1. CASE Tick
  BY <1>1, TickTypen
<1>2. CASE Senden
  <2>1. frame' \in Zeiten \cup Datumsframes
    BY <1>0, <1>2, DatenTypen DEF Senden, Zeiten, Datumsframes, UhrTypeOK
  <2>2. phase \in {"ruhe"}
    BY <1>2, FramesVerschieden DEF Senden, UhrTypen
  <2>3. UhrTypeOK'
    BY <1>0, <1>2 DEF Senden, UhrTypeOK
  <2> QED BY <2>1, <2>2, <2>3, <1>2 DEF Senden, UhrTypen, Lesen, Setzen, DatumSetzen
<1>3. CASE TIME_INFO
  <2>1. frame \in Zeiten
    BY <1>0, <1>3, FramesVerschieden DEF TIME_INFO
  <2>2. UhrTypeOK'
    <3>1. AlterMax \in Nat
      BY UhrAssumption DEF AlterMax
    <3>2. last_date_update' \in 0..ByteMax /\ alter' \in 0..AlterMax
      BY <3>1, <1>3, UhrAssumption DEF TIME_INFO
    <3> QED BY <3>2, <1>0, <1>3 DEF TIME_INFO, UhrTypeOK
  <2> QED BY <2>1, <2>2, <1>3 DEF TIME_INFO, UhrTypen, Lesen, Setzen, DatumSetzen
<1>4. CASE lies_second
  <2>1. UhrTypeOK'
    BY <1>0, <1>4, UhrAssumption DEF lies_second, UhrTypeOK
  <2> QED BY <2>1, <1>4 DEF lies_second, UhrTypen, Lesen, Setzen, DatumSetzen
<1>5. CASE lies_minute
  <2>1. our_time' \in Nat
    <3>1. our_time \in Nat /\ SEK \in Nat /\ minute \in Nat
      BY <1>0, UhrAssumption DEF UhrTypeOK
    <3>2. SEK * minute \in Nat
      BY <3>1
    <3> QED BY <3>1, <3>2, <1>5 DEF lies_minute
  <2>2. UhrTypeOK'
    BY <2>1, <1>0, <1>5 DEF lies_minute, UhrTypeOK
  <2> QED BY <2>2, <1>5 DEF lies_minute, UhrTypen, Lesen, Setzen, DatumSetzen
<1>6. CASE lies_hour
  <2>1. UhrTypeOK'
    BY <1>0, <1>6 DEF lies_hour, Ende, UhrTypeOK
  <2> QED BY <2>1, <1>6 DEF lies_hour, Ende, UhrTypen, Lesen, Setzen, DatumSetzen
<1>7. CASE setze_second
  <2>1. frame.zeit \in 0..(Tag - 1)
    BY <1>7, FramesVerschieden DEF setze_second, UhrTypen, Setzen
  <2>2. UhrTypeOK'
    BY <2>1, <1>0, <1>7, Zerlegt DEF setze_second, UhrTypeOK
  <2> QED BY <2>2, <1>7 DEF setze_second, UhrTypen, Lesen, Setzen, DatumSetzen
<1>8. CASE setze_minute
  <2>1. frame.zeit \in 0..(Tag - 1)
    BY <1>8, FramesVerschieden DEF setze_minute, UhrTypen, Setzen
  <2>2. UhrTypeOK'
    BY <2>1, <1>0, <1>8, Zerlegt DEF setze_minute, UhrTypeOK
  <2> QED BY <2>2, <1>8 DEF setze_minute, UhrTypen, Lesen, Setzen, DatumSetzen
<1>9. CASE setze_hour
  <2>1. frame.zeit \in 0..(Tag - 1)
    BY <1>9, FramesVerschieden DEF setze_hour, UhrTypen, Setzen
  <2>2. UhrTypeOK'
    BY <2>1, <1>0, <1>9, Zerlegt DEF setze_hour, UhrTypeOK
  <2> QED BY <2>2, <1>9 DEF setze_hour, UhrTypen, Lesen, Setzen, DatumSetzen
<1>10. CASE setze_day_of_week
  <2>1. frame.wtag \in 1..WOCHE
    BY <1>10, FramesVerschieden DEF setze_day_of_week, UhrTypen, Setzen
  <2>2. UhrTypeOK'
    BY <2>1, <1>0, <1>10 DEF setze_day_of_week, Ende, UhrTypeOK
  <2> QED BY <2>2, <1>10 DEF setze_day_of_week, Ende, UhrTypen, Lesen, Setzen, DatumSetzen
<1>11. CASE DATE_INFO
  <2>1. frame \in Datumsframes
    BY <1>0, <1>11, FramesVerschieden DEF DATE_INFO
  <2>2. UhrTypeOK'
    BY <2>1, <1>0, <1>11, FramesVerschieden DEF DATE_INFO, UhrTypeOK, MaxTag
  <2> QED BY <2>1, <2>2, <1>11 DEF DATE_INFO, UhrTypen, Lesen, Setzen, DatumSetzen
<1>12. CASE setze_month
  <2>1. frame.monat \in 1..Monate
    BY <1>12, FramesVerschieden DEF setze_month, UhrTypen, DatumSetzen
  <2>2. UhrTypeOK'
    BY <2>1, <1>0, <1>12 DEF setze_month, UhrTypeOK
  <2> QED BY <2>2, <1>12 DEF setze_month, UhrTypen, Lesen, Setzen, DatumSetzen
<1>13. CASE setze_year
  <2>1. frame.jahr \in 0..ByteMax
    BY <1>13, FramesVerschieden DEF setze_year, UhrTypen, DatumSetzen
  <2>2. UhrTypeOK'
    BY <2>1, <1>0, <1>13 DEF setze_year, Ende, UhrTypeOK
  <2> QED BY <2>2, <1>13 DEF setze_year, Ende, UhrTypen, Lesen, Setzen, DatumSetzen
<1>14. CASE UNCHANGED uhrVars
  BY <1>0, <1>14 DEF uhrVars, lauf, UhrTypen, UhrTypeOK
<1> QED
  BY <1>1, <1>2, <1>3, <1>4, <1>5, <1>6, <1>7, <1>8, <1>9, <1>10, <1>11, <1>12, <1>13, <1>14
     DEF UhrNext

-----------------------------------------------------------------------------
(* The board and the sender count on together.                             *)
LEMMA TickHaeltRichtig ==
  ASSUME UhrTypen, Tick
  PROVE  /\ echt.zeit \in 0..(Tag - 1)
         /\ echt'.zeit = (IF echt.zeit + 1 = Tag THEN 0 ELSE echt.zeit + 1)
         /\ Richtig => Richtig'
<1>1. echt.zeit \in 0..(Tag - 1)
  BY DEF UhrTypen, UhrTypeOK
<1>2. echt'.zeit = (IF echt.zeit + 1 = Tag THEN 0 ELSE echt.zeit + 1)
  BY DEF Tick
<1>3. Uhrzeit \in 0..(Tag - 1) /\ Uhrzeit' = (IF Uhrzeit + 1 = Tag THEN 0 ELSE Uhrzeit + 1)
  BY UhrTickt DEF UhrTypen, Tick
<1>4. Richtig => Richtig'
  <2> SUFFICES ASSUME Richtig PROVE Abweichung(Uhrzeit', echt'.zeit) < Toleranz
    BY DEF Richtig, Abweichung
  <2>1. Abweichung(Uhrzeit, echt.zeit) < Toleranz
    BY DEF Richtig
  <2> HIDE DEF Uhrzeit
  <2> QED BY <1>1, <1>2, <1>3, <2>1, NaheBleibt
<1> QED BY <1>1, <1>2, <1>4

(* Nothing but the interrupt and the writes of the handler moves the clock *)
(* against the sender.                                                     *)
LEMMA UhrSteht ==
  ASSUME UNCHANGED <<second, minute, hour, echt>>
  PROVE  Uhrzeit' = Uhrzeit /\ (Richtig' <=> Richtig)
  BY DEF Uhrzeit, Richtig, Abweichung

LEMMA UhrzeitTyp == ASSUME UhrTypen PROVE Uhrzeit \in 0..(Tag - 1) /\ echt.zeit \in 0..(Tag - 1)
  BY UhrzeitImTag DEF UhrTypen, UhrTypeOK, Uhrzeit

(* One lemma for each kind of step.                                        *)
LEMMA GleichTick == ASSUME Gleichlauf, UhrTypen', Tick PROVE Gleichlauf'
<1>0. UhrTypen /\ Flug /\ Alt /\ Gelesen /\ Gesetzt
  BY DEF Gleichlauf
<1>1. /\ echt.zeit \in 0..(Tag - 1)
      /\ echt'.zeit = (IF echt.zeit + 1 = Tag THEN 0 ELSE echt.zeit + 1)
      /\ Richtig => Richtig'
  BY <1>0, TickHaeltRichtig
<1>2. /\ frame # KeinFrame => ~getickt
      /\ getickt' = (frame # KeinFrame)
      /\ UNCHANGED <<phase, frame, our_time, war, datum_da>>
  BY DEF Tick
<1>3. Flug'
  <2> SUFFICES ASSUME phase = "ruhe", frame \in Zeiten
               PROVE  getickt' /\ (\/ frame.zeit < Tag - 1 /\ echt'.zeit = frame.zeit + 1
                                   \/ frame.zeit = Tag - 1 /\ echt'.zeit = 0)
    BY <1>2 DEF Flug
  <2>1. ~getickt /\ getickt'
    BY <1>2, FramesVerschieden
  <2>2. echt.zeit = frame.zeit
    BY <1>0, <2>1 DEF Flug
  <2> QED BY <2>1, <2>2, <1>1, TagPositiv
<1>4. phase \notin {"ruhe"} => ~getickt /\ getickt'
  BY <1>0, <1>2, FramesVerschieden DEF UhrTypen
<1>5. Alt'
  <2> SUFFICES ASSUME phase \in Lesen \cup Setzen, war
               PROVE  /\ frame.zeit \in Toleranz..(Tag - Toleranz - 1)
                      /\ getickt'
                      /\ echt'.zeit - frame.zeit \in 1..2
    BY <1>2 DEF Alt
  <2>1. ~getickt /\ getickt'
    BY <1>4 DEF Lesen, Setzen
  <2>2. frame.zeit \in Toleranz..(Tag - Toleranz - 1) /\ echt.zeit - frame.zeit \in 0..1
    BY <1>0, <2>1 DEF Alt
  <2> QED BY <2>1, <2>2, <1>1, TagPositiv DEF Toleranz
<1>6. Gelesen'
  BY <1>2, <1>4 DEF Gelesen, Lesen
<1>7. Gesetzt'
  BY <1>0, <1>2, <1>4 DEF Gesetzt, Setzen
<1> QED BY <1>0, <1>1, <1>2, <1>3, <1>5, <1>6, <1>7 DEF Gleichlauf

LEMMA GleichTIME_INFO == ASSUME Gleichlauf, UhrTypen', TIME_INFO PROVE Gleichlauf'
<1>0. UhrTypen /\ Flug
  BY DEF Gleichlauf
<1>1. /\ phase = "ruhe" /\ phase' = "lies_second" /\ ~getickt'
      /\ frame' = frame /\ war' = (Richtig /\ ~Mitternachtsnah)
      /\ UNCHANGED <<second, minute, hour, echt>>
  BY DEF TIME_INFO
<1>2. Uhrzeit' = Uhrzeit /\ (Richtig' <=> Richtig)
  BY <1>1, UhrSteht
<1>3. Flug' /\ Gesetzt'
  BY <1>1 DEF Flug, Gesetzt, Setzen
<1>4. frame \in Zeiten
  BY <1>0, FramesVerschieden DEF UhrTypen, TIME_INFO
<1>5. Uhrzeit \in 0..(Tag - 1) /\ echt.zeit \in 0..(Tag - 1) /\ frame.zeit \in 0..(Tag - 1)
  BY <1>0, <1>4, UhrzeitTyp, FramesVerschieden
<1>6. war' => /\ frame.zeit \in Toleranz..(Tag - Toleranz - 1)
              /\ echt.zeit - frame.zeit \in 0..1
  <2>1. \/ echt.zeit = frame.zeit
        \/ frame.zeit < Tag - 1 /\ echt.zeit = frame.zeit + 1
        \/ frame.zeit = Tag - 1 /\ echt.zeit = 0
    BY <1>0, <1>1, <1>4 DEF Flug
  <2>2. war' => ~(frame.zeit < Toleranz \/ frame.zeit >= Tag - Toleranz)
    BY <1>1 DEF Mitternachtsnah
  <2> QED BY <2>1, <2>2, <1>5, TagPositiv DEF Toleranz
<1>7. war' => Uhrzeit - echt.zeit \in -(Toleranz - 1)..(Toleranz - 1)
  <2> SUFFICES ASSUME war' PROVE Uhrzeit - echt.zeit \in -(Toleranz - 1)..(Toleranz - 1)
    OBVIOUS
  <2>1. Abweichung(Uhrzeit, echt.zeit) < Toleranz
    BY <1>1 DEF Richtig
  <2> HIDE DEF Uhrzeit
  <2>2. \/ Uhrzeit - echt.zeit \in -(Toleranz - 1)..(Toleranz - 1)
        \/ Uhrzeit - echt.zeit > Tag - Toleranz \/ echt.zeit - Uhrzeit > Tag - Toleranz
    BY <2>1, <1>5, Nahe
  <2> QED BY <2>2, <1>5, <1>6, TagPositiv DEF Toleranz
<1>8. Alt'
  BY <1>1, <1>6 DEF Alt
<1>9. Gelesen'
  BY <1>1, <1>2, <1>7 DEF Gelesen
<1> QED BY <1>1, <1>2, <1>3, <1>8, <1>9 DEF Gleichlauf

LEMMA GleichLesen ==
  ASSUME Gleichlauf, UhrTypen', lies_second \/ lies_minute
  PROVE  Gleichlauf'
<1>0. UhrTypen /\ Alt /\ Gelesen
  BY DEF Gleichlauf
<1>1. /\ phase \in {"lies_second", "lies_minute"}
      /\ phase' = (IF phase = "lies_second" THEN "lies_minute" ELSE "lies_hour")
      /\ our_time' = (IF phase = "lies_second" THEN second ELSE our_time + SEK * minute)
      /\ UNCHANGED <<second, minute, hour, frame, getickt, echt, war>>
  BY DEF lies_second, lies_minute, uhr, beob
<1>2. Uhrzeit' = Uhrzeit /\ (Richtig' <=> Richtig)
  BY <1>1, UhrSteht
<1>3. Flug' /\ Gesetzt'
  BY <1>1 DEF Flug, Gesetzt, Setzen
<1>4. Alt'
  BY <1>0, <1>1 DEF Alt, Lesen
<1>5. Gelesen'
  BY <1>0, <1>1, <1>2 DEF Gelesen, Lesen
<1>6. war' /\ phase' \notin Setzen => Richtig'
  BY <1>1, <1>2 DEF Gleichlauf, Setzen
<1> QED BY <1>3, <1>4, <1>5, <1>6 DEF Gleichlauf

(* A reading no interrupt fell into deviates by three seconds at most.     *)
LEMMA Untorn ==
  ASSUME Gleichlauf, phase = "lies_hour", war, ~getickt
  PROVE  ~weicht_ab(frame.zeit - (our_time + SEK * MIN * hour))
<1>0. UhrTypen /\ Alt /\ Gelesen /\ phase \in Lesen
  BY DEF Gleichlauf, Lesen
<1>1. our_time = second + SEK * minute
  BY <1>0 DEF Gelesen
<1>2. our_time + SEK * MIN * hour = Uhrzeit
  BY <1>1 DEF Uhrzeit
<1>3. Uhrzeit \in 0..(Tag - 1) /\ echt.zeit \in 0..(Tag - 1)
  BY <1>0, UhrzeitTyp
<1>4. /\ Uhrzeit - echt.zeit \in -(Toleranz - 1)..(Toleranz - 1)
      /\ frame.zeit \in Toleranz..(Tag - Toleranz - 1)
      /\ echt.zeit - frame.zeit \in 0..1
  BY <1>0 DEF Gelesen, Alt
<1> HIDE DEF Uhrzeit
<1>5. frame.zeit - Uhrzeit \in -Toleranz..Toleranz
  BY <1>3, <1>4, TagPositiv DEF Toleranz
<1>6. ~weicht_ab(frame.zeit - Uhrzeit)
  BY <1>5, KeineAbweichung
<1> QED BY <1>2, <1>6

LEMMA Gleichlies_hour == ASSUME Gleichlauf, UhrTypen', lies_hour PROVE Gleichlauf'
<1>0. UhrTypen /\ Alt /\ (war => Richtig)
  BY DEF Gleichlauf, lies_hour, Setzen
<1>1. phase = "lies_hour" /\ UNCHANGED <<second, minute, hour, echt, war>>
  BY DEF lies_hour, uhr, beob
<1>2. Richtig' <=> Richtig
  BY <1>1, UhrSteht
<1>3. CASE weicht_ab(frame.zeit - (our_time + SEK * MIN * hour))
  <2>1. phase' = "setze_second" /\ UNCHANGED <<frame, getickt>>
    BY <1>3 DEF lies_hour
  <2>2. war => getickt
    BY <1>0, <1>1, <1>3, Untorn DEF UhrTypen
  <2>3. Flug' /\ Gelesen'
    BY <2>1 DEF Flug, Gelesen, Lesen
  <2>4. Alt'
    BY <1>0, <1>1, <2>1 DEF Alt, Lesen
  <2>5. Gesetzt'
    BY <1>1, <2>1, <2>2 DEF Gesetzt
  <2> QED BY <2>1, <2>3, <2>4, <2>5 DEF Gleichlauf, Setzen
<1>4. CASE ~weicht_ab(frame.zeit - (our_time + SEK * MIN * hour))
  <2>1. phase' = "ruhe" /\ frame' = KeinFrame
    BY <1>4 DEF lies_hour, Ende
  <2>2. Flug' /\ Gelesen' /\ Alt' /\ Gesetzt'
    BY <2>1, FramesVerschieden DEF Flug, Gelesen, Alt, Gesetzt, Lesen, Setzen
  <2> QED BY <2>2, <1>0, <1>1, <1>2 DEF Gleichlauf
<1> QED BY <1>3, <1>4

LEMMA GleichSetzen ==
  ASSUME Gleichlauf, UhrTypen', setze_second \/ setze_minute \/ setze_hour
  PROVE  Gleichlauf'
<1>0. Alt /\ Gesetzt
  BY DEF Gleichlauf
<1>1. phase \in Setzen /\ phase' \in Setzen /\ UNCHANGED <<frame, getickt, echt, war>>
  BY DEF setze_second, setze_minute, setze_hour, Setzen, beob
<1>2. Flug' /\ Gelesen'
  BY <1>1 DEF Flug, Gelesen, Lesen, Setzen
<1>3. Alt'
  BY <1>0, <1>1 DEF Alt
<1>4. Gesetzt'
  BY <1>0, <1>1 DEF Gesetzt, setze_second, setze_minute, setze_hour
<1> QED BY <1>1, <1>2, <1>3, <1>4 DEF Gleichlauf

(* A clock written in one piece has the time of the frame.                 *)
LEMMA Gleichsetze_day_of_week ==
  ASSUME Gleichlauf, UhrTypen', setze_day_of_week
  PROVE  Gleichlauf'
<1>0. UhrTypen /\ Alt /\ Gesetzt
  BY DEF Gleichlauf
<1>1. /\ phase = "setze_day_of_week" /\ phase' = "ruhe" /\ frame' = KeinFrame
      /\ UNCHANGED <<second, minute, hour, echt, war>>
  BY DEF setze_day_of_week, Ende, beob
<1>2. Flug' /\ Gelesen' /\ Alt' /\ Gesetzt'
  BY <1>1, FramesVerschieden DEF Flug, Gelesen, Alt, Gesetzt, Lesen, Setzen
<1>3. war => Richtig
  <2> SUFFICES ASSUME war PROVE Richtig
    OBVIOUS
  <2>1. getickt /\ second = frame.zeit % SEK /\ minute = (frame.zeit \div SEK) % MIN
        /\ hour = frame.zeit \div (SEK * MIN)
    BY <1>0, <1>1 DEF Gesetzt, Setzen
  <2>2. /\ frame.zeit \in Toleranz..(Tag - Toleranz - 1) /\ echt.zeit - frame.zeit \in 1..2
    BY <1>0, <1>1, <2>1 DEF Alt, Setzen
  <2>3. frame.zeit \in 0..(Tag - 1)
    BY <1>0, <1>1, FramesVerschieden DEF UhrTypen, Setzen
  <2>4. Uhrzeit = frame.zeit
    BY <2>1, <2>3, Zerlegt DEF Uhrzeit
  <2>5. echt.zeit \in 0..(Tag - 1)
    BY <1>0, UhrzeitTyp
  <2>6. frame.zeit - echt.zeit \in -(Toleranz - 1)..(Toleranz - 1)
    BY <2>2, <2>3, <2>5, TagPositiv DEF Toleranz
  <2>7. Abweichung(frame.zeit, echt.zeit) < Toleranz
    BY <2>3, <2>5, <2>6, Nahe
  <2> QED BY <2>4, <2>7 DEF Richtig
<1>4. Richtig' <=> Richtig
  BY <1>1, UhrSteht
<1> QED BY <1>1, <1>2, <1>3, <1>4 DEF Gleichlauf

(* Sending, and the frames with a date, leave the clock alone.             *)
LEMMA GleichSonst ==
  ASSUME Gleichlauf, UhrTypen',
         Senden \/ DATE_INFO \/ setze_month \/ setze_year \/ UNCHANGED uhrVars
  PROVE  Gleichlauf'
<1>0. UhrTypen /\ (war /\ phase \notin Setzen => Richtig)
  BY DEF Gleichlauf
<1>1. UNCHANGED <<second, minute, hour, echt, war>>
  BY DEF Senden, DATE_INFO, setze_month, setze_year, uhrVars, uhr, beob
<1>2. Uhrzeit' = Uhrzeit /\ (Richtig' <=> Richtig)
  BY <1>1, UhrSteht
<1>3. CASE Senden
  <2>1. phase' = "ruhe" /\ phase = "ruhe"
    BY <1>0, <1>3, FramesVerschieden DEF Senden, UhrTypen
  <2>2. frame'.art = "TIME_INFO" => frame'.zeit = echt'.zeit /\ ~getickt'
    BY <1>3 DEF Senden
  <2>3. Flug'
    <3>1. frame' \in Zeiten => frame'.art = "TIME_INFO"
      BY FramesVerschieden
    <3> QED BY <2>2, <3>1 DEF Flug, Zeiten
  <2>4. Gelesen' /\ Alt' /\ Gesetzt'
    BY <2>1 DEF Gelesen, Alt, Gesetzt, Lesen, Setzen
  <2> QED BY <2>1, <2>3, <2>4, <1>0, <1>1, <1>2 DEF Gleichlauf, Setzen
<1>4. CASE DATE_INFO \/ setze_month \/ setze_year
  <2>1. /\ phase \notin Lesen \cup Setzen
        /\ \/ phase' \in DatumSetzen
           \/ phase' = "ruhe" /\ frame' = KeinFrame
    <3>1. CASE DATE_INFO
      <4>1. phase = "ruhe" /\ phase' = "setze_month"
        BY <3>1 DEF DATE_INFO
      <4> QED BY <4>1 DEF Lesen, Setzen, DatumSetzen
    <3>2. CASE setze_month
      <4>1. phase = "setze_month" /\ phase' = "setze_year"
        BY <3>2 DEF setze_month
      <4> QED BY <4>1 DEF Lesen, Setzen, DatumSetzen
    <3>3. CASE setze_year
      BY <3>3 DEF setze_year, Ende, Lesen, Setzen
    <3> QED BY <1>4, <3>1, <3>2, <3>3
  <2>2. Flug' /\ Gelesen' /\ Alt' /\ Gesetzt'
    BY <2>1, FramesVerschieden DEF Flug, Gelesen, Alt, Gesetzt, Lesen, Setzen, DatumSetzen
  <2> QED BY <2>1, <2>2, <1>0, <1>1, <1>2 DEF Gleichlauf
<1>5. CASE UNCHANGED uhrVars
  BY <1>2, <1>5 DEF Gleichlauf, Flug, Gelesen, Alt, Gesetzt, uhrVars, uhr, lauf, beob
<1> QED BY <1>3, <1>4, <1>5

LEMMA GleichlaufInit == UhrInit => Gleichlauf
  BY TypenInit, FramesVerschieden
     DEF UhrInit, Gleichlauf, Flug, Gelesen, Alt, Gesetzt, Lesen, Setzen

LEMMA GleichlaufSchritt == ASSUME Gleichlauf, [UhrNext]_uhrVars PROVE Gleichlauf'
<1>1. UhrTypen'
  BY TypenSchritt DEF Gleichlauf
<1> QED
  BY <1>1, GleichTick, GleichTIME_INFO, GleichLesen, Gleichlies_hour, GleichSetzen,
     Gleichsetze_day_of_week, GleichSonst, Zenon DEF UhrNext

(* The fields of the clock stay in the ranges rtc.h gives them, although   *)
(* they wrap only at equality and the timer interrupt falls between the    *)
(* reads and writes of canix_SFP_RTS_handler.                              *)
THEOREM UhrTypKorrekt == UhrSpec => []UhrTypeOK
<1>1. UhrTypen => UhrTypeOK
  BY DEF UhrTypen
<1> QED
  BY <1>1, TypenInit, TypenSchritt, PTL DEF UhrSpec

(* A handler that finds the clock right leaves it right: a tick may tear   *)
(* its reading of the fields or its writing, and never both, because the   *)
(* handler takes less than a second (hcan_rts.c:62-81).                    *)
THEOREM UhrBleibtRichtig == UhrSpec => SynchronBleibt
<1>1. ASSUME Gleichlauf, [UhrNext]_uhrVars
      PROVE  [phase # "ruhe" /\ phase' = "ruhe" /\ war => Richtig']_uhrVars
  <2> SUFFICES ASSUME UhrNext, phase # "ruhe", phase' = "ruhe", war PROVE Richtig'
    BY <1>1
  <2>1. Gleichlauf'
    BY <1>1, GleichlaufSchritt
  <2>2. war'
    BY DEF UhrNext, Tick, Senden, TIME_INFO, lies_second, lies_minute, lies_hour, setze_second,
           setze_minute, setze_hour, setze_day_of_week, DATE_INFO, setze_month, setze_year, beob
  <2> QED BY <2>1, <2>2 DEF Gleichlauf, Setzen
<1> QED
  BY <1>1, GleichlaufInit, GleichlaufSchritt, PTL DEF UhrSpec, SynchronBleibt
=============================================================================
