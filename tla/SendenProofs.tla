---------------------------- MODULE SendenProofs ----------------------------
(***************************************************************************)
(* Proofs about sending, on a board and on the host.                       *)
(* CanixSenden, for every set of frames, every number of callbacks and     *)
(* their filters, and every depth of sending from inside a callback: no    *)
(* frame is lost or overwritten in the controller, and every frame sent    *)
(* reaches its local callbacks once and in order.                          *)
(* Hostweg, for every number of slots and addresses: programs of the host  *)
(* send under addresses of their own.                                      *)
(***************************************************************************)
EXTENDS CanixSenden, Hostweg, FiniteSetTheorems, SequenceTheorems,
        WellFoundedInduction, TLAPS

Aufrufe == [f : Frames, wo : Orte, k : 0..(MAX_FRAME_CALLBACKS + 2)]
Frueh == {"sendable", "waehlen", "fuellen"}
Tiefe == Len(stapel)

(* Only the innermost call runs; the others wait in a callback.  A frame   *)
(* is in one call at most.                                                 *)
Stapelordnung ==
  /\ \A j \in 1..Tiefe : j < Tiefe => stapel[j].wo = "callback"
  /\ \A j \in 1..Tiefe : stapel[j].f \notin offen
  /\ \A i, j \in 1..Tiefe : stapel[i].f = stapel[j].f => i = j

(* The buffer a call has chosen is still free when it is filled, and no    *)
(* frame is in a buffer before its call has filled one.                    *)
Puffer ==
  /\ \A j \in 1..Tiefe : stapel[j].wo = "fuellen" => tx[stapel[j].k] = Leer
  /\ \A k \in TxBuffer : tx[k] # Leer => tx[k] \notin offen
  /\ \A k \in TxBuffer, j \in 1..Tiefe :
       stapel[j].wo \in Frueh => stapel[j].f # tx[k]
  /\ \A k, l \in TxBuffer : tx[k] = tx[l] /\ tx[k] # Leer => k = l

Unterwegs(f) == \E j \in 1..Tiefe : stapel[j].f = f /\ stapel[j].wo \in Frueh
Verblieben == \A f \in Frames :
  \/ f \in offen \/ Unterwegs(f) \/ f \in uebertragen \/ f \in verworfen
  \/ \E k \in TxBuffer : tx[k] = f

Ordnung == TypeOK /\ Stapelordnung /\ Puffer /\ Verblieben

-----------------------------------------------------------------------------
(* The type of the stack, and its innermost call.                          *)
LEMMA StapelTyp ==
  ASSUME TypeOK
  PROVE  /\ stapel \in Seq(Aufrufe) /\ Tiefe \in Nat
         /\ \A j \in 1..Tiefe : stapel[j] \in Aufrufe
         /\ stapel # <<>> => Tiefe \in 1..Tiefe /\ oben \in Aufrufe
<1>1. stapel \in Seq(Aufrufe)
  BY DEF TypeOK, Aufrufe
<1>2. Tiefe \in Nat /\ \A j \in 1..Tiefe : stapel[j] \in Aufrufe
  BY <1>1, LenProperties, ElementOfSeq DEF Tiefe
<1>3. stapel # <<>> => Tiefe \in Nat \ {0}
  BY <1>1, EmptySeq DEF Tiefe
<1> QED
  BY <1>1, <1>2, <1>3 DEF oben, Tiefe

(* A step inside the innermost call.                                       *)
LEMMA WeiterStapel ==
  ASSUME TypeOK, stapel # <<>>, NEW wo \in Orte,
         NEW k \in 0..(MAX_FRAME_CALLBACKS + 2), Weiter(wo, k)
  PROVE  /\ stapel' \in Seq(Aufrufe) /\ Tiefe' = Tiefe
         /\ \A j \in 1..Tiefe : j # Tiefe => stapel'[j] = stapel[j]
         /\ stapel'[Tiefe] = [f |-> oben.f, wo |-> wo, k |-> k]
<1> DEFINE e == [f |-> oben.f, wo |-> wo, k |-> k]
<1>1. stapel \in Seq(Aufrufe) /\ Tiefe \in 1..Tiefe /\ oben \in Aufrufe
  BY StapelTyp
<1>2. e \in Aufrufe
  BY <1>1 DEF Aufrufe
<1>3. stapel' = [stapel EXCEPT ![Tiefe] = e]
  BY DEF Weiter, Aufruf, Tiefe
<1> HIDE DEF e
<1> QED
  BY <1>1, <1>2, <1>3, ExceptSeq DEF Tiefe, e

(* A new call on top of the others.                                        *)
LEMMA NeuerAufruf ==
  ASSUME TypeOK, NEW f \in offen, canix_frame_send(f)
  PROVE  /\ stapel' \in Seq(Aufrufe) /\ Tiefe' = Tiefe + 1
         /\ \A j \in 1..Tiefe : stapel'[j] = stapel[j]
         /\ stapel'[Tiefe + 1] = [f |-> f, wo |-> "sendable", k |-> 0]
<1> DEFINE e == [f |-> f, wo |-> "sendable", k |-> 0]
<1>1. stapel \in Seq(Aufrufe) /\ Tiefe \in Nat
  BY StapelTyp
<1>2. e \in Aufrufe
  BY SendenAssumption DEF Aufrufe, Orte, TypeOK
<1>3. stapel' = Append(stapel, e)
  BY DEF canix_frame_send, Aufruf
<1> HIDE DEF e
<1> QED
  BY <1>1, <1>2, <1>3, AppendProperties DEF Tiefe, e

(* The innermost call returns.                                             *)
LEMMA Rueckkehr ==
  ASSUME TypeOK, zurueck
  PROVE  /\ stapel' \in Seq(Aufrufe) /\ Tiefe' = Tiefe - 1 /\ Tiefe \in 1..Tiefe
         /\ \A j \in 1..Tiefe : j < Tiefe => stapel'[j] = stapel[j]
<1>1. /\ stapel \in Seq(Aufrufe) /\ Tiefe \in 1..Tiefe
      /\ \A j \in 1..Tiefe : stapel[j] \in Aufrufe
  BY StapelTyp DEF zurueck, Bei
<1>2. stapel' = SubSeq(stapel, 1, Tiefe - 1)
  BY DEF zurueck, Tiefe
<1>3. /\ 1 \in Int /\ Tiefe - 1 \in Int /\ Tiefe \in Nat
      /\ \A j \in 1..(Tiefe - 1) : stapel[j] \in Aufrufe
  BY <1>1, StapelTyp
<1>4. /\ SubSeq(stapel, 1, Tiefe - 1) \in Seq(Aufrufe)
      /\ Len(SubSeq(stapel, 1, Tiefe - 1)) = IF 1 <= Tiefe - 1 THEN Tiefe - 1 - 1 + 1 ELSE 0
      /\ \A i \in 1..(Tiefe - 1 - 1 + 1) : SubSeq(stapel, 1, Tiefe - 1)[i] = stapel[1 + i - 1]
  BY <1>3, SubSeqProperties
<1>5. Len(stapel') = Tiefe - 1
  BY <1>1, <1>2, <1>3, <1>4
<1>6. ASSUME NEW j \in 1..Tiefe, j < Tiefe PROVE stapel'[j] = stapel[j]
  <2>1. j \in 1..(Tiefe - 1 - 1 + 1) /\ 1 + j - 1 = j
    BY <1>3, <1>6
  <2> QED BY <1>2, <1>4, <2>1
<1> QED
  BY <1>1, <1>2, <1>4, <1>5, <1>6 DEF Tiefe
-----------------------------------------------------------------------------
(* What a call may be doing, and the part of the types about the stack.    *)
Gueltig(wo, k) == /\ wo \in Orte /\ k \in 0..(MAX_FRAME_CALLBACKS + 2)
                  /\ wo \in Frueh => k \in TxBuffer
                  /\ wo = "callback" => k \in Callbacks
StapelOK == /\ stapel \in Seq(Aufrufe)
            /\ \A j \in 1..Tiefe : Gueltig(stapel[j].wo, stapel[j].k)

LEMMA TypeOKStapel ==
  TypeOK <=> /\ offen \subseteq Frames
             /\ tx \in [TxBuffer -> Frames \cup {Leer}]
             /\ uebertragen \subseteq Frames /\ verworfen \subseteq Frames
             /\ canix_tx_sent \in Nat /\ canix_tx_dropped \in Nat
             /\ StapelOK
             /\ zugestellt \in Seq(Frames \X Callbacks)
<1>1. stapel \in Seq(Aufrufe) =>
        \A j \in 1..Tiefe : stapel[j].wo \in Orte /\ stapel[j].k \in 0..(MAX_FRAME_CALLBACKS + 2)
  <2>1. ASSUME stapel \in Seq(Aufrufe), NEW j \in 1..Tiefe PROVE stapel[j] \in Aufrufe
    BY <2>1, ElementOfSeq DEF Tiefe
  <2> QED BY <2>1 DEF Aufrufe
<1> QED
  BY <1>1 DEF TypeOK, StapelOK, Gueltig, Aufrufe, Frueh, Tiefe

LEMMA TypeOKStapelPrime ==
  TypeOK' <=> /\ offen' \subseteq Frames
              /\ tx' \in [TxBuffer -> Frames \cup {Leer}]
              /\ uebertragen' \subseteq Frames /\ verworfen' \subseteq Frames
              /\ canix_tx_sent' \in Nat /\ canix_tx_dropped' \in Nat
              /\ StapelOK'
              /\ zugestellt' \in Seq(Frames \X Callbacks)
<1>1. stapel' \in Seq(Aufrufe) =>
        \A j \in 1..Tiefe' :
          stapel'[j].wo \in Orte /\ stapel'[j].k \in 0..(MAX_FRAME_CALLBACKS + 2)
  <2>1. ASSUME stapel' \in Seq(Aufrufe), NEW j \in 1..Tiefe' PROVE stapel'[j] \in Aufrufe
    BY <2>1, ElementOfSeq DEF Tiefe
  <2> QED BY <2>1 DEF Aufrufe
<1> QED
  BY <1>1 DEF TypeOK, StapelOK, Gueltig, Aufrufe, Frueh, Tiefe

LEMMA WeiterOrdnung ==
  ASSUME TypeOK, Stapelordnung, stapel # <<>>, NEW wo, NEW k, Gueltig(wo, k),
         Weiter(wo, k), offen' = offen
  PROVE  StapelOK' /\ Stapelordnung'
<1>1. wo \in Orte /\ k \in 0..(MAX_FRAME_CALLBACKS + 2)
  BY DEF Gueltig
<1>2. /\ stapel' \in Seq(Aufrufe) /\ Tiefe' = Tiefe
      /\ \A j \in 1..Tiefe : j # Tiefe => stapel'[j] = stapel[j]
      /\ stapel'[Tiefe] = [f |-> oben.f, wo |-> wo, k |-> k]
  BY <1>1, WeiterStapel
<1>3. Tiefe \in Nat /\ Tiefe \in 1..Tiefe /\ oben = stapel[Tiefe]
  BY StapelTyp DEF oben, Tiefe
<1>4. \A j \in 1..Tiefe : stapel'[j].f = stapel[j].f
  BY <1>2, <1>3
<1>5. StapelOK
  BY TypeOKStapel
<1>6. StapelOK'
  BY <1>2, <1>5 DEF StapelOK
<1>7. Stapelordnung'
  BY <1>2, <1>3, <1>4 DEF Stapelordnung
<1> QED
  BY <1>6, <1>7

LEMMA SendeOrdnung ==
  ASSUME TypeOK, Stapelordnung, NEW f \in offen, canix_frame_send(f)
  PROVE  StapelOK' /\ Stapelordnung'
<1>1. /\ stapel' \in Seq(Aufrufe) /\ Tiefe' = Tiefe + 1
      /\ \A j \in 1..Tiefe : stapel'[j] = stapel[j]
      /\ stapel'[Tiefe + 1] = [f |-> f, wo |-> "sendable", k |-> 0]
  BY NeuerAufruf
<1>2. Tiefe \in Nat /\ StapelOK /\ (stapel # <<>> => Tiefe \in 1..Tiefe)
  BY StapelTyp, TypeOKStapel
<1>3. Gueltig("sendable", 0)
  BY SendenAssumption DEF Gueltig, Orte, Frueh, TxBuffer
<1>4. StapelOK'
  BY <1>1, <1>2, <1>3 DEF StapelOK
<1>5. \A j \in 1..Tiefe : stapel[j].wo = "callback"
  <2>1. CASE stapel = <<>>
    BY <2>1 DEF Tiefe
  <2>2. CASE Bei("callback")
    BY <1>2, <2>2 DEF Bei, oben, Tiefe, Stapelordnung
  <2> QED
    BY <2>1, <2>2 DEF canix_frame_send
<1>6. offen' = offen \ {f}
  BY DEF canix_frame_send
<1>7. Stapelordnung'
  <2>1. \A j \in 1..(Tiefe + 1) : j < Tiefe + 1 => stapel'[j].wo = "callback"
    BY <1>1, <1>2, <1>5
  <2>2. \A j \in 1..(Tiefe + 1) : stapel'[j].f \notin offen'
    BY <1>1, <1>2, <1>6 DEF Stapelordnung
  <2>3. \A j \in 1..Tiefe : stapel[j].f # f
    BY DEF Stapelordnung
  <2>4. \A i, j \in 1..(Tiefe + 1) : stapel'[i].f = stapel'[j].f => i = j
    <3> SUFFICES ASSUME NEW i \in 1..(Tiefe + 1), NEW j \in 1..(Tiefe + 1),
                        stapel'[i].f = stapel'[j].f
                 PROVE  i = j
      OBVIOUS
    <3>1. (i \in 1..Tiefe \/ i = Tiefe + 1) /\ (j \in 1..Tiefe \/ j = Tiefe + 1)
      BY <1>2
    <3>2. stapel'[Tiefe + 1].f = f
      BY <1>1
    <3> QED BY <1>1, <2>3, <3>1, <3>2 DEF Stapelordnung
  <2> QED
    BY <1>1, <2>1, <2>2, <2>4 DEF Stapelordnung
<1> QED
  BY <1>4, <1>7

LEMMA RueckkehrOrdnung ==
  ASSUME TypeOK, Stapelordnung, zurueck PROVE StapelOK' /\ Stapelordnung'
<1>1. /\ stapel' \in Seq(Aufrufe) /\ Tiefe' = Tiefe - 1 /\ Tiefe \in 1..Tiefe
      /\ \A j \in 1..Tiefe : j < Tiefe => stapel'[j] = stapel[j]
  BY Rueckkehr
<1>2. Tiefe \in Nat /\ StapelOK
  BY StapelTyp, TypeOKStapel
<1>3. \A j \in 1..(Tiefe - 1) : j \in 1..Tiefe /\ stapel'[j] = stapel[j]
  BY <1>1, <1>2
<1>4. offen' = offen
  BY DEF zurueck
<1>5. StapelOK'
  BY <1>1, <1>2, <1>3 DEF StapelOK
<1>6. \A j \in 1..(Tiefe - 1) : j < Tiefe
  BY <1>2
<1>7. Stapelordnung'
  BY <1>1, <1>3, <1>4, <1>6 DEF Stapelordnung
<1> QED
  BY <1>5, <1>7
-----------------------------------------------------------------------------
(* A step of the innermost call that fills no buffer.                      *)
LEMMA WeiterPuffer ==
  ASSUME Ordnung, stapel # <<>>, NEW wo, NEW k, Gueltig(wo, k), Weiter(wo, k),
         UNCHANGED <<offen, tx, uebertragen>>,
         wo \in Frueh => oben.wo \in Frueh,
         wo = "fuellen" => tx[k] = Leer,
         verworfen \subseteq verworfen',
         oben.wo \in Frueh /\ wo \notin Frueh => oben.f \in verworfen'
  PROVE  StapelOK' /\ Stapelordnung' /\ Puffer' /\ Verblieben'
<1>1. StapelOK' /\ Stapelordnung'
  BY WeiterOrdnung DEF Ordnung
<1>2. /\ Tiefe' = Tiefe
      /\ \A j \in 1..Tiefe : j # Tiefe => stapel'[j] = stapel[j]
      /\ stapel'[Tiefe] = [f |-> oben.f, wo |-> wo, k |-> k]
  BY WeiterStapel DEF Ordnung, Gueltig
<1>3. Tiefe \in 1..Tiefe /\ oben = stapel[Tiefe]
  BY StapelTyp DEF oben, Tiefe, Ordnung
<1>4. \A j \in 1..Tiefe : /\ stapel'[j].f = stapel[j].f
                          /\ stapel'[j].wo \in Frueh => stapel[j].wo \in Frueh
                          /\ stapel'[j].wo = "fuellen" => tx[stapel'[j].k] = Leer
  BY <1>2, <1>3 DEF Ordnung, Puffer
<1>5. Puffer'
  BY <1>2, <1>4 DEF Ordnung, Puffer
<1>6. Verblieben'
  <2> SUFFICES ASSUME NEW g \in Frames
               PROVE  \/ g \in offen' \/ Unterwegs(g)' \/ g \in uebertragen' \/ g \in verworfen'
                      \/ \E l \in TxBuffer : tx'[l] = g
    BY DEF Verblieben
  <2>1. CASE Unterwegs(g)
    <3>1. PICK j \in 1..Tiefe : stapel[j].f = g /\ stapel[j].wo \in Frueh
      BY <2>1 DEF Unterwegs
    <3>2. CASE j # Tiefe \/ wo \in Frueh
      <4>1. stapel'[j].f = g /\ stapel'[j].wo \in Frueh
        BY <1>2, <1>3, <3>1, <3>2
      <4> QED BY <1>2, <4>1 DEF Unterwegs
    <3>3. CASE j = Tiefe /\ wo \notin Frueh
      BY <1>3, <3>1, <3>3
    <3> QED BY <3>2, <3>3
  <2>2. CASE ~Unterwegs(g)
    BY <2>2 DEF Ordnung, Verblieben
  <2> QED BY <2>1, <2>2
<1> QED
  BY <1>1, <1>5, <1>6

(* The buffer is filled: the frame changes from the call to the buffer.    *)
LEMMA FuellenPuffer ==
  ASSUME Ordnung, fuellen
  PROVE  StapelOK' /\ Stapelordnung' /\ Puffer' /\ Verblieben'
<1>t. TypeOK /\ Stapelordnung /\ Puffer /\ Verblieben
  BY DEF Ordnung
<1>1. /\ stapel # <<>> /\ oben.wo = "fuellen" /\ Weiter("zustellen", 0)
      /\ tx' = [tx EXCEPT ![oben.k] = oben.f]
      /\ UNCHANGED <<offen, uebertragen, verworfen>>
  BY DEF fuellen, Bei
<1>2. Gueltig("zustellen", 0)
  BY SendenAssumption DEF Gueltig, Orte, Frueh
<1>3. StapelOK' /\ Stapelordnung'
  BY <1>t, <1>1, <1>2, WeiterOrdnung
<1>4. /\ Tiefe' = Tiefe
      /\ \A j \in 1..Tiefe : j # Tiefe => stapel'[j] = stapel[j]
      /\ stapel'[Tiefe] = [f |-> oben.f, wo |-> "zustellen", k |-> 0]
  BY <1>t, <1>1, <1>2, WeiterStapel DEF Gueltig
<1>5. /\ Tiefe \in 1..Tiefe /\ oben = stapel[Tiefe] /\ Tiefe \in Nat
      /\ oben.k \in TxBuffer /\ oben.f \in Frames
  <2>1. Tiefe \in 1..Tiefe /\ oben = stapel[Tiefe] /\ Tiefe \in Nat /\ oben \in Aufrufe
    BY <1>t, <1>1, StapelTyp DEF oben, Tiefe
  <2>2. oben.k \in TxBuffer
    BY <1>t, <1>1, <2>1, TypeOKStapel DEF StapelOK, Gueltig, Frueh
  <2> QED BY <2>1, <2>2 DEF Aufrufe
<1>6. \A j \in 1..Tiefe : stapel'[j].wo \notin Frueh
  <2> SUFFICES ASSUME NEW j \in 1..Tiefe PROVE stapel'[j].wo \notin Frueh
    OBVIOUS
  <2>1. CASE j = Tiefe
    BY <1>4, <2>1 DEF Frueh
  <2>2. CASE j # Tiefe
    <3>1. j < Tiefe
      BY <1>5, <2>2
    <3> QED BY <1>t, <1>4, <2>2, <3>1 DEF Stapelordnung, Frueh
  <2> QED BY <2>1, <2>2
<1>7. /\ tx'[oben.k] = oben.f
      /\ \A l \in TxBuffer : l # oben.k => tx'[l] = tx[l]
      /\ tx[oben.k] = Leer /\ oben.f \notin offen
      /\ \A l \in TxBuffer : tx[l] # oben.f
  BY <1>t, <1>1, <1>5 DEF TypeOK, Puffer, Stapelordnung, Frueh
<1>8. Puffer'
  <2>1. \A j \in 1..Tiefe : stapel'[j].wo # "fuellen"
    BY <1>6 DEF Frueh
  <2>2. \A l \in TxBuffer : tx'[l] # Leer => tx'[l] \notin offen'
    BY <1>t, <1>1, <1>7 DEF Puffer
  <2>3. \A l, m \in TxBuffer : tx'[l] = tx'[m] /\ tx'[l] # Leer => l = m
    BY <1>t, <1>7 DEF Puffer
  <2> QED
    BY <1>4, <1>6, <2>1, <2>2, <2>3 DEF Puffer
<1>9. Verblieben'
  <2> SUFFICES ASSUME NEW g \in Frames
               PROVE  \/ g \in offen' \/ Unterwegs(g)' \/ g \in uebertragen' \/ g \in verworfen'
                      \/ \E l \in TxBuffer : tx'[l] = g
    BY DEF Verblieben
  <2>1. CASE Unterwegs(g)
    <3>1. PICK j \in 1..Tiefe : stapel[j].f = g /\ stapel[j].wo \in Frueh
      BY <2>1 DEF Unterwegs
    <3>2. j = Tiefe
      <4>1. CASE j < Tiefe
        BY <1>t, <3>1, <4>1 DEF Stapelordnung, Frueh
      <4> QED BY <1>5, <4>1
    <3> QED BY <1>5, <1>7, <3>1, <3>2
  <2>2. CASE ~Unterwegs(g)
    <3>1. g # Leer
      BY SendenAssumption
    <3> QED BY <1>t, <1>1, <1>7, <2>2, <3>1 DEF Verblieben
  <2> QED BY <2>1, <2>2
<1> QED
  BY <1>3, <1>8, <1>9

LEMMA SendePuffer ==
  ASSUME Ordnung, NEW f \in offen, canix_frame_send(f)
  PROVE  StapelOK' /\ Stapelordnung' /\ Puffer' /\ Verblieben'
<1>t. TypeOK /\ Stapelordnung /\ Puffer /\ Verblieben
  BY DEF Ordnung
<1>1. StapelOK' /\ Stapelordnung'
  BY <1>t, SendeOrdnung
<1>2. /\ Tiefe' = Tiefe + 1
      /\ \A j \in 1..Tiefe : stapel'[j] = stapel[j]
      /\ stapel'[Tiefe + 1] = [f |-> f, wo |-> "sendable", k |-> 0]
  BY <1>t, NeuerAufruf
<1>3. Tiefe \in Nat /\ f \in Frames /\ f # Leer
  BY <1>t, StapelTyp, SendenAssumption DEF TypeOK
<1>4. offen' = offen \ {f} /\ UNCHANGED <<tx, uebertragen, verworfen>>
  BY DEF canix_frame_send
<1>5. \A j \in 1..(Tiefe + 1) : j \in 1..Tiefe \/ j = Tiefe + 1
  BY <1>3
<1>6. \A l \in TxBuffer : tx[l] # f
  BY <1>t, <1>3 DEF Puffer
<1>7. Puffer'
  <2>1. \A j \in 1..(Tiefe + 1) : stapel'[j].wo = "fuellen" => tx[stapel'[j].k] = Leer
    BY <1>t, <1>2, <1>5 DEF Puffer
  <2>2. \A l \in TxBuffer, j \in 1..(Tiefe + 1) :
          stapel'[j].wo \in Frueh => stapel'[j].f # tx[l]
    BY <1>t, <1>2, <1>5, <1>6 DEF Puffer
  <2> QED
    BY <1>t, <1>2, <1>4, <2>1, <2>2 DEF Puffer
<1>8. Verblieben'
  <2> SUFFICES ASSUME NEW g \in Frames
               PROVE  \/ g \in offen' \/ Unterwegs(g)' \/ g \in uebertragen' \/ g \in verworfen'
                      \/ \E l \in TxBuffer : tx'[l] = g
    BY DEF Verblieben
  <2>1. CASE g = f
    <3>1. Tiefe + 1 \in 1..(Tiefe + 1)
      BY <1>3
    <3> QED BY <1>2, <2>1, <3>1 DEF Unterwegs, Frueh
  <2>2. CASE Unterwegs(g)
    <3>1. PICK j \in 1..Tiefe : stapel[j].f = g /\ stapel[j].wo \in Frueh
      BY <2>2 DEF Unterwegs
    <3>2. j \in 1..(Tiefe + 1)
      BY <1>3
    <3> QED BY <1>2, <3>1, <3>2 DEF Unterwegs
  <2>3. CASE g # f /\ ~Unterwegs(g)
    BY <1>t, <1>4, <2>3 DEF Verblieben
  <2> QED BY <2>1, <2>2, <2>3
<1> QED
  BY <1>1, <1>7, <1>8

LEMMA RueckkehrPuffer ==
  ASSUME Ordnung, zurueck
  PROVE  StapelOK' /\ Stapelordnung' /\ Puffer' /\ Verblieben'
<1>t. TypeOK /\ Stapelordnung /\ Puffer /\ Verblieben
  BY DEF Ordnung
<1>1. StapelOK' /\ Stapelordnung'
  BY <1>t, RueckkehrOrdnung
<1>2. /\ Tiefe' = Tiefe - 1 /\ Tiefe \in 1..Tiefe
      /\ \A j \in 1..Tiefe : j < Tiefe => stapel'[j] = stapel[j]
  BY <1>t, Rueckkehr
<1>3. Tiefe \in Nat /\ \A j \in 1..(Tiefe - 1) : j \in 1..Tiefe /\ j < Tiefe
  BY <1>t, StapelTyp
<1>4. \A j \in 1..(Tiefe - 1) : j \in 1..Tiefe /\ stapel'[j] = stapel[j]
  BY <1>2, <1>3
<1>5. UNCHANGED <<offen, tx, uebertragen, verworfen>> /\ stapel[Tiefe].wo = "zustellen"
  BY DEF zurueck, Bei, oben, Tiefe
<1>6. Puffer'
  BY <1>t, <1>2, <1>4, <1>5 DEF Puffer
<1>7. Verblieben'
  <2> SUFFICES ASSUME NEW g \in Frames
               PROVE  \/ g \in offen' \/ Unterwegs(g)' \/ g \in uebertragen' \/ g \in verworfen'
                      \/ \E l \in TxBuffer : tx'[l] = g
    BY DEF Verblieben
  <2>1. CASE Unterwegs(g)
    <3>1. PICK j \in 1..Tiefe : stapel[j].f = g /\ stapel[j].wo \in Frueh
      BY <2>1 DEF Unterwegs
    <3>2. j # Tiefe
      BY <1>5, <3>1 DEF Frueh
    <3>3. j \in 1..(Tiefe - 1)
      BY <1>3, <3>2
    <3> QED BY <1>2, <1>4, <3>1, <3>3 DEF Unterwegs
  <2>2. CASE ~Unterwegs(g)
    BY <1>t, <1>5, <2>2 DEF Verblieben
  <2> QED BY <2>1, <2>2
<1> QED
  BY <1>1, <1>6, <1>7

LEMMA BusPuffer ==
  ASSUME Ordnung, NEW k \in TxBuffer, Bus(k)
  PROVE  StapelOK' /\ Stapelordnung' /\ Puffer' /\ Verblieben'
<1>t. TypeOK /\ Stapelordnung /\ Puffer /\ Verblieben /\ StapelOK
  BY TypeOKStapel DEF Ordnung
<1>1. /\ UNCHANGED <<offen, stapel, verworfen>> /\ Tiefe' = Tiefe
      /\ uebertragen' = uebertragen \cup {tx[k]}
  BY DEF Bus, Tiefe
<1>2. tx'[k] = Leer /\ \A l \in TxBuffer : l # k => tx'[l] = tx[l]
  BY <1>t DEF Bus, TypeOK
<1>3. StapelOK' /\ Stapelordnung'
  BY <1>t, <1>1 DEF StapelOK, Stapelordnung
<1>4. \A j \in 1..Tiefe : stapel[j].f # Leer /\ (stapel[j].wo \in Frueh => stapel[j].k \in TxBuffer)
  <2>1. \A j \in 1..Tiefe : stapel[j] \in Aufrufe
    BY <1>t, StapelTyp
  <2> QED BY <1>t, <2>1, SendenAssumption DEF StapelOK, Gueltig, Aufrufe
<1>5. Puffer'
  <2>1. \A j \in 1..Tiefe : stapel[j].wo = "fuellen" => tx'[stapel[j].k] = Leer
    BY <1>t, <1>2, <1>4 DEF Puffer, Frueh
  <2>2. \A l \in TxBuffer, j \in 1..Tiefe : stapel[j].wo \in Frueh => stapel[j].f # tx'[l]
    BY <1>t, <1>2, <1>4 DEF Puffer
  <2>3. /\ \A l \in TxBuffer : tx'[l] # Leer => tx'[l] \notin offen
        /\ \A l, m \in TxBuffer : tx'[l] = tx'[m] /\ tx'[l] # Leer => l = m
    BY <1>t, <1>2 DEF Puffer
  <2> QED
    BY <1>1, <2>1, <2>2, <2>3 DEF Puffer
<1>6. Verblieben'
  BY <1>t, <1>1, <1>2 DEF Verblieben, Unterwegs
<1> QED
  BY <1>3, <1>5, <1>6

(* What the innermost call is about.                                       *)
LEMMA Oberster ==
  ASSUME TypeOK, NEW wo, Bei(wo)
  PROVE  /\ stapel # <<>> /\ oben.wo = wo /\ oben = stapel[Tiefe]
         /\ Tiefe \in 1..Tiefe /\ Tiefe \in Nat
         /\ oben.f \in Frames /\ Gueltig(oben.wo, oben.k)
<1>1. stapel # <<>> /\ oben.wo = wo /\ oben = stapel[Tiefe]
  BY DEF Bei, oben, Tiefe
<1>2. Tiefe \in 1..Tiefe /\ Tiefe \in Nat /\ oben \in Aufrufe
  BY <1>1, StapelTyp
<1>3. Gueltig(oben.wo, oben.k)
  BY <1>1, <1>2, TypeOKStapel DEF StapelOK
<1> QED
  BY <1>1, <1>2, <1>3 DEF Aufrufe

LEMMA OrdnungBleibt == Ordnung /\ [Next]_vars => Ordnung'
<1> SUFFICES ASSUME Ordnung, [Next]_vars PROVE Ordnung'
  OBVIOUS
<1>t. /\ TypeOK /\ StapelOK
      /\ offen \subseteq Frames /\ tx \in [TxBuffer -> Frames \cup {Leer}]
      /\ uebertragen \subseteq Frames /\ verworfen \subseteq Frames
      /\ canix_tx_sent \in Nat /\ canix_tx_dropped \in Nat
      /\ zugestellt \in Seq(Frames \X Callbacks)
  BY TypeOKStapel DEF Ordnung
<1>f. Frueh = {"sendable", "waehlen", "fuellen"}
  BY DEF Frueh
<1>g. \A wo \in Orte : wo \notin Frueh /\ wo # "callback" => Gueltig(wo, 0)
  BY SendenAssumption DEF Gueltig
<1>h. \A wo \in Frueh : \A k \in TxBuffer : Gueltig(wo, k)
  BY SendenAssumption DEF Gueltig, Frueh, Orte, TxBuffer
<1>i. \A wo \in Frueh : \A k : Gueltig(wo, k) => k \in TxBuffer
  BY DEF Gueltig
<1>1. ASSUME NEW k \in TxBuffer, Bus(k) PROVE Ordnung'
  <2>1. StapelOK' /\ Stapelordnung' /\ Puffer' /\ Verblieben'
    BY <1>1, BusPuffer
  <2>2. TypeOK'
    <3>1. /\ tx' \in [TxBuffer -> Frames \cup {Leer}] /\ uebertragen' \subseteq Frames
          /\ UNCHANGED <<offen, canix_tx_sent, canix_tx_dropped, zugestellt, verworfen>>
      BY <1>t, <1>1 DEF Bus
    <3> QED BY <1>t, <2>1, <3>1, TypeOKStapelPrime
  <2> QED BY <2>1, <2>2 DEF Ordnung
<1>2. ASSUME NEW f \in offen, canix_frame_send(f) PROVE Ordnung'
  <2>1. StapelOK' /\ Stapelordnung' /\ Puffer' /\ Verblieben'
    BY <1>2, SendePuffer
  <2>2. TypeOK'
    BY <1>t, <1>2, <2>1, TypeOKStapelPrime DEF canix_frame_send
  <2> QED BY <2>1, <2>2 DEF Ordnung
<1>3. CASE any_frei
  <2>1. Bei("sendable") /\ Weiter("waehlen", 0)
        /\ UNCHANGED <<offen, tx, uebertragen, canix_tx_sent, canix_tx_dropped, zugestellt, verworfen>>
    BY <1>3 DEF any_frei
  <2>2. stapel # <<>> /\ oben.wo = "sendable" /\ Gueltig("waehlen", 0)
    BY <1>t, <1>h, <2>1, Oberster DEF Frueh, TxBuffer
  <2>3. StapelOK' /\ Stapelordnung' /\ Puffer' /\ Verblieben'
    BY <1>f, <2>1, <2>2, WeiterPuffer
  <2> QED BY <1>t, <2>1, <2>3, TypeOKStapelPrime DEF Ordnung
<1>4. CASE any_belegt
  <2>1. /\ Bei("sendable")
        /\ UNCHANGED <<offen, tx, uebertragen, canix_tx_sent, canix_tx_dropped, zugestellt>>
    BY <1>4 DEF any_belegt
  <2>2. /\ stapel # <<>> /\ oben.wo = "sendable" /\ oben.k \in 0..2 /\ oben.f \in Frames
    BY <1>t, <1>i, <2>1, Oberster DEF Frueh, TxBuffer
  <2>3. CASE oben.k < 2
    <3>1. Weiter("sendable", oben.k + 1) /\ verworfen' = verworfen
      BY <1>4, <2>3 DEF any_belegt
    <3>2. Gueltig("sendable", oben.k + 1)
      BY <1>h, <2>2, <2>3 DEF Frueh, TxBuffer
    <3>3. StapelOK' /\ Stapelordnung' /\ Puffer' /\ Verblieben'
      BY <1>f, <2>1, <2>2, <3>1, <3>2, WeiterPuffer
    <3> QED BY <1>t, <2>1, <3>1, <3>3, TypeOKStapelPrime DEF Ordnung
  <2>4. CASE ~(oben.k < 2)
    <3>1. Weiter("zustellen", 0) /\ verworfen' = verworfen \cup {oben.f}
      BY <1>4, <2>4 DEF any_belegt
    <3>2. Gueltig("zustellen", 0)
      BY <1>g DEF Frueh, Orte
    <3>3. StapelOK' /\ Stapelordnung' /\ Puffer' /\ Verblieben'
      BY <1>f, <2>1, <2>2, <3>1, <3>2, WeiterPuffer
    <3> QED BY <1>t, <2>1, <2>2, <3>1, <3>3, TypeOKStapelPrime DEF Ordnung
  <2> QED BY <2>3, <2>4
<1>5. CASE waehlen_frei
  <2>1. /\ Bei("waehlen") /\ tx[oben.k] = Leer /\ Weiter("fuellen", oben.k)
        /\ UNCHANGED <<offen, tx, uebertragen, canix_tx_sent, canix_tx_dropped, zugestellt, verworfen>>
    BY <1>5 DEF waehlen_frei, can_sendable
  <2>2. stapel # <<>> /\ oben.wo = "waehlen" /\ Gueltig("fuellen", oben.k)
    BY <1>t, <1>h, <1>i, <2>1, Oberster DEF Frueh
  <2>3. StapelOK' /\ Stapelordnung' /\ Puffer' /\ Verblieben'
    BY <1>f, <2>1, <2>2, WeiterPuffer
  <2> QED BY <1>t, <2>1, <2>3, TypeOKStapelPrime DEF Ordnung
<1>6. CASE waehlen_belegt
  <2>1. /\ Bei("waehlen")
        /\ UNCHANGED <<offen, tx, uebertragen, canix_tx_sent, zugestellt>>
    BY <1>6 DEF waehlen_belegt
  <2>2. /\ stapel # <<>> /\ oben.wo = "waehlen" /\ oben.k \in 0..2 /\ oben.f \in Frames
    BY <1>t, <1>i, <2>1, Oberster DEF Frueh, TxBuffer
  <2>3. CASE oben.k < 2
    <3>1. Weiter("waehlen", oben.k + 1) /\ UNCHANGED <<canix_tx_dropped, verworfen>>
      BY <1>6, <2>3 DEF waehlen_belegt
    <3>2. Gueltig("waehlen", oben.k + 1)
      BY <1>h, <2>2, <2>3 DEF Frueh, TxBuffer
    <3>3. StapelOK' /\ Stapelordnung' /\ Puffer' /\ Verblieben'
      BY <1>f, <2>1, <2>2, <3>1, <3>2, WeiterPuffer
    <3> QED BY <1>t, <2>1, <3>1, <3>3, TypeOKStapelPrime DEF Ordnung
  <2>4. CASE ~(oben.k < 2)
    <3>1. /\ Weiter("zustellen", 0) /\ verworfen' = verworfen \cup {oben.f}
          /\ canix_tx_dropped' = canix_tx_dropped + 1
      BY <1>6, <2>4 DEF waehlen_belegt
    <3>2. Gueltig("zustellen", 0)
      BY <1>g DEF Frueh, Orte
    <3>3. StapelOK' /\ Stapelordnung' /\ Puffer' /\ Verblieben'
      BY <1>f, <2>1, <2>2, <3>1, <3>2, WeiterPuffer
    <3>4. canix_tx_dropped' \in Nat
      BY <1>t, <3>1
    <3> QED BY <1>t, <2>1, <2>2, <3>1, <3>3, <3>4, TypeOKStapelPrime DEF Ordnung
  <2> QED BY <2>3, <2>4
<1>7. CASE fuellen
  <2>1. StapelOK' /\ Stapelordnung' /\ Puffer' /\ Verblieben'
    BY <1>7, FuellenPuffer
  <2>2. oben.f \in Frames
    BY <1>t, <1>7, Oberster DEF fuellen
  <2>3. tx' \in [TxBuffer -> Frames \cup {Leer}]
    BY <1>t, <1>7, <2>2 DEF fuellen
  <2>4. canix_tx_sent' = canix_tx_sent + 1
        /\ UNCHANGED <<offen, uebertragen, canix_tx_dropped, zugestellt, verworfen>>
    BY <1>7 DEF fuellen
  <2>5. canix_tx_sent' \in Nat
    BY <1>t, <2>4
  <2> QED BY <1>t, <2>1, <2>3, <2>4, <2>5, TypeOKStapelPrime DEF Ordnung
<1>8. CASE zustellen
  <2>1. /\ Bei("zustellen") /\ oben.k < MAX_FRAME_CALLBACKS
        /\ UNCHANGED <<offen, tx, uebertragen, canix_tx_sent, canix_tx_dropped, verworfen>>
    BY <1>8 DEF zustellen
  <2>2. stapel # <<>> /\ oben.wo = "zustellen" /\ oben.f \in Frames /\ Gueltig("zustellen", oben.k)
    BY <1>t, <2>1, Oberster
  <2>3. /\ oben.k \in Callbacks /\ Gueltig("callback", oben.k) /\ Gueltig("zustellen", oben.k + 1)
    BY <2>1, <2>2, SendenAssumption DEF Gueltig, Callbacks, Frueh, Orte
  <2>4. CASE passt(oben.k, oben.f)
    <3>1. Weiter("callback", oben.k) /\ zugestellt' = Append(zugestellt, <<oben.f, oben.k>>)
      BY <1>8, <2>4 DEF zustellen
    <3>2. StapelOK' /\ Stapelordnung' /\ Puffer' /\ Verblieben'
      BY <1>f, <2>1, <2>2, <2>3, <3>1, WeiterPuffer
    <3>3. zugestellt' \in Seq(Frames \X Callbacks)
      BY <1>t, <2>2, <2>3, <3>1, AppendProperties
    <3> QED BY <1>t, <2>1, <3>2, <3>3, TypeOKStapelPrime DEF Ordnung
  <2>5. CASE ~passt(oben.k, oben.f)
    <3>1. Weiter("zustellen", oben.k + 1) /\ zugestellt' = zugestellt
      BY <1>8, <2>5 DEF zustellen
    <3>2. StapelOK' /\ Stapelordnung' /\ Puffer' /\ Verblieben'
      BY <1>f, <2>1, <2>2, <2>3, <3>1, WeiterPuffer
    <3> QED BY <1>t, <2>1, <3>1, <3>2, TypeOKStapelPrime DEF Ordnung
  <2> QED BY <2>4, <2>5
<1>9. CASE callback_zurueck
  <2>1. /\ Bei("callback") /\ Weiter("zustellen", oben.k + 1)
        /\ UNCHANGED <<offen, tx, uebertragen, canix_tx_sent, canix_tx_dropped, zugestellt, verworfen>>
    BY <1>9 DEF callback_zurueck
  <2>2. stapel # <<>> /\ oben.wo = "callback" /\ Gueltig("callback", oben.k)
    BY <1>t, <2>1, Oberster
  <2>3. Gueltig("zustellen", oben.k + 1)
    BY <2>2, SendenAssumption DEF Gueltig, Callbacks, Frueh, Orte
  <2>4. StapelOK' /\ Stapelordnung' /\ Puffer' /\ Verblieben'
    BY <1>f, <2>1, <2>2, <2>3, WeiterPuffer
  <2> QED BY <1>t, <2>1, <2>4, TypeOKStapelPrime DEF Ordnung
<1>10. CASE zurueck
  <2>1. StapelOK' /\ Stapelordnung' /\ Puffer' /\ Verblieben'
    BY <1>10, RueckkehrPuffer
  <2> QED BY <1>t, <1>10, <2>1, TypeOKStapelPrime DEF Ordnung, zurueck
<1>11. CASE UNCHANGED vars
  BY <1>11 DEF vars, Ordnung, TypeOK, Stapelordnung, Puffer, Verblieben, Unterwegs, Tiefe
<1> QED
  BY <1>1, <1>2, <1>3, <1>4, <1>5, <1>6, <1>7, <1>8, <1>9, <1>10, <1>11 DEF Next

LEMMA InitOrdnung == Init => Ordnung
<1> SUFFICES ASSUME Init PROVE Ordnung
  OBVIOUS
<1>1. stapel = <<>> /\ Tiefe = 0 /\ stapel \in Seq(Aufrufe) /\ zugestellt \in Seq(Frames \X Callbacks)
  BY DEF Init, Tiefe
<1>2. \A j : j \notin 1..Tiefe
  BY <1>1
<1>3. TypeOK
  BY <1>1, <1>2, TypeOKStapel DEF Init, StapelOK
<1>4. Stapelordnung
  BY <1>2 DEF Stapelordnung
<1>5. Puffer
  BY <1>2 DEF Puffer, Init
<1> QED
  BY <1>3, <1>4, <1>5 DEF Ordnung, Verblieben, Init

(* The types hold in every state of every run of the sending code.         *)
THEOREM TypKorrekt == Spec => []TypeOK
<1>1. Ordnung => TypeOK
  BY DEF Ordnung
<1> QED
  BY InitOrdnung, OrdnungBleibt, <1>1, PTL DEF Spec

(* canix_frame_send never writes a frame into a transmit buffer that still *)
(* holds another one, and no frame vanishes between its call and the bus:  *)
(* the buffer chosen before the call goes on is free when it is filled.    *)
THEOREM FrameBleibtErhalten == Spec => []NieUeberschrieben
<1>1. Ordnung => NieUeberschrieben
  <2> SUFFICES ASSUME Ordnung, NEW f \in Frames
               PROVE  /\ Cardinality({k \in TxBuffer : tx[k] = f}) <= 1
                      /\ \/ f \in offen
                         \/ \E j \in 1..Len(stapel) :
                              stapel[j].f = f /\ stapel[j].wo \in {"sendable", "waehlen", "fuellen"}
                         \/ f \in uebertragen \cup verworfen
                         \/ {k \in TxBuffer : tx[k] = f} # {}
    BY DEF NieUeberschrieben
  <2>1. Cardinality({k \in TxBuffer : tx[k] = f}) <= 1
    <3>1. CASE {k \in TxBuffer : tx[k] = f} = {}
      BY <3>1, FS_EmptySet
    <3>2. CASE \E k \in TxBuffer : tx[k] = f
      <4>1. PICK k \in TxBuffer : tx[k] = f
        BY <3>2
      <4>2. f # Leer
        BY SendenAssumption
      <4>3. {l \in TxBuffer : tx[l] = f} = {k}
        BY <4>1, <4>2 DEF Ordnung, Puffer
      <4> QED BY <4>3, FS_Singleton
    <3> QED BY <3>1, <3>2
  <2>2. \/ f \in offen \/ Unterwegs(f) \/ f \in uebertragen \/ f \in verworfen
        \/ \E k \in TxBuffer : tx[k] = f
    BY DEF Ordnung, Verblieben
  <2> QED
    BY <2>1, <2>2 DEF Unterwegs, Frueh, Tiefe
<1> QED
  BY InitOrdnung, OrdnungBleibt, <1>1, PTL DEF Spec
-----------------------------------------------------------------------------
(* How far the local delivery of a call has got: the callbacks below this  *)
(* index have been asked.                                                  *)
Grenze(e) == IF e.wo = "zustellen" THEN e.k
             ELSE IF e.wo = "callback" THEN e.k + 1
             ELSE 0
Zu(f, i) == \E n \in 1..Len(zugestellt) : zugestellt[n] = <<f, i>>
Reihenfolge == \A m, n \in 1..Len(zugestellt) :
                 m < n /\ zugestellt[m][1] = zugestellt[n][1]
                   => zugestellt[m][2] < zugestellt[n][2]

(* A call has delivered its frame to the matching callbacks it has already *)
(* asked, and to no other one.                                             *)
Zustellung ==
  /\ \A f \in offen, i \in Callbacks : ~Zu(f, i)
  /\ \A j \in 1..Tiefe, i \in Callbacks :
       Zu(stapel[j].f, i) <=> i < Grenze(stapel[j]) /\ passt(i, stapel[j].f)
  /\ \A f \in Frames : Fertig(f) => \A i \in Callbacks : Zu(f, i) <=> passt(i, f)
  /\ Reihenfolge

(* A step of the innermost call that delivers nothing and moves its limit  *)
(* over no matching callback.                                              *)
LEMMA WeiterZustellung ==
  ASSUME Ordnung, Zustellung, stapel # <<>>, NEW wo, NEW k, Gueltig(wo, k), Weiter(wo, k),
         UNCHANGED <<offen, zugestellt>>,
         \A i \in Callbacks : passt(i, oben.f) =>
           (i < Grenze(oben) <=> i < Grenze([f |-> oben.f, wo |-> wo, k |-> k]))
  PROVE  Zustellung'
<1> DEFINE e == [f |-> oben.f, wo |-> wo, k |-> k]
<1>1. /\ Tiefe' = Tiefe
      /\ \A j \in 1..Tiefe : j # Tiefe => stapel'[j] = stapel[j]
      /\ stapel'[Tiefe] = e
  BY WeiterStapel DEF Ordnung, Gueltig
<1>2. Tiefe \in 1..Tiefe /\ oben = stapel[Tiefe]
  BY StapelTyp DEF oben, Tiefe, Ordnung
<1>3. e.f = oben.f
  OBVIOUS
<1> HIDE DEF e
<1>4. \A j \in 1..Tiefe : stapel'[j].f = stapel[j].f
  BY <1>1, <1>2, <1>3
<1>5. \A f, i : Zu(f, i)' <=> Zu(f, i)
  BY DEF Zu
<1>6. \A j \in 1..Tiefe, i \in Callbacks :
        Zu(stapel'[j].f, i) <=> i < Grenze(stapel'[j]) /\ passt(i, stapel'[j].f)
  <2> SUFFICES ASSUME NEW j \in 1..Tiefe, NEW i \in Callbacks
               PROVE  Zu(stapel'[j].f, i) <=> i < Grenze(stapel'[j]) /\ passt(i, stapel'[j].f)
    OBVIOUS
  <2>1. Zu(stapel[j].f, i) <=> i < Grenze(stapel[j]) /\ passt(i, stapel[j].f)
    BY DEF Zustellung
  <2>2. CASE j = Tiefe
    <3>1. passt(i, oben.f) => (i < Grenze(oben) <=> i < Grenze(e))
      BY DEF e
    <3> QED BY <1>1, <1>2, <1>3, <2>1, <2>2, <3>1
  <2>3. CASE j # Tiefe
    BY <1>1, <2>1, <2>3
  <2> QED BY <2>2, <2>3
<1>7. \A f \in Frames : Fertig(f)' => Fertig(f)
  BY <1>1, <1>4 DEF Fertig, Tiefe
<1>8. Reihenfolge'
  BY DEF Zustellung, Reihenfolge
<1>9. /\ \A f \in offen', i \in Callbacks : ~Zu(f, i)'
      /\ \A f \in Frames : Fertig(f)' => \A i \in Callbacks : Zu(f, i)' <=> passt(i, f)
  BY <1>5, <1>7 DEF Zustellung
<1>10. \A j \in 1..Tiefe', i \in Callbacks :
         Zu(stapel[j].f, i)' <=> i < Grenze(stapel'[j]) /\ passt(i, stapel'[j].f)
  BY <1>1, <1>5, <1>6
<1> QED
  BY <1>8, <1>9, <1>10 DEF Zustellung, Grenze, passt

(* The innermost call delivers its frame to the callback it has come to.   *)
LEMMA RufZustellung ==
  ASSUME Ordnung, Zustellung, zustellen, passt(oben.k, oben.f)
  PROVE  Zustellung'
<1> DEFINE e == [f |-> oben.f, wo |-> "callback", k |-> oben.k]
<1>t. TypeOK /\ Stapelordnung /\ zugestellt \in Seq(Frames \X Callbacks)
  BY DEF Ordnung, TypeOK
<1>1. /\ Bei("zustellen") /\ oben.k < MAX_FRAME_CALLBACKS
      /\ Weiter("callback", oben.k) /\ offen' = offen
      /\ zugestellt' = Append(zugestellt, <<oben.f, oben.k>>)
  BY DEF zustellen
<1>2. /\ stapel # <<>> /\ oben.wo = "zustellen" /\ oben = stapel[Tiefe]
      /\ Tiefe \in 1..Tiefe /\ Tiefe \in Nat
      /\ oben.f \in Frames /\ Gueltig("zustellen", oben.k)
  BY <1>t, <1>1, Oberster
<1>3. oben.k \in Callbacks /\ Gueltig("callback", oben.k)
  BY <1>1, <1>2, SendenAssumption DEF Gueltig, Callbacks, Frueh, Orte
<1>4. /\ Tiefe' = Tiefe
      /\ \A j \in 1..Tiefe : j # Tiefe => stapel'[j] = stapel[j]
      /\ stapel'[Tiefe] = e
  BY <1>t, <1>1, <1>2, <1>3, WeiterStapel DEF Gueltig
<1>5. e.f = oben.f /\ Grenze(e) = oben.k + 1 /\ Grenze(oben) = oben.k
  BY <1>2 DEF Grenze
<1> HIDE DEF e
<1>6. /\ Len(zugestellt) \in Nat /\ Len(zugestellt') = Len(zugestellt) + 1
      /\ \A n \in 1..Len(zugestellt) : zugestellt'[n] = zugestellt[n]
      /\ zugestellt'[Len(zugestellt) + 1] = <<oben.f, oben.k>>
  BY <1>t, <1>1, <1>2, <1>3, AppendProperties, LenProperties
<1>7. \A n \in 1..(Len(zugestellt) + 1) : n \in 1..Len(zugestellt) \/ n = Len(zugestellt) + 1
  BY <1>6
<1>8. \A f, i : Zu(f, i)' <=> Zu(f, i) \/ (f = oben.f /\ i = oben.k)
  <2> SUFFICES ASSUME NEW f, NEW i
               PROVE  (\E n \in 1..(Len(zugestellt) + 1) : zugestellt'[n] = <<f, i>>)
                      <=> (\E n \in 1..Len(zugestellt) : zugestellt[n] = <<f, i>>)
                          \/ (f = oben.f /\ i = oben.k)
    BY <1>6 DEF Zu
  <2>1. Len(zugestellt) + 1 \in 1..(Len(zugestellt) + 1)
        /\ \A n \in 1..Len(zugestellt) : n \in 1..(Len(zugestellt) + 1)
    BY <1>6
  <2>2. <<oben.f, oben.k>> = <<f, i>> <=> (f = oben.f /\ i = oben.k)
    OBVIOUS
  <2> QED BY <1>6, <1>7, <2>1, <2>2
<1>9. \A j \in 1..Tiefe : stapel'[j].f = stapel[j].f
  BY <1>2, <1>4, <1>5
<1>10. \A f \in offen', i \in Callbacks : ~Zu(f, i)'
  <2>1. oben.f \notin offen
    BY <1>t, <1>2 DEF Stapelordnung
  <2> QED BY <1>1, <1>8, <2>1 DEF Zustellung
<1>11. \A j \in 1..Tiefe', i \in Callbacks :
         Zu(stapel[j].f, i)' <=> i < Grenze(stapel'[j]) /\ passt(i, stapel'[j].f)
  <2> SUFFICES ASSUME NEW j \in 1..Tiefe, NEW i \in Callbacks
               PROVE  (Zu(stapel[j].f, i) \/ (stapel[j].f = oben.f /\ i = oben.k))
                        <=> i < Grenze(stapel'[j]) /\ passt(i, stapel[j].f)
    BY <1>4, <1>8, <1>9
  <2>1. Zu(stapel[j].f, i) <=> i < Grenze(stapel[j]) /\ passt(i, stapel[j].f)
    BY DEF Zustellung
  <2>2. CASE j = Tiefe
    <3>1. i < oben.k + 1 <=> i < oben.k \/ i = oben.k
      BY <1>3 DEF Callbacks
    <3> QED BY <1>2, <1>4, <1>5, <2>1, <2>2, <3>1
  <2>3. CASE j # Tiefe
    <3>1. stapel[j].f # oben.f
      BY <1>t, <1>2, <2>3 DEF Stapelordnung
    <3> QED BY <1>4, <2>1, <2>3, <3>1
  <2> QED BY <2>2, <2>3
<1>12. \A f \in Frames : Fertig(f)' => \A i \in Callbacks : Zu(f, i)' <=> passt(i, f)
  <2> SUFFICES ASSUME NEW f \in Frames, Fertig(f)', NEW i \in Callbacks
               PROVE  Zu(f, i)' <=> passt(i, f)
    OBVIOUS
  <2>1. f # oben.f /\ Fertig(f)
    BY <1>1, <1>2, <1>4, <1>5, <1>9 DEF Fertig, Tiefe
  <2> QED BY <1>8, <2>1 DEF Zustellung
<1>13. Reihenfolge'
  <2> SUFFICES ASSUME NEW m \in 1..(Len(zugestellt) + 1), NEW n \in 1..(Len(zugestellt) + 1),
                      m < n, zugestellt'[m][1] = zugestellt'[n][1]
               PROVE  zugestellt'[m][2] < zugestellt'[n][2]
    BY <1>6 DEF Reihenfolge
  <2>1. m \in 1..Len(zugestellt)
    BY <1>6
  <2>2. CASE n \in 1..Len(zugestellt)
    BY <1>6, <2>1, <2>2 DEF Zustellung, Reihenfolge
  <2>3. CASE n = Len(zugestellt) + 1
    <3>1. zugestellt[m] \in Frames \X Callbacks
      BY <1>t, <2>1, ElementOfSeq
    <3>2. PICK i \in Callbacks : zugestellt[m] = <<zugestellt[m][1], i>>
      BY <3>1
    <3>3. zugestellt'[n] = <<oben.f, oben.k>> /\ zugestellt'[m] = zugestellt[m]
      BY <1>6, <2>1, <2>3
    <3>4. zugestellt[m] = <<oben.f, i>>
      BY <3>2, <3>3
    <3>5. Zu(oben.f, i)
      BY <2>1, <3>4 DEF Zu
    <3>6. i < oben.k
      BY <1>2, <1>5, <3>5 DEF Zustellung
    <3> QED BY <3>3, <3>4, <3>6
  <2> QED BY <1>7, <2>2, <2>3
<1> QED
  BY <1>10, <1>11, <1>12, <1>13 DEF Zustellung, Grenze, passt

LEMMA SendeZustellung ==
  ASSUME Ordnung, Zustellung, NEW f \in offen, canix_frame_send(f)
  PROVE  Zustellung'
<1>t. TypeOK /\ Stapelordnung /\ offen \subseteq Frames /\ Tiefe \in Nat
  BY StapelTyp DEF Ordnung, TypeOK
<1>1. /\ Tiefe' = Tiefe + 1
      /\ \A j \in 1..Tiefe : stapel'[j] = stapel[j]
      /\ stapel'[Tiefe + 1] = [f |-> f, wo |-> "sendable", k |-> 0]
  BY <1>t, NeuerAufruf
<1>2. offen' = offen \ {f} /\ zugestellt' = zugestellt
  BY DEF canix_frame_send
<1>3. \A g, i : Zu(g, i)' <=> Zu(g, i)
  BY <1>2 DEF Zu
<1>4. stapel'[Tiefe + 1].f = f /\ Grenze(stapel'[Tiefe + 1]) = 0
  BY <1>1 DEF Grenze
<1>5. \A i \in Callbacks : ~(i < 0) /\ ~Zu(f, i)
  BY DEF Zustellung, Callbacks
<1>6. \A j \in 1..Tiefe', i \in Callbacks :
        Zu(stapel[j].f, i)' <=> i < Grenze(stapel'[j]) /\ passt(i, stapel'[j].f)
  <2> SUFFICES ASSUME NEW j \in 1..(Tiefe + 1), NEW i \in Callbacks
               PROVE  Zu(stapel'[j].f, i) <=> i < Grenze(stapel'[j]) /\ passt(i, stapel'[j].f)
    BY <1>1, <1>3
  <2>1. CASE j \in 1..Tiefe
    BY <1>1, <2>1 DEF Zustellung
  <2>2. CASE j = Tiefe + 1
    BY <1>4, <1>5, <2>2
  <2> QED BY <1>t, <2>1, <2>2
<1>7. \A g \in Frames : Fertig(g)' => Fertig(g)
  <2> SUFFICES ASSUME NEW g \in Frames, Fertig(g)' PROVE Fertig(g)
    OBVIOUS
  <2>1. \A j \in 1..(Tiefe + 1) : stapel'[j].f # g
    BY <1>1 DEF Fertig, Tiefe
  <2>2. g # f /\ \A j \in 1..Tiefe : stapel[j].f # g
    <3>1. Tiefe + 1 \in 1..(Tiefe + 1) /\ \A j \in 1..Tiefe : j \in 1..(Tiefe + 1)
      BY <1>t
    <3> QED BY <1>1, <1>4, <2>1, <3>1
  <2> QED BY <1>2, <2>2 DEF Fertig, Tiefe
<1>8. /\ Reihenfolge'
      /\ \A g \in offen', i \in Callbacks : ~Zu(g, i)'
      /\ \A g \in Frames : Fertig(g)' => \A i \in Callbacks : Zu(g, i)' <=> passt(i, g)
  BY <1>2, <1>3, <1>7 DEF Zustellung, Reihenfolge
<1> QED
  BY <1>6, <1>8 DEF Zustellung, Grenze, passt

LEMMA RueckkehrZustellung ==
  ASSUME Ordnung, Zustellung, zurueck PROVE Zustellung'
<1>t. TypeOK /\ Stapelordnung /\ Tiefe \in Nat
  BY StapelTyp DEF Ordnung, TypeOK
<1>1. /\ Tiefe' = Tiefe - 1 /\ Tiefe \in 1..Tiefe
      /\ \A j \in 1..Tiefe : j < Tiefe => stapel'[j] = stapel[j]
  BY <1>t, Rueckkehr
<1>2. \A j \in 1..(Tiefe - 1) : j \in 1..Tiefe /\ stapel'[j] = stapel[j]
  BY <1>t, <1>1
<1>3. /\ offen' = offen /\ zugestellt' = zugestellt
      /\ oben = stapel[Tiefe] /\ oben.wo = "zustellen" /\ oben.k = MAX_FRAME_CALLBACKS
  BY DEF zurueck, Bei, oben, Tiefe
<1>4. \A g, i : Zu(g, i)' <=> Zu(g, i)
  BY <1>3 DEF Zu
<1>5. \A i \in Callbacks : Zu(oben.f, i) <=> passt(i, oben.f)
  <2>1. \A i \in Callbacks : i < Grenze(oben)
    BY <1>3, SendenAssumption DEF Grenze, Callbacks
  <2> QED BY <1>1, <1>3, <2>1 DEF Zustellung
<1>6. \A g \in Frames : Fertig(g)' => Fertig(g) \/ g = oben.f
  <2> SUFFICES ASSUME NEW g \in Frames, Fertig(g)', g # oben.f PROVE Fertig(g)
    OBVIOUS
  <2>1. \A j \in 1..(Tiefe - 1) : stapel[j].f # g
    BY <1>1, <1>2 DEF Fertig, Tiefe
  <2>2. \A j \in 1..Tiefe : j = Tiefe \/ j \in 1..(Tiefe - 1)
    BY <1>t
  <2> QED BY <1>3, <2>1, <2>2 DEF Fertig, Tiefe
<1>7. /\ Reihenfolge'
      /\ \A g \in offen', i \in Callbacks : ~Zu(g, i)'
  BY <1>3, <1>4 DEF Zustellung, Reihenfolge
<1>8. \A g \in Frames : Fertig(g)' => \A i \in Callbacks : Zu(g, i)' <=> passt(i, g)
  BY <1>4, <1>5, <1>6 DEF Zustellung
<1>9. \A j \in 1..Tiefe', i \in Callbacks :
        Zu(stapel[j].f, i)' <=> i < Grenze(stapel'[j]) /\ passt(i, stapel'[j].f)
  BY <1>1, <1>2, <1>4 DEF Zustellung
<1> QED
  BY <1>7, <1>8, <1>9 DEF Zustellung, Grenze, passt

(* A step outside every call.                                              *)
LEMMA RuheZustellung ==
  ASSUME Zustellung, UNCHANGED <<offen, stapel, zugestellt>> PROVE Zustellung'
<1>1. /\ \A f, i : Zu(f, i)' <=> Zu(f, i)
      /\ \A f : Fertig(f)' <=> Fertig(f)
      /\ Tiefe' = Tiefe /\ (Reihenfolge' <=> Reihenfolge)
  BY DEF Zu, Fertig, Tiefe, Reihenfolge
<1>2. \A j \in 1..Tiefe', i \in Callbacks :
        Zu(stapel[j].f, i)' <=> i < Grenze(stapel'[j]) /\ passt(i, stapel'[j].f)
  BY <1>1 DEF Zustellung
<1>3. /\ \A f \in offen', i \in Callbacks : ~Zu(f, i)'
      /\ \A f \in Frames : Fertig(f)' => \A i \in Callbacks : Zu(f, i)' <=> passt(i, f)
      /\ Reihenfolge'
  BY <1>1 DEF Zustellung
<1> QED
  BY <1>2, <1>3 DEF Zustellung, Grenze, passt

LEMMA ZustellungBleibt == Ordnung /\ Zustellung /\ [Next]_vars => Zustellung'
<1> SUFFICES ASSUME Ordnung, Zustellung, [Next]_vars PROVE Zustellung'
  OBVIOUS
<1>t. TypeOK
  BY DEF Ordnung
<1>n. MAX_FRAME_CALLBACKS \in Nat /\ \A i \in Callbacks : i \in Nat /\ ~(i < 0)
  BY SendenAssumption DEF Callbacks
<1>g. \A wo \in Orte : wo \notin Frueh /\ wo # "callback" => Gueltig(wo, 0)
  BY SendenAssumption DEF Gueltig
<1>h. \A wo \in Frueh : \A k \in TxBuffer : Gueltig(wo, k)
  BY SendenAssumption DEF Gueltig, Frueh, Orte, TxBuffer
<1>i. \A wo \in Frueh : \A k : Gueltig(wo, k) => k \in TxBuffer
  BY DEF Gueltig
(* Before the local delivery the limit is 0. *)
<1>j. ASSUME NEW wo, NEW k, Gueltig(wo, k), Weiter(wo, k), stapel # <<>>, oben.wo \in Frueh,
             wo \in Frueh \/ (wo = "zustellen" /\ k = 0), UNCHANGED <<offen, zugestellt>>
      PROVE  Zustellung'
  <2> DEFINE e == [f |-> oben.f, wo |-> wo, k |-> k]
  <2>1. Grenze(oben) = 0 /\ Grenze(e) = 0
    BY <1>j DEF Grenze, Frueh
  <2> HIDE DEF e
  <2>2. \A i \in Callbacks : passt(i, oben.f) => (i < Grenze(oben) <=> i < Grenze(e))
    BY <2>1
  <2> QED BY <1>j, <2>2, WeiterZustellung DEF e
<1>1. ASSUME NEW k \in TxBuffer, Bus(k) PROVE Zustellung'
  BY <1>1, RuheZustellung DEF Bus
<1>2. ASSUME NEW f \in offen, canix_frame_send(f) PROVE Zustellung'
  BY <1>2, SendeZustellung
<1>3. CASE any_frei
  <2>1. Bei("sendable") /\ Weiter("waehlen", 0) /\ UNCHANGED <<offen, zugestellt>>
    BY <1>3 DEF any_frei
  <2>2. stapel # <<>> /\ oben.wo = "sendable" /\ Gueltig("waehlen", 0)
    BY <1>t, <1>h, <2>1, Oberster DEF Frueh, TxBuffer
  <2> QED BY <1>j, <2>1, <2>2 DEF Frueh
<1>4. CASE any_belegt
  <2>1. Bei("sendable") /\ UNCHANGED <<offen, zugestellt>>
    BY <1>4 DEF any_belegt
  <2>2. stapel # <<>> /\ oben.wo = "sendable" /\ oben.k \in 0..2
    BY <1>t, <1>i, <2>1, Oberster DEF Frueh, TxBuffer
  <2>3. CASE oben.k < 2
    <3>1. Weiter("sendable", oben.k + 1)
      BY <1>4, <2>3 DEF any_belegt
    <3>2. Gueltig("sendable", oben.k + 1)
      BY <1>h, <2>2, <2>3 DEF Frueh, TxBuffer
    <3> QED BY <1>j, <2>1, <2>2, <3>1, <3>2 DEF Frueh
  <2>4. CASE ~(oben.k < 2)
    <3>1. Weiter("zustellen", 0) /\ Gueltig("zustellen", 0)
      BY <1>4, <1>g, <2>4 DEF any_belegt, Frueh, Orte
    <3> QED BY <1>j, <2>1, <2>2, <3>1 DEF Frueh
  <2> QED BY <2>3, <2>4
<1>5. CASE waehlen_frei
  <2>1. Bei("waehlen") /\ Weiter("fuellen", oben.k) /\ UNCHANGED <<offen, zugestellt>>
    BY <1>5 DEF waehlen_frei
  <2>2. stapel # <<>> /\ oben.wo = "waehlen" /\ Gueltig("fuellen", oben.k)
    BY <1>t, <1>h, <1>i, <2>1, Oberster DEF Frueh
  <2> QED BY <1>j, <2>1, <2>2 DEF Frueh
<1>6. CASE waehlen_belegt
  <2>1. Bei("waehlen") /\ UNCHANGED <<offen, zugestellt>>
    BY <1>6 DEF waehlen_belegt
  <2>2. stapel # <<>> /\ oben.wo = "waehlen" /\ oben.k \in 0..2
    BY <1>t, <1>i, <2>1, Oberster DEF Frueh, TxBuffer
  <2>3. CASE oben.k < 2
    <3>1. Weiter("waehlen", oben.k + 1)
      BY <1>6, <2>3 DEF waehlen_belegt
    <3>2. Gueltig("waehlen", oben.k + 1)
      BY <1>h, <2>2, <2>3 DEF Frueh, TxBuffer
    <3> QED BY <1>j, <2>1, <2>2, <3>1, <3>2 DEF Frueh
  <2>4. CASE ~(oben.k < 2)
    <3>1. Weiter("zustellen", 0) /\ Gueltig("zustellen", 0)
      BY <1>6, <1>g, <2>4 DEF waehlen_belegt, Frueh, Orte
    <3> QED BY <1>j, <2>1, <2>2, <3>1 DEF Frueh
  <2> QED BY <2>3, <2>4
<1>7. CASE fuellen
  <2>1. Bei("fuellen") /\ Weiter("zustellen", 0) /\ UNCHANGED <<offen, zugestellt>>
    BY <1>7 DEF fuellen
  <2>2. stapel # <<>> /\ oben.wo = "fuellen" /\ Gueltig("zustellen", 0)
    BY <1>t, <1>g, <2>1, Oberster DEF Frueh, Orte
  <2> QED BY <1>j, <2>1, <2>2 DEF Frueh
<1>8. CASE zustellen
  <2>1. CASE passt(oben.k, oben.f)
    BY <1>8, <2>1, RufZustellung
  <2>2. CASE ~passt(oben.k, oben.f)
    <3> DEFINE e == [f |-> oben.f, wo |-> "zustellen", k |-> oben.k + 1]
    <3>1. /\ Bei("zustellen") /\ oben.k < MAX_FRAME_CALLBACKS /\ Weiter("zustellen", oben.k + 1)
          /\ UNCHANGED <<offen, zugestellt>>
      BY <1>8, <2>2 DEF zustellen
    <3>2. stapel # <<>> /\ oben.wo = "zustellen" /\ Gueltig("zustellen", oben.k)
      BY <1>t, <3>1, Oberster
    <3>3. oben.k \in Nat /\ Gueltig("zustellen", oben.k + 1)
      BY <3>1, <3>2, SendenAssumption DEF Gueltig, Frueh, Orte
    <3>4. Grenze(oben) = oben.k /\ Grenze(e) = oben.k + 1
      BY <3>2 DEF Grenze
    <3> HIDE DEF e
    <3>5. \A i \in Callbacks : i < oben.k + 1 <=> i < oben.k \/ i = oben.k
      BY <1>n, <3>3
    <3>6. \A i \in Callbacks : passt(i, oben.f) => (i < Grenze(oben) <=> i < Grenze(e))
      BY <2>2, <3>4, <3>5
    <3> QED BY <3>1, <3>2, <3>3, <3>6, WeiterZustellung DEF e
  <2> QED BY <2>1, <2>2
<1>9. CASE callback_zurueck
  <2> DEFINE e == [f |-> oben.f, wo |-> "zustellen", k |-> oben.k + 1]
  <2>1. Bei("callback") /\ Weiter("zustellen", oben.k + 1) /\ UNCHANGED <<offen, zugestellt>>
    BY <1>9 DEF callback_zurueck
  <2>2. stapel # <<>> /\ oben.wo = "callback" /\ Gueltig("callback", oben.k)
    BY <1>t, <2>1, Oberster
  <2>3. Gueltig("zustellen", oben.k + 1)
    BY <2>2, SendenAssumption DEF Gueltig, Callbacks, Frueh, Orte
  <2>4. Grenze(oben) = Grenze(e)
    BY <2>2 DEF Grenze
  <2> HIDE DEF e
  <2>5. \A i \in Callbacks : passt(i, oben.f) => (i < Grenze(oben) <=> i < Grenze(e))
    BY <2>4
  <2> QED BY <2>1, <2>2, <2>3, <2>5, WeiterZustellung DEF e
<1>10. CASE zurueck
  BY <1>10, RueckkehrZustellung
<1>11. CASE UNCHANGED vars
  BY <1>11, RuheZustellung DEF vars
<1> QED
  BY <1>1, <1>2, <1>3, <1>4, <1>5, <1>6, <1>7, <1>8, <1>9, <1>10, <1>11 DEF Next

(* canix_frame_send delivers every frame to each matching callback of the  *)
(* board exactly once and in the order of registration, whether it got a   *)
(* transmit buffer or not, and however deep the callbacks send frames      *)
(* themselves.                                                             *)
THEOREM JederCallbackEinmal == Spec => []LokalZugestellt
<1>1. Init => Zustellung
  <2> SUFFICES ASSUME Init PROVE Zustellung
    OBVIOUS
  <2>1. Tiefe = 0 /\ Len(zugestellt) = 0
    BY DEF Init, Tiefe
  <2>2. (\A j : j \notin 1..Tiefe) /\ \A n : n \notin 1..Len(zugestellt)
    BY <2>1
  <2> QED BY <2>2 DEF Init, Zustellung, Zu, Reihenfolge, Fertig
<1>2. Ordnung /\ Zustellung => LokalZugestellt
  BY DEF Zustellung, LokalZugestellt, Zu, Reihenfolge
<1> QED
  BY InitOrdnung, OrdnungBleibt, ZustellungBleibt, <1>1, <1>2, PTL DEF Spec

-----------------------------------------------------------------------------
(***************************************************************************)
(* hcanaddressd                                                            *)
(***************************************************************************)

Platz == 0..(MAX_PEER - 1)

(* A program that hcanaddressd has answered.                               *)
Bedient(k) == zustand[k] # "aus" /\ k \notin ToSet(anfragen)

(* The programs that still live without a number: the daemon closed their  *)
(* connection, since none was left.                                        *)
Ohne == {k \in Kunden : /\ Bedient(k) /\ zustand[k] # "beendet"
                        /\ \A i \in Platz : peers[i] # k}

Adresstypen ==
  /\ peers \in [Platz -> Kunden \cup {Frei}]
  /\ anfragen \in Seq(Kunden)
  /\ zustand \in [Kunden -> {"aus", "wartet", "laeuft", "beendet"}]
  /\ adresse \in [Kunden -> Int]

(* A program waits for its answer at most once.                            *)
Schlange ==
  /\ \A i, j \in DOMAIN anfragen : anfragen[i] = anfragen[j] => i = j
  /\ \A i \in DOMAIN anfragen : zustand[anfragen[i]] \in {"wartet", "beendet"}

(* A program in a slot has the address of the slot.                        *)
Belegt ==
  \A i \in Platz : peers[i] # Frei =>
    Bedient(peers[i]) /\ adresse[peers[i]] = 512 + i

(* At most one program is without a number, and its address is what was in *)
(* the variable; when there are enough numbers there is none.              *)
OhneNummer ==
  /\ \A k, l \in Ohne : k = l
  /\ \A k \in Ohne : adresse[k] \in Zufall
  /\ Cardinality(Kunden) <= MAX_PEER => Ohne = {}

Adressordnung == Adresstypen /\ Schlange /\ Belegt /\ OhneNummer

(* There are numbers enough: for every program, or for all but one, whose   *)
(* uninitialized variable then does not happen to hold one of the numbers. *)
GenugAdressen ==
  /\ IsFiniteSet(Kunden)
  /\ \/ Cardinality(Kunden) <= MAX_PEER
     \/ /\ Cardinality(Kunden) <= MAX_PEER + 1
        /\ Zufall \cap {512 + i : i \in Platz} = {}

LEMMA ErsterPlatz ==
  ASSUME NEW T \in SUBSET Nat, T # {}
  PROVE  \E n \in T : \A m \in T : n <= m
<1>1. PICK n \in T : \A m \in T : ~(<<m, n>> \in OpToRel(<, Nat))
  BY WFMin, NatLessThanWellFounded, Zenon
<1>2. \A m \in T : ~(m < n)
  BY <1>1 DEF OpToRel
<1> QED BY <1>2

(* What assign_address does: a free slot and its address, or nothing when  *)
(* every slot is taken.                                                    *)
LEMMA Vergabe ==
  ASSUME Adresstypen, NEW h \in Kunden
  PROVE  \/ \E i \in Platz : /\ peers[i] = Frei
                             /\ assign_address(peers, h)[1] = [peers EXCEPT ![i] = h]
                             /\ assign_address(peers, h)[2] = 512 + i
         \/ /\ \A i \in Platz : peers[i] # Frei
            /\ assign_address(peers, h)[1] = peers
            /\ assign_address(peers, h)[2] = -1
<1>1. DOMAIN peers = Platz
  BY DEF Adresstypen
<1>2. CASE \E i \in Platz : peers[i] = Frei
  <2> DEFINE T == {i \in Platz : peers[i] = Frei}
             E(i) == peers[i] = Frei /\ \A j \in 0..(i - 1) : peers[j] # Frei
             c == CHOOSE i \in Platz : E(i)
  <2>1. T \in SUBSET Nat /\ T # {}
    BY <1>2, AdressenAssumption DEF Platz
  <2> HIDE DEF T
  <2>2. PICK n \in T : \A m \in T : n <= m
    BY <2>1, ErsterPlatz
  <2>3. n \in Platz /\ peers[n] = Frei
    BY <2>2 DEF T
  <2>4. ASSUME NEW j \in 0..(n - 1), peers[j] = Frei PROVE FALSE
    <3>1. j \in Platz /\ j < n
      BY <2>3, AdressenAssumption DEF Platz
    <3>2. n <= j
      BY <3>1, <2>2, <2>4 DEF T
    <3> QED BY <3>1, <3>2, <2>3, AdressenAssumption DEF Platz
  <2>5. \E i \in Platz : E(i)
    BY <2>3, <2>4
  <2>6. c \in Platz /\ E(c)
    <3> HIDE DEF E
    <3> QED BY <2>5
  <2>7. assign_address(peers, h) = <<[peers EXCEPT ![c] = h], 512 + c>>
    BY <1>1, <1>2, Zenon DEF assign_address
  <2> HIDE DEF c
  <2>8. /\ assign_address(peers, h)[1] = [peers EXCEPT ![c] = h]
        /\ assign_address(peers, h)[2] = 512 + c
    BY <2>7
  <2> QED BY <2>6, <2>8
<1>3. CASE \A i \in Platz : peers[i] # Frei
  <2>1. assign_address(peers, h) = <<peers, -1>>
    BY <1>1, <1>3 DEF assign_address
  <2> QED BY <1>3, <2>1
<1> QED BY <1>2, <1>3

(* The queue without its head.                                             *)
LEMMA KopfWeg ==
  ASSUME Adresstypen, Schlange, anfragen # <<>>
  PROVE  /\ Head(anfragen) \in Kunden /\ Head(anfragen) \in ToSet(anfragen)
         /\ Tail(anfragen) \in Seq(Kunden)
         /\ ToSet(Tail(anfragen)) = ToSet(anfragen) \ {Head(anfragen)}
         /\ \A i, j \in DOMAIN Tail(anfragen) :
              Tail(anfragen)[i] = Tail(anfragen)[j] => i = j
         /\ \A i \in DOMAIN Tail(anfragen) : \E j \in DOMAIN anfragen :
              Tail(anfragen)[i] = anfragen[j]
<1> DEFINE s == anfragen  t == Tail(anfragen)
<1>1. /\ s \in Seq(Kunden) /\ s # <<>> /\ Len(s) \in Nat /\ Len(s) >= 1
      /\ DOMAIN s = 1..Len(s)
  BY DEF Adresstypen
<1>2. /\ t \in Seq(Kunden) /\ Len(t) = Len(s) - 1 /\ DOMAIN t = 1..(Len(s) - 1)
      /\ \A i \in 1..(Len(s) - 1) : t[i] = s[i + 1]
  BY <1>1
<1>3. Head(s) = s[1] /\ Head(s) \in Kunden
  BY <1>1
<1>4. \A i, j \in 1..Len(s) : s[i] = s[j] => i = j
  BY <1>1 DEF Schlange
<1> HIDE DEF s, t
<1>5. Head(s) \in ToSet(s)
  BY <1>1, <1>3 DEF ToSet
<1>6. \A x \in ToSet(t) : x \in ToSet(s) /\ x # Head(s)
  BY <1>1, <1>2, <1>3, <1>4 DEF ToSet
<1>7. \A x \in ToSet(s) : x # Head(s) => x \in ToSet(t)
  <2> SUFFICES ASSUME NEW i \in 1..Len(s), s[i] # Head(s) PROVE s[i] \in ToSet(t)
    BY <1>1 DEF ToSet
  <2>1. i - 1 \in 1..(Len(s) - 1) /\ t[i - 1] = s[i]
    BY <1>1, <1>2, <1>3
  <2> QED BY <1>2, <2>1 DEF ToSet
<1>8. \A i, j \in DOMAIN t : t[i] = t[j] => i = j
  BY <1>1, <1>2, <1>4
<1>9. \A i \in DOMAIN t : \E j \in DOMAIN s : t[i] = s[j]
  BY <1>1, <1>2
<1>10. ToSet(t) = ToSet(s) \ {Head(s)}
  BY <1>6, <1>7
<1> QED BY <1>2, <1>3, <1>5, <1>8, <1>9, <1>10 DEF s, t

(* When every slot is taken while a program waits, the slots hold all the  *)
(* other programs.                                                         *)
LEMMA Voll ==
  ASSUME GenugAdressen, Adresstypen, Belegt, NEW h \in ToSet(anfragen), h \in Kunden,
         \A i \in Platz : peers[i] # Frei
  PROVE  /\ ~(Cardinality(Kunden) <= MAX_PEER)
         /\ \A k \in Kunden \ {h} : \E i \in Platz : peers[i] = k
<1> DEFINE R == Kunden \ {h}
<1>1. \A i \in Platz : peers[i] \in R
  BY DEF Adresstypen, Belegt, Bedient
<1>2. \A i, j \in Platz : peers[i] = peers[j] => i = j
  <2> SUFFICES ASSUME NEW i \in Platz, NEW j \in Platz, peers[i] = peers[j] PROVE i = j
    OBVIOUS
  <2>1. 512 + i = 512 + j
    BY DEF Belegt
  <2> QED BY <2>1, AdressenAssumption DEF Platz
<1>3. peers \in Injection(Platz, R)
  BY <1>1, <1>2 DEF Adresstypen, Injection, IsInjective
<1>4. /\ IsFiniteSet(Kunden) /\ Cardinality(Kunden) \in Nat
      /\ Cardinality(Kunden) <= MAX_PEER + 1
  BY FS_CardinalityType, AdressenAssumption DEF GenugAdressen
<1>5. IsFiniteSet(R) /\ Cardinality(R) = Cardinality(Kunden) - 1
  BY <1>4, FS_RemoveElement
<1>6. IsFiniteSet(Platz) /\ Cardinality(Platz) = MAX_PEER
  BY FS_Interval, AdressenAssumption DEF Platz
<1> HIDE DEF R
<1>7. /\ Cardinality(Platz) <= Cardinality(R)
      /\ Cardinality(Platz) = Cardinality(R) <=> peers \in Surjection(Platz, R)
  BY <1>3, <1>5, FS_Injection
<1>8. Cardinality(Kunden) = MAX_PEER + 1
  BY <1>4, <1>5, <1>6, <1>7, AdressenAssumption
<1>9. peers \in Surjection(Platz, R)
  BY <1>4, <1>5, <1>6, <1>7, <1>8, AdressenAssumption
<1>10. \A k \in R : \E i \in Platz : peers[i] = k
  BY <1>9 DEF Surjection
<1> QED BY <1>8, <1>10, AdressenAssumption DEF R

-----------------------------------------------------------------------------
LEMMA AnfangAdressen == AdressenInit => Adressordnung
<1> SUFFICES ASSUME AdressenInit PROVE Adressordnung
  OBVIOUS
<1>1. ToSet(anfragen) = {}
  BY DEF AdressenInit, ToSet
<1> QED
  BY <1>1 DEF AdressenInit, Adressordnung, Adresstypen, Schlange, Belegt, OhneNummer, Ohne,
              Bedient, Platz

(* Steps that answer no request leave the answered programs answered.      *)
LEMMA OhneBleibt ==
  ASSUME OhneNummer, Ohne' \subseteq Ohne, \A k \in Ohne' : adresse'[k] = adresse[k]
  PROVE  OhneNummer'
  BY DEF OhneNummer

LEMMA AllocateOrdnung ==
  ASSUME Adressordnung, NEW k \in Kunden, allocate(k)
  PROVE  Adressordnung'
<1> USE DEF Adressordnung
<1>1. k \notin ToSet(anfragen)
  BY DEF allocate, Schlange, ToSet
<1> DEFINE s == anfragen  n == Len(anfragen)
<1>2. /\ n \in Nat /\ DOMAIN s = 1..n /\ anfragen' = Append(s, k)
      /\ anfragen' \in Seq(Kunden) /\ DOMAIN anfragen' = 1..(n + 1)
      /\ \A i \in 1..n : anfragen'[i] = s[i]
      /\ anfragen'[n + 1] = k
  BY DEF allocate, Adresstypen
<1>3. ToSet(anfragen') = ToSet(anfragen) \cup {k}
  <2> HIDE DEF n
  <2>1. \A x \in ToSet(anfragen') : x \in ToSet(anfragen) \cup {k}
    BY <1>2 DEF ToSet
  <2>2. \A x \in ToSet(anfragen) : x \in ToSet(anfragen')
    BY <1>2 DEF ToSet
  <2>3. k \in ToSet(anfragen')
    BY <1>2 DEF ToSet
  <2> QED BY <2>1, <2>2, <2>3
<1>4. /\ zustand[k] = "aus" /\ zustand' = [zustand EXCEPT ![k] = "wartet"]
      /\ peers' = peers /\ adresse' = adresse
      /\ zustand \in [Kunden -> {"aus", "wartet", "laeuft", "beendet"}]
  BY DEF allocate, Adresstypen
<1>5. Adresstypen'
  BY <1>2, <1>4 DEF Adresstypen
<1>6. Schlange'
  <2>1. \A i \in 1..n : s[i] # k /\ s[i] \in Kunden
    BY <1>1, <1>2 DEF ToSet, Adresstypen
  <2>2. ASSUME NEW i \in 1..(n + 1), NEW j \in 1..(n + 1), anfragen'[i] = anfragen'[j]
        PROVE  i = j
    BY <2>1, <2>2, <1>2 DEF Schlange
  <2>3. ASSUME NEW i \in 1..(n + 1) PROVE zustand'[anfragen'[i]] \in {"wartet", "beendet"}
    BY <2>1, <1>2, <1>4 DEF Schlange
  <2> QED BY <1>2, <2>2, <2>3 DEF Schlange
<1>7. \A x \in Kunden : (Bedient(x)' <=> Bedient(x)) /\ (x # k => zustand'[x] = zustand[x])
  BY <1>3, <1>4 DEF Bedient
<1>8. ~Bedient(k)
  BY <1>4 DEF Bedient
<1>9. Belegt'
  <2> SUFFICES ASSUME NEW i \in Platz, peers[i] # Frei
               PROVE  Bedient(peers[i])' /\ adresse[peers[i]] = 512 + i
    BY <1>4 DEF Belegt
  <2>1. peers[i] \in Kunden /\ Bedient(peers[i]) /\ adresse[peers[i]] = 512 + i
    BY DEF Belegt, Adresstypen
  <2> QED BY <2>1, <1>7, <1>4
<1>10. Ohne' \subseteq Ohne
  BY <1>4, <1>7, <1>8 DEF Ohne
<1> QED BY <1>4, <1>5, <1>6, <1>9, <1>10, OhneBleibt

(* The program reads its answer, or it ends.                               *)
LEMMA ZustandOrdnung ==
  ASSUME Adressordnung, NEW k \in Kunden, erhalten(k) \/ beende(k)
  PROVE  Adressordnung'
<1> USE DEF Adressordnung
<1>1. PICK v \in {"laeuft", "beendet"} :
        /\ zustand[k] \in {"wartet", "laeuft"} /\ zustand' = [zustand EXCEPT ![k] = v]
        /\ v = "laeuft" => zustand[k] = "wartet" /\ k \notin ToSet(anfragen)
  BY DEF erhalten, beende
<1>2. peers' = peers /\ anfragen' = anfragen /\ adresse' = adresse
  BY DEF erhalten, beende
<1>3. zustand \in [Kunden -> {"aus", "wartet", "laeuft", "beendet"}]
  BY DEF Adresstypen
<1>4. Adresstypen'
  BY <1>1, <1>2, <1>3 DEF Adresstypen
<1>5. Schlange'
  <2>1. ASSUME NEW i \in DOMAIN anfragen
        PROVE  zustand'[anfragen[i]] \in {"wartet", "beendet"}
    <3>1. anfragen[i] \in Kunden /\ anfragen[i] \in ToSet(anfragen)
      BY DEF Adresstypen, ToSet
    <3> QED BY <3>1, <1>1, <1>3 DEF Schlange
  <2> QED BY <2>1, <1>2 DEF Schlange
<1>6. ToSet(anfragen)' = ToSet(anfragen)
  BY <1>2
<1>7. /\ zustand'[k] # "aus" /\ \A x \in Kunden : x # k => zustand'[x] = zustand[x]
      /\ \A x \in Kunden : zustand[x] = "beendet" => zustand'[x] = "beendet"
  BY <1>1, <1>3
<1>8. \A x \in Kunden : Bedient(x)' <=> Bedient(x)
  BY <1>1, <1>6, <1>7 DEF Bedient
<1>9. Belegt'
  <2> SUFFICES ASSUME NEW i \in Platz, peers[i] # Frei
               PROVE  Bedient(peers[i])' /\ adresse[peers[i]] = 512 + i
    BY <1>2 DEF Belegt
  <2>1. peers[i] \in Kunden /\ Bedient(peers[i]) /\ adresse[peers[i]] = 512 + i
    BY DEF Belegt, Adresstypen
  <2> QED BY <2>1, <1>8, <1>2
<1>10. Ohne' \subseteq Ohne
  BY <1>2, <1>7, <1>8 DEF Ohne
<1> QED BY <1>2, <1>4, <1>5, <1>9, <1>10, OhneBleibt

-----------------------------------------------------------------------------
(* The slots of programs that have ended.                                  *)
Tote == {i \in Platz : peers[i] # Frei /\ zustand[peers[i]] = "beendet"}

(* A round without a request.                                              *)
LEMMA RaeumtAuf ==
  ASSUME Adressordnung, runde, anfragen = <<>>
  PROVE  Adressordnung'
<1> USE DEF Adressordnung
<1>1. /\ DOMAIN peers = Platz
      /\ anfragen' = anfragen /\ zustand' = zustand /\ adresse' = adresse
      /\ peers' = [i \in Platz |-> IF i \in Tote THEN Frei ELSE peers[i]]
  BY DEF runde, Adresstypen, Tote
<1>2. Adresstypen'
  BY <1>1 DEF Adresstypen
<1>3. Schlange'
  BY <1>1 DEF Schlange
<1>4. \A x : Bedient(x)' <=> Bedient(x)
  BY <1>1 DEF Bedient
<1>5. Belegt'
  <2> SUFFICES ASSUME NEW i \in Platz, peers'[i] # Frei
               PROVE  Bedient(peers[i])' /\ adresse'[peers'[i]] = 512 + i
    BY DEF Belegt
  <2>1. peers'[i] = peers[i]
    BY <1>1
  <2> QED BY <2>1, <1>1, <1>4 DEF Belegt, Bedient
<1>6. Ohne' \subseteq Ohne
  <2> SUFFICES ASSUME NEW x \in Kunden, x \in Ohne' PROVE x \in Ohne
    BY DEF Ohne
  <2>1. /\ Bedient(x) /\ zustand[x] # "beendet" /\ \A i \in Platz : peers'[i] # x
    BY <1>1, <1>4 DEF Ohne
  <2>2. \A i \in Platz : peers[i] # x
    BY <1>1, <2>1 DEF Tote
  <2> QED BY <2>1, <2>2 DEF Ohne
<1> QED BY <1>1, <1>2, <1>3, <1>5, <1>6, OhneBleibt

(* A round that answers a request.                                         *)
LEMMA Antwortet ==
  ASSUME GenugAdressen, Adressordnung, runde, anfragen # <<>>
  PROVE  Adressordnung'
<1> USE DEF Adressordnung
<1> DEFINE h == Head(anfragen)
           a == assign_address(peers, h)
<1>1. /\ DOMAIN peers = Platz
      /\ zustand' = zustand /\ anfragen' = Tail(anfragen)
      /\ peers' = [i \in Platz |-> IF i \in Tote THEN Frei ELSE a[1][i]]
  BY DEF runde, Adresstypen, Tote
<1>2. PICK z \in Zufall : adresse' = [adresse EXCEPT ![h] = IF a[2] # -1 THEN a[2] ELSE z]
  BY DEF runde
<1>3. /\ h \in Kunden /\ h \in ToSet(anfragen) /\ h # Frei
      /\ ToSet(anfragen)' = ToSet(anfragen) \ {h}
  BY <1>1, KopfWeg, AdressenAssumption
<1>4. \/ \E i \in Platz : peers[i] = Frei /\ a[1] = [peers EXCEPT ![i] = h] /\ a[2] = 512 + i
      \/ (\A i \in Platz : peers[i] # Frei) /\ a[1] = peers /\ a[2] = -1
  BY <1>3, Vergabe
<1>5. Schlange'
  <2>1. \A i \in DOMAIN Tail(anfragen) :
           zustand[Tail(anfragen)[i]] \in {"wartet", "beendet"}
    BY KopfWeg DEF Schlange
  <2> QED BY <1>1, <2>1, KopfWeg DEF Schlange
<1>6. zustand[h] # "aus"
  BY <1>3 DEF Schlange, ToSet
<1>7. \A x : Bedient(x)' <=> Bedient(x) \/ x = h
  BY <1>1, <1>3, <1>6 DEF Bedient
<1>8. anfragen' \in Seq(Kunden)
  BY <1>1, KopfWeg
<1>9. \A i \in Platz : peers[i] # h
  BY <1>3 DEF Belegt, Bedient
<1> HIDE DEF h, a
<1>10. CASE \E i \in Platz : peers[i] = Frei /\ a[1] = [peers EXCEPT ![i] = h] /\ a[2] = 512 + i
  <2>1. PICK i0 \in Platz : /\ peers[i0] = Frei /\ a[1] = [peers EXCEPT ![i0] = h]
                           /\ a[2] = 512 + i0
    BY <1>10
  <2>2. 512 + i0 \in Int /\ 512 + i0 # -1
    BY AdressenAssumption DEF Platz
  <2>3. /\ adresse' = [adresse EXCEPT ![h] = 512 + i0]
        /\ adresse \in [Kunden -> Int] /\ peers \in [Platz -> Kunden \cup {Frei}]
    BY <1>2, <2>1, <2>2 DEF Adresstypen
  <2>4. /\ peers'[i0] = h
        /\ \A i \in Platz : i # i0 => peers'[i] = IF i \in Tote THEN Frei ELSE peers[i]
    BY <1>1, <2>1, <2>3 DEF Tote
  <2>5. Adresstypen'
    <3>1. peers' \in [Platz -> Kunden \cup {Frei}]
      BY <1>1, <1>3, <2>1, <2>3
    <3>2. adresse' \in [Kunden -> Int]
      BY <2>2, <2>3
    <3> QED BY <1>1, <1>8, <3>1, <3>2 DEF Adresstypen
  <2>6. Belegt'
    <3> SUFFICES ASSUME NEW i \in Platz, peers'[i] # Frei
                 PROVE  Bedient(peers[i])' /\ adresse'[peers'[i]] = 512 + i
      BY DEF Belegt
    <3>1. CASE i = i0
      BY <3>1, <1>1, <1>3, <1>6, <2>3, <2>4 DEF Bedient
    <3>2. CASE i # i0
      <4>1. peers'[i] = peers[i] /\ peers[i] \in Kunden /\ peers[i] # h
        BY <3>2, <2>4, <2>3, <1>9
      <4>2. Bedient(peers[i]) /\ adresse[peers[i]] = 512 + i
        BY <4>1 DEF Belegt
      <4>3. adresse'[peers[i]] = adresse[peers[i]]
        BY <4>1, <2>3
      <4>4. Bedient(peers[i])'
        BY <4>1, <4>2, <1>1, <1>3 DEF Bedient
      <4> QED BY <4>1, <4>2, <4>3, <4>4
    <3> QED BY <3>1, <3>2
  <2>7. ASSUME NEW x \in Kunden, x \in Ohne' PROVE x \in Ohne /\ adresse'[x] = adresse[x]
    <3>1. Bedient(x)' /\ zustand[x] # "beendet" /\ \A i \in Platz : peers'[i] # x
      BY <2>7, <1>1 DEF Ohne
    <3>2. x # h
      BY <3>1, <2>4
    <3>3. Bedient(x)
      BY <3>1, <3>2, <1>7
    <3>4. ASSUME NEW i \in Platz, peers[i] = x PROVE FALSE
      <4>1. i # i0 /\ i \notin Tote
        BY <3>1, <3>4, <2>1, AdressenAssumption DEF Tote
      <4> QED BY <4>1, <2>4, <3>1, <3>4
    <3>5. x \in Ohne
      BY <3>1, <3>3, <3>4 DEF Ohne
    <3> QED BY <3>2, <3>5, <2>3
  <2>8. Ohne' \subseteq Kunden
    BY DEF Ohne
  <2>9. OhneNummer'
    BY <2>7, <2>8, OhneBleibt
  <2> QED BY <1>5, <2>5, <2>6, <2>9
<1>11. CASE (\A i \in Platz : peers[i] # Frei) /\ a[1] = peers /\ a[2] = -1
  <2>1. /\ adresse' = [adresse EXCEPT ![h] = z] /\ z \in Int
        /\ adresse \in [Kunden -> Int] /\ peers \in [Platz -> Kunden \cup {Frei}]
        /\ peers' = [i \in Platz |-> IF i \in Tote THEN Frei ELSE peers[i]]
    BY <1>1, <1>2, <1>11, AdressenAssumption DEF Adresstypen
  <2>2. Adresstypen'
    BY <1>1, <1>8, <2>1 DEF Adresstypen
  <2>3. Belegt'
    <3> SUFFICES ASSUME NEW i \in Platz, peers'[i] # Frei
                 PROVE  Bedient(peers[i])' /\ adresse'[peers'[i]] = 512 + i
      BY DEF Belegt
    <3>1. peers'[i] = peers[i] /\ peers[i] \in Kunden /\ peers[i] # h
      BY <2>1, <1>9
    <3>2. Bedient(peers[i]) /\ adresse[peers[i]] = 512 + i
      BY <3>1 DEF Belegt
    <3>3. adresse'[peers[i]] = adresse[peers[i]]
      BY <3>1, <2>1
    <3>4. Bedient(peers[i])'
      BY <3>1, <3>2, <1>1, <1>3 DEF Bedient
    <3> QED BY <3>1, <3>2, <3>3, <3>4
  <2>4. /\ ~(Cardinality(Kunden) <= MAX_PEER)
        /\ \A k \in Kunden \ {h} : \E i \in Platz : peers[i] = k
    BY <1>3, <1>11, Voll
  <2>5. ASSUME NEW x \in Kunden, x \in Ohne' PROVE x = h /\ adresse'[x] \in Zufall
    <3>1. zustand[x] # "beendet" /\ \A i \in Platz : peers'[i] # x
      BY <2>5, <1>1 DEF Ohne
    <3>2. ASSUME NEW i \in Platz, peers[i] = x PROVE FALSE
      BY <3>1, <3>2, <2>1 DEF Tote
    <3>3. x = h
      BY <3>2, <2>4
    <3> QED BY <3>3, <2>1, <1>3
  <2>6. Ohne' \subseteq Kunden
    BY DEF Ohne
  <2>7. OhneNummer'
    BY <2>4, <2>5, <2>6 DEF OhneNummer
  <2> QED BY <1>5, <2>2, <2>3, <2>7
<1> QED BY <1>4, <1>10, <1>11

-----------------------------------------------------------------------------
LEMMA HostwegOrdnung ==
  GenugAdressen /\ Adressordnung /\ [HostwegNext]_hostwegVars => Adressordnung'
<1> SUFFICES ASSUME GenugAdressen, Adressordnung, [HostwegNext]_hostwegVars
             PROVE  Adressordnung'
  OBVIOUS
<1>1. CASE UNCHANGED adressenVars
  <2>1. /\ peers' = peers /\ anfragen' = anfragen /\ zustand' = zustand
        /\ adresse' = adresse
    BY <1>1 DEF adressenVars
  <2> QED BY <2>1 DEF Adressordnung, Adresstypen, Schlange, Belegt, OhneNummer, Ohne, Bedient
<1>2. ASSUME NEW k \in Kunden,
             Starte(k) \/ transport_connection(k) \/ Ende(k)
      PROVE  Adressordnung'
  <2>1. allocate(k) \/ erhalten(k) \/ beende(k)
    BY <1>2 DEF Starte, transport_connection, Ende
  <2> QED BY <2>1, AllocateOrdnung, ZustandOrdnung
<1>3. CASE Hcanaddressd
  BY <1>3, RaeumtAuf, Antwortet DEF Hcanaddressd
<1>4. ASSUME NEW k \in Kunden, Sende(k) \/ SendeWieder(k) \/ Lies(k)
      PROVE  UNCHANGED adressenVars
  BY <1>4, Zenon DEF Sende, SendeWieder, Sendet, Lies
<1>5. CASE Hcand_ \/ Sekunde \/ Hcanhid \/ Hostinterface \/ Controller
  BY <1>1, <1>5, Zenon DEF Hcand_, Sekunde, Hcanhid, Hostinterface, Controller
<1>6. CASE BrettSendet \/ VerlustHin \/ VerlustHer
  BY <1>1, <1>6, Zenon DEF BrettSendet, VerlustHin, VerlustHer
<1>7. CASE UNCHANGED hostwegVars
  BY <1>1, <1>7, Zenon DEF hostwegVars
<1> QED
  BY <1>1, <1>2, <1>3, <1>4, <1>5, <1>6, <1>7, Zenon DEF HostwegNext, Umgebung

LEMMA EigeneFolgt == GenugAdressen /\ Adressordnung => EigeneAdresse
<1> SUFFICES ASSUME GenugAdressen, Adressordnung, NEW k \in Kunden, NEW l \in Kunden,
                    k # l, zustand[k] = "laeuft", zustand[l] = "laeuft",
                    adresse[k] = adresse[l]
             PROVE  FALSE
  BY DEF EigeneAdresse
<1> USE DEF Adressordnung
<1>1. Bedient(k) /\ Bedient(l)
  BY DEF Bedient, Schlange, ToSet
<1>2. ASSUME NEW x \in Kunden, zustand[x] = "laeuft", Bedient(x), x \notin Ohne
      PROVE  \E i \in Platz : peers[i] = x /\ adresse[x] = 512 + i
  <2>1. PICK i \in Platz : peers[i] = x
    BY <1>2 DEF Ohne
  <2> QED BY <2>1, AdressenAssumption DEF Belegt
<1>3. ASSUME NEW x \in Ohne, NEW i \in Platz, adresse[x] = 512 + i PROVE FALSE
  BY <1>3 DEF OhneNummer, GenugAdressen
<1>4. CASE k \notin Ohne /\ l \notin Ohne
  <2>1. PICK i \in Platz : peers[i] = k /\ adresse[k] = 512 + i
    BY <1>1, <1>2, <1>4
  <2>2. PICK j \in Platz : peers[j] = l /\ adresse[l] = 512 + j
    BY <1>1, <1>2, <1>4
  <2>3. 512 + i = 512 + j
    BY <2>1, <2>2
  <2>4. i \in Int /\ j \in Int
    BY AdressenAssumption DEF Platz
  <2>5. i = j
    BY <2>3, <2>4
  <2> QED BY <2>1, <2>2, <2>5
<1>5. CASE k \in Ohne /\ l \notin Ohne
  BY <1>1, <1>2, <1>3, <1>5
<1>6. CASE k \notin Ohne /\ l \in Ohne
  BY <1>1, <1>2, <1>3, <1>6
<1>7. CASE k \in Ohne /\ l \in Ohne
  BY <1>7 DEF OhneNummer
<1> QED BY <1>4, <1>5, <1>6, <1>7

(* hcanaddressd/main.c:72-84, 98-171 and dynaddress.cc:46-58: two running  *)
(* programs never have the same address, in whatever order programs start  *)
(* and end and the daemon gets to know of it, as long as there are numbers *)
(* enough or the one program without a number holds none by chance.        *)
THEOREM AdressenSindEigene ==
  ASSUME GenugAdressen PROVE HostwegSpec => []EigeneAdresse
<1>1. HostwegInit => Adressordnung
  BY AnfangAdressen DEF HostwegInit
<1>2. Adressordnung /\ [HostwegNext]_hostwegVars => Adressordnung'
  BY HostwegOrdnung
<1>3. Adressordnung => EigeneAdresse
  BY EigeneFolgt
<1> QED BY <1>1, <1>2, <1>3, PTL DEF HostwegSpec
=============================================================================
