---------------------------- MODULE FlashenProofs ----------------------------
(***************************************************************************)
(* Proofs about flashing a board, for every size of the firmware, every    *)
(* number of tries and commands and every number of lost frames, late      *)
(* answers and power failures: a success is a success, the incremental     *)
(* mode leaves out no page it must write, and a board that starts by       *)
(* itself runs a complete firmware.                                        *)
(*                                                                         *)
(* The argument is about what may be on its way while the host is at a     *)
(* place of its program: a late answer can only be one the host takes for  *)
(* a wrong one, and when it goes on to the checksum nothing that changes   *)
(* the flash is left on the bus.                                           *)
(***************************************************************************)
EXTENDS Flashen, SequenceTheorems, TLAPS

Inhalte == [Nummern -> Seiten]
Modi == {"boot", "loader", "app"}
Werte == UNION {Inhalte, {Leer}, Worte, Modi, {0}}
Namen == {"RESET", "BOOT_STOP", "BOOT_STOP_ACK", "STATE", "FILL", "FILL_ACK", "WRITE",
          "WRITE_ACK", "CRC", "EE", "EE_ACK", "LOAD_APP"}
Frames == [typ : Namen, adr : Nat, wert : Werte]

(* The host's commands that may be on their way to the board, and the      *)
(* answers that may wait for the host, for every place of its program.     *)
Hinaus(p) ==
  IF p \in {"fuellen", "fuell_ack", "schreiben"} THEN {"FILL"}
  ELSE IF p \in {"schreib_ack", "wiederholen", "reset"} THEN {"FILL", "WRITE"}
  ELSE IF p = "schlaf" THEN {"FILL", "WRITE", "RESET"}
  ELSE IF p = "stop_ack" THEN {"BOOT_STOP"}
  ELSE IF p = "state_ack" THEN {"STATE"}
  ELSE IF p \in {"icrc_ack", "crc_ack"} THEN {"CRC"}
  ELSE IF p = "ee_ack" THEN {"EE"}
  ELSE IF p \in Enden \cup {"load"} THEN {"BOOT_STOP", "STATE", "CRC", "EE", "LOAD_APP"}
  ELSE {}

Zurueck(p) ==
  IF p \in {"fuellen", "fuell_ack", "schreiben"} THEN {"FILL_ACK"}
  ELSE IF p \in {"schreib_ack", "wiederholen", "reset", "schlaf", "stop"}
       THEN {"FILL_ACK", "WRITE_ACK"}
  ELSE IF p = "stop_ack" THEN {"FILL_ACK", "WRITE_ACK", "BOOT_STOP_ACK"}
  ELSE IF p = "state_ack" THEN {"STATE"}
  ELSE IF p \in {"icrc_ack", "crc_ack"} THEN {"CRC"}
  ELSE IF p = "ee_ack" THEN {"EE_ACK"}
  ELSE IF p \in Enden \cup {"load"} THEN Namen
  ELSE {}

(* What the frames carry: words, pages the incremental mode does not leave *)
(* out, checksums of a firmware, and the checksum of the flash.            *)
Ganz(w) == \E f \in Firmwares : w = Inhalt(f)
GutHin == {m \in Frames : /\ m.typ \in Hinaus(pc)
                          /\ m.typ = "FILL" => m.wert \in Worte
                          /\ m.typ = "WRITE" /\ inkr => cache[m.adr] # neu[m.adr]
                          /\ m.typ = "EE" => m.wert \in Inhalte /\ (unsicher \/ Ganz(m.wert))}
GutHer == {m \in Frames : /\ m.typ \in Zurueck(pc)
                          /\ m.typ = "CRC" /\ pc \in {"icrc_ack", "crc_ack"} => m.wert = flash}
Unterwegs == hin \in Seq(GutHin) /\ her \in Seq(GutHer)

(* Where the host waits for the answer to one question, only the last      *)
(* command on the bus can be the question and only the last answer the one *)
(* to it: with it, nothing else is left.                                   *)
Letzt(s, t) == \A i \in 1..Len(s) : s[i].typ = t => i = Len(s)
Ohne(s, t) == \A i \in 1..Len(s) : s[i].typ # t
Fragen == {<<"stop_ack", "BOOT_STOP", "BOOT_STOP_ACK">>, <<"state_ack", "STATE", "STATE">>,
           <<"icrc_ack", "CRC", "CRC">>, <<"schreib_ack", "WRITE", "WRITE_ACK">>,
           <<"crc_ack", "CRC", "CRC">>, <<"ee_ack", "EE", "EE_ACK">>}
Wechsel == \A q \in Fragen : pc = q[1] =>
             /\ Letzt(hin, q[2]) /\ Letzt(her, q[3])
             /\ hin = <<>> \/ Ohne(her, q[3])

Orte == Enden \cup {"reset", "schlaf", "stop", "stop_ack", "state", "state_ack", "cache",
                    "icrc_ack", "versuch", "block", "fuellen", "fuell_ack", "schreiben",
                    "schreib_ack", "wiederholen", "crc", "crc_ack", "ee", "ee_ack",
                    "vergleich", "load"}
Typen == /\ pc \in Orte /\ neu \in Firmwares /\ cache \in Firmwares \cup {Keine}
         /\ block \in 0..Bloecke /\ index \in Nat
         /\ inkr \in BOOLEAN /\ geprueft \in BOOLEAN /\ unsicher \in BOOLEAN
         /\ mode \in Modi /\ buffer \in Seiten /\ flash \in Inhalte
         /\ ee \in [1..2 -> Inhalte \cup {Leer}]

(* The page being sent is one that has to be.                              *)
Fuellend == {"fuellen", "fuell_ack", "schreiben", "schreib_ack"}
Zurecht == pc \in Fuellend => block \in Nummern /\ ~blocks_equal
Geprueft == /\ pc \in {"ee", "ee_ack", "vergleich"} => board_crc = flash
            /\ geprueft => pc \in {"load", "fertig"} /\ flash = Inhalt(neu)
Gleich == pc \notin Enden /\ inkr =>
            \A b \in Nummern : cache[b] = neu[b] => flash[b] = Seite(neu, b)
Gespeichert == unsicher \/ \A i \in 1..2 : ee[i] = Leer \/ Ganz(ee[i])

Stand == /\ Typen /\ Unterwegs /\ Wechsel
         /\ Zurecht /\ Geprueft /\ Gleich /\ Gespeichert /\ BootetNurGanzes
-----------------------------------------------------------------------------
(* Sequences of frames.                                                    *)
LEMMA Abnehmen ==
  ASSUME NEW S, NEW s \in Seq(S), s # <<>>, NEW t
  PROVE  /\ Head(s) \in S /\ Tail(s) \in Seq(S)
         /\ Letzt(s, t) => Letzt(Tail(s), t)
         /\ Letzt(s, t) /\ Head(s).typ = t => Tail(s) = <<>>
         /\ Ohne(s, t) => Ohne(Tail(s), t) /\ Head(s).typ # t
<1>1. /\ Head(s) \in S /\ Tail(s) \in Seq(S) /\ Len(Tail(s)) = Len(s) - 1
      /\ \A i \in 1..Len(Tail(s)) : Tail(s)[i] = s[i + 1]
  BY HeadTailProperties
<1>2. Len(s) \in Nat \ {0} /\ Head(s) = s[1]
  BY EmptySeq
<1>3. \A i \in 1..Len(Tail(s)) : i + 1 \in 1..Len(s) /\ (i + 1 = Len(s) => i = Len(Tail(s)))
  <2>1. \A n \in Nat \ {0} : \A i \in 1..(n - 1) : i + 1 \in 1..n /\ (i + 1 = n => i = n - 1)
    OBVIOUS
  <2> QED BY <1>1, <1>2, <2>1
<1>4. Len(Tail(s)) = 0 => Tail(s) = <<>>
  BY <1>1, EmptySeq
<1>5. 1 \in 1..Len(s)
  BY <1>2
<1>6. 1 = Len(s) => Tail(s) = <<>>
  BY <1>1, <1>2, <1>4
<1> QED
  BY <1>1, <1>2, <1>3, <1>5, <1>6 DEF Letzt, Ohne

LEMMA Anhaengen ==
  ASSUME NEW S, NEW s \in Seq(S), NEW m \in S, NEW t
  PROVE  /\ Append(s, m) \in Seq(S)
         /\ Ohne(s, t) => Letzt(Append(s, m), t)
         /\ Ohne(s, t) /\ m.typ # t => Ohne(Append(s, m), t)
<1> DEFINE a == Append(s, m)
<1>1. /\ a \in Seq(S) /\ Len(a) = Len(s) + 1 /\ Len(s) \in Nat
      /\ \A i \in 1..Len(s) : a[i] = s[i]
      /\ a[Len(s) + 1] = m
  BY AppendProperties, LenProperties
<1> HIDE DEF a
<1>2. \A i \in 1..Len(a) : i \in 1..Len(s) \/ i = Len(s) + 1
  BY <1>1
<1>3. Ohne(s, t) => Letzt(a, t)
  BY <1>1, <1>2 DEF Ohne, Letzt
<1>4. Ohne(s, t) /\ m.typ # t => Ohne(a, t)
  BY <1>1, <1>2 DEF Ohne
<1> QED
  BY <1>1, <1>3, <1>4 DEF a

LEMMA LeereFolge ==
  ASSUME NEW S, NEW t
  PROVE  /\ <<>> \in Seq(S) /\ Letzt(<<>>, t) /\ Ohne(<<>>, t)
         /\ \A s \in Seq(S) : (\A m \in S : m.typ # t) => Ohne(s, t)
         /\ S = {} => \A s \in Seq(S) : s = <<>>
<1>1. <<>> \in Seq(S) /\ Len(<<>>) = 0
  BY EmptySeq
<1>2. \A i : i \notin 1..Len(<<>>)
  BY <1>1
<1>3. ASSUME NEW s \in Seq(S), \A m \in S : m.typ # t PROVE Ohne(s, t)
  BY <1>3, ElementOfSeq DEF Ohne
<1>4. ASSUME S = {}, NEW s \in Seq(S), s # <<>> PROVE FALSE
  BY <1>4, HeadTailProperties
<1> QED
  BY <1>1, <1>2, <1>3, <1>4 DEF Letzt, Ohne

-----------------------------------------------------------------------------
(* What is on the bus stays right when the host goes on.                   *)
LEMMA HinWaechst ==
  ASSUME Hinaus(pc) \subseteq Hinaus(pc'), unsicher => unsicher',
         "WRITE" \notin Hinaus(pc) \/ UNCHANGED <<inkr, cache, neu>>
  PROVE  GutHin \subseteq GutHin'
<1> SUFFICES ASSUME NEW m \in GutHin PROVE m \in GutHin'
  OBVIOUS
<1>1. /\ m \in Frames /\ m.typ \in Hinaus(pc)
      /\ m.typ = "FILL" => m.wert \in Worte
      /\ m.typ = "WRITE" /\ inkr => cache[m.adr] # neu[m.adr]
      /\ m.typ = "EE" => m.wert \in Inhalte /\ (unsicher \/ Ganz(m.wert))
  BY DEF GutHin
<1>2. m.typ = "WRITE" /\ inkr' => cache'[m.adr] # neu'[m.adr]
  BY <1>1
<1>3. m.typ \in Hinaus(pc')
  BY <1>1
<1> QED
  BY <1>1, <1>2, <1>3 DEF GutHin, Hinaus, Ganz

LEMMA HerWaechst ==
  ASSUME Zurueck(pc) \subseteq Zurueck(pc'),
         "CRC" \notin Zurueck(pc) \/ (flash' = flash /\ pc' \notin {"icrc_ack", "crc_ack"})
           \/ UNCHANGED <<flash, pc>>
  PROVE  GutHer \subseteq GutHer'
<1> SUFFICES ASSUME NEW m \in GutHer PROVE m \in GutHer'
  OBVIOUS
<1>1. /\ m \in Frames /\ m.typ \in Zurueck(pc)
      /\ m.typ = "CRC" /\ pc \in {"icrc_ack", "crc_ack"} => m.wert = flash
  BY DEF GutHer
<1>2. m.typ = "CRC" /\ pc' \in {"icrc_ack", "crc_ack"} => m.wert = flash'
  BY <1>1
<1>3. m.typ \in Zurueck(pc')
  BY <1>1
<1> QED
  BY <1>1, <1>2, <1>3 DEF GutHer, Zurueck

LEMMA UnterwegsBleibt ==
  ASSUME Unterwegs, GutHin \subseteq GutHin', GutHer \subseteq GutHer'
  PROVE  hin \in Seq(GutHin') /\ her \in Seq(GutHer')
  BY SeqMonotonic DEF Unterwegs

(* A place where nothing is on its way.                                    *)
LEMMA NichtsUnterwegs ==
  ASSUME Unterwegs
  PROVE  /\ Hinaus(pc) = {} => hin = <<>>
         /\ Zurueck(pc) = {} => her = <<>>
         /\ \A t : t \notin Hinaus(pc) => Ohne(hin, t)
         /\ \A t : t \notin Zurueck(pc) => Ohne(her, t)
<1>1. hin \in Seq(GutHin) /\ her \in Seq(GutHer)
  BY DEF Unterwegs
<1>2. (Hinaus(pc) = {} => GutHin = {}) /\ (Zurueck(pc) = {} => GutHer = {})
  BY DEF GutHin, GutHer
<1>3. (Hinaus(pc) = {} => hin = <<>>) /\ (Zurueck(pc) = {} => her = <<>>)
  BY <1>1, <1>2, LeereFolge
<1>4. ASSUME NEW t, t \notin Hinaus(pc) PROVE Ohne(hin, t)
  <2>1. \A m \in GutHin : m.typ # t
    BY <1>4 DEF GutHin
  <2> QED BY <1>1, <2>1, LeereFolge
<1>5. ASSUME NEW t, t \notin Zurueck(pc) PROVE Ohne(her, t)
  <2>1. \A m \in GutHer : m.typ # t
    BY <1>5 DEF GutHer
  <2> QED BY <1>1, <2>1, LeereFolge
<1> QED
  BY <1>3, <1>4, <1>5

Wartend == {"stop_ack", "state_ack", "icrc_ack", "schreib_ack", "crc_ack", "ee_ack"}
LEMMA WechselRuht == pc' \notin Wartend => Wechsel'
  BY DEF Wartend, Wechsel, Fragen

LEMMA FrageEindeutig ==
  ASSUME NEW q \in Fragen, NEW r \in Fragen, q[1] = r[1]
  PROVE  q[2] = r[2] /\ q[3] = r[3]
  BY DEF Fragen

(* The host sends a command.                                               *)
LEMMA SendeUnterwegs ==
  ASSUME Unterwegs, GutHin \subseteq GutHin', GutHer \subseteq GutHer',
         NEW m, m \in GutHin', Sende(m)
  PROVE  Unterwegs' /\ her' = her /\ (hin' = hin \/ hin' = Append(hin, m))
<1>1. hin \in Seq(GutHin') /\ her \in Seq(GutHer')
  BY UnterwegsBleibt
<1>2. Append(hin, m) \in Seq(GutHin')
  BY <1>1, Anhaengen
<1>3. her' = her /\ (hin' = hin \/ hin' = Append(hin, m))
  BY DEF Sende
<1> QED
  BY <1>1, <1>2, <1>3 DEF Unterwegs

(* ... and waits for its answer, with no such command and answer before.   *)
LEMMA SendeFrage ==
  ASSUME Unterwegs, GutHin \subseteq GutHin', GutHer \subseteq GutHer',
         NEW m, m \in GutHin', Sende(m),
         NEW q \in Fragen, pc' = q[1], q[2] \notin Hinaus(pc), q[3] \notin Zurueck(pc)
  PROVE  Unterwegs' /\ Wechsel'
<1>1. Unterwegs' /\ her' = her /\ (hin' = hin \/ hin' = Append(hin, m))
  BY SendeUnterwegs
<1>2. hin \in Seq(GutHin') /\ her \in Seq(GutHer')
  BY UnterwegsBleibt
<1>3. Ohne(hin, q[2]) /\ Ohne(her, q[3])
  BY NichtsUnterwegs
<1>4. Letzt(hin', q[2]) /\ Letzt(her', q[3]) /\ Ohne(her', q[3])
  <2>1. Letzt(Append(hin, m), q[2])
    BY <1>2, <1>3, Anhaengen
  <2>2. Letzt(hin, q[2]) /\ Letzt(her, q[3])
    BY <1>3 DEF Letzt, Ohne
  <2> QED BY <1>1, <1>3, <2>1, <2>2
<1>5. Wechsel'
  <2> SUFFICES ASSUME NEW r \in Fragen, pc' = r[1]
               PROVE  /\ Letzt(hin', r[2]) /\ Letzt(her', r[3])
                      /\ hin' = <<>> \/ Ohne(her', r[3])
    BY DEF Wechsel, Letzt, Ohne
  <2>1. r[2] = q[2] /\ r[3] = q[3]
    BY FrageEindeutig
  <2> QED BY <1>4, <2>1
<1> QED
  BY <1>1, <1>5

(* The answer it waits for is the last frame on the bus.                   *)
LEMMA EmpfangeAntwort ==
  ASSUME Unterwegs, Wechsel, NEW q \in Fragen, pc = q[1], Empfange(q[3])
  PROVE  /\ hin' = <<>> /\ her' = <<>> /\ Unterwegs' /\ Wechsel'
         /\ Head(her) \in GutHer /\ Head(her).typ = q[3]
<1>1. her \in Seq(GutHer) /\ her # <<>> /\ Head(her).typ = q[3] /\ her' = Tail(her) /\ hin' = hin
  BY DEF Unterwegs, Empfange
<1>2. Letzt(her, q[3]) /\ (hin = <<>> \/ Ohne(her, q[3]))
  BY DEF Wechsel
<1>3. Head(her) \in GutHer /\ Tail(her) = <<>> /\ ~Ohne(her, q[3])
  BY <1>1, <1>2, Abnehmen
<1>4. hin' = <<>> /\ her' = <<>>
  BY <1>1, <1>2, <1>3
<1>5. Unterwegs' /\ Wechsel'
  BY <1>4, LeereFolge DEF Unterwegs, Wechsel, Letzt, Ohne
<1> QED
  BY <1>1, <1>3, <1>4, <1>5

(* A wrong answer or none at all.                                          *)
LEMMA FehlerUnterwegs ==
  ASSUME Unterwegs, GutHin \subseteq GutHin', GutHer \subseteq GutHer', NEW t, transport_error(t)
  PROVE  Unterwegs'
<1>1. hin \in Seq(GutHin') /\ her \in Seq(GutHer')
  BY UnterwegsBleibt
<1>2. hin' = hin /\ (her' = her \/ (her # <<>> /\ her' = Tail(her)))
  BY DEF transport_error, Falsch, Timeout
<1>3. her' \in Seq(GutHer')
  BY <1>1, <1>2, Abnehmen
<1> QED
  BY <1>1, <1>2, <1>3 DEF Unterwegs

-----------------------------------------------------------------------------
(* The board takes a command, and answers it or not.                       *)
LEMMA BoardNimmt ==
  ASSUME Unterwegs, Wechsel, hin # <<>>, pc' = pc,
         GutHin \subseteq GutHin', GutHer \subseteq GutHer', hin' = Tail(hin),
         \/ her' = her
         \/ \E m \in GutHer' : /\ her' = Append(her, m)
                               /\ \A q \in Fragen : pc = q[1] /\ m.typ = q[3] => Head(hin).typ = q[2]
  PROVE  Unterwegs' /\ Wechsel'
<1>1. hin \in Seq(GutHin') /\ her \in Seq(GutHer')
  BY UnterwegsBleibt
<1>2. hin' \in Seq(GutHin')
  BY <1>1, Abnehmen
<1>3. her' \in Seq(GutHer')
  BY <1>1, Anhaengen
<1>4. Wechsel'
  <2> SUFFICES ASSUME NEW q \in Fragen, pc = q[1]
               PROVE  /\ Letzt(hin', q[2]) /\ Letzt(her', q[3])
                      /\ hin' = <<>> \/ Ohne(her', q[3])
    BY DEF Wechsel, Letzt, Ohne
  <2>1. Letzt(hin, q[2]) /\ Letzt(her, q[3]) /\ Ohne(her, q[3])
    BY DEF Wechsel
  <2>2. Letzt(hin', q[2])
    BY <1>1, <2>1, Abnehmen
  <2>3. CASE her' = her
    BY <2>1, <2>2, <2>3
  <2>4. CASE her' # her
    <3>1. PICK m \in GutHer' : /\ her' = Append(her, m)
                               /\ m.typ = q[3] => Head(hin).typ = q[2]
      BY <2>4
    <3>2. Letzt(her', q[3]) /\ (m.typ # q[3] => Ohne(her', q[3]))
      BY <1>1, <2>1, <3>1, Anhaengen
    <3>3. m.typ = q[3] => hin' = <<>>
      BY <1>1, <2>1, <3>1, Abnehmen
    <3> QED BY <2>2, <3>2, <3>3
  <2> QED BY <2>3, <2>4
<1> QED
  BY <1>2, <1>3, <1>4 DEF Unterwegs

(* A reset of the board: what it has not taken yet is lost.                *)
LEMMA BoardVerliert ==
  ASSUME Unterwegs, Wechsel, pc' = pc, GutHer \subseteq GutHer', hin' = <<>>, her' = her
  PROVE  Unterwegs' /\ Wechsel'
<1>1. her \in Seq(GutHer')
  BY SeqMonotonic DEF Unterwegs
<1>2. Unterwegs'
  BY <1>1, LeereFolge DEF Unterwegs
<1>3. Wechsel'
  <2> SUFFICES ASSUME NEW q \in Fragen, pc = q[1]
               PROVE  Letzt(hin', q[2]) /\ Letzt(her', q[3]) /\ hin' = <<>>
    BY DEF Wechsel, Letzt, Ohne
  <2> QED BY LeereFolge DEF Wechsel
<1> QED
  BY <1>2, <1>3
-----------------------------------------------------------------------------
(* The parts of Stand, and what a step of the host inside cmd_flash has to *)
(* show of them.                                                           *)
Summend == {"ee", "ee_ack", "vergleich"}

LEMMA HostStand ==
  ASSUME Stand, pc \notin Enden \cup {"load"}, UNCHANGED <<neu, cache, inkr, summe, board>>,
         pc' \in Orte, block' \in 0..Bloecke, index' \in Nat, Unterwegs', Wechsel',
         pc' \in Summend => pc \in Summend,
         pc' \in Fuellend => block' \in Nummern /\ ~(inkr /\ cache[block'] = neu[block'])
  PROVE  Stand'
<1>1. UNCHANGED <<neu, cache, inkr, board_crc, geprueft, unsicher, mode, start, buffer, flash, ee>>
  BY DEF summe, board
<1>2. Typen'
  BY <1>1 DEF Stand, Typen
<1>3. Zurecht'
  BY <1>1 DEF Zurecht, Fuellend, blocks_equal
<1>4. Geprueft'
  BY <1>1 DEF Stand, Geprueft, Summend, Enden
<1>5. Gleich'
  <2> SUFFICES ASSUME inkr, NEW b \in Nummern, cache[b] = neu[b] PROVE flash'[b] = Seite(neu', b)
    BY <1>1 DEF Gleich
  <2> QED BY <1>1 DEF Stand, Gleich
<1>6. Gespeichert' /\ BootetNurGanzes'
  BY <1>1 DEF Stand, Gespeichert, BootetNurGanzes, Ganz
<1> QED
  BY <1>2, <1>3, <1>4, <1>5, <1>6 DEF Stand

(* A plain command frame.                                                  *)
LEMMA Befehlsframe ==
  ASSUME NEW t \in Namen, NEW a \in Nat, t \in Hinaus(pc'), t \notin {"FILL", "WRITE", "EE"}
  PROVE  Nachricht(t, a, 0) \in GutHin'
<1>1. Nachricht(t, a, 0) \in Frames
  BY DEF Nachricht, Frames, Werte
<1> QED
  BY <1>1 DEF GutHin, Nachricht, Hinaus

LEMMA cmd_reset_Stand == ASSUME Stand, cmd_reset PROVE Stand'
<1>1. /\ pc = "reset" /\ pc' = "schlaf" /\ Sende(Nachricht("RESET", 0, 0))
      /\ UNCHANGED <<neu, cache, inkr, summe, board>> /\ UNCHANGED <<block, index>>
  BY DEF cmd_reset, host, ziel
<1>2. Unterwegs /\ Typen
  BY DEF Stand
<1>3. GutHin \subseteq GutHin' /\ GutHer \subseteq GutHer'
  BY <1>1, HinWaechst, HerWaechst DEF Hinaus, Zurueck, summe, board, Enden
<1>4. Nachricht("RESET", 0, 0) \in GutHin'
  <2>1. "RESET" \in Namen /\ "RESET" \in Hinaus(pc')
    BY <1>1 DEF Namen, Hinaus
  <2> QED BY <2>1, Befehlsframe
<1>5. Unterwegs' /\ Wechsel'
  BY <1>1, <1>2, <1>3, <1>4, SendeUnterwegs, WechselRuht DEF Wartend
<1> QED
  BY <1>1, <1>2, <1>5, HostStand DEF Typen, Orte, Enden, Summend, Fuellend

LEMMA send_BOOT_STOP_Stand == ASSUME Stand, send_BOOT_STOP PROVE Stand'
<1>1. /\ pc = "stop" /\ pc' = "stop_ack" /\ Sende(Nachricht("BOOT_STOP", 0, 0))
      /\ UNCHANGED <<neu, cache, inkr, summe, board>> /\ UNCHANGED <<block, index>>
  BY DEF send_BOOT_STOP, host, ziel
<1>2. Unterwegs /\ Typen
  BY DEF Stand
<1>3. GutHin \subseteq GutHin' /\ GutHer \subseteq GutHer'
  BY <1>1, HinWaechst, HerWaechst DEF Hinaus, Zurueck, summe, board, Enden
<1>4. Nachricht("BOOT_STOP", 0, 0) \in GutHin'
  <2>1. "BOOT_STOP" \in Namen /\ "BOOT_STOP" \in Hinaus(pc')
    BY <1>1 DEF Namen, Hinaus
  <2> QED BY <2>1, Befehlsframe
<1>5. Unterwegs' /\ Wechsel'
  <2>1. PICK q \in Fragen : q[1] = "stop_ack" /\ q[2] \notin Hinaus("stop") /\ q[3] \notin Zurueck("stop")
    BY DEF Fragen, Hinaus, Zurueck, Enden
  <2> QED BY <1>1, <1>2, <1>3, <1>4, <2>1, SendeFrage
<1> QED
  BY <1>1, <1>2, <1>5, HostStand DEF Typen, Orte, Enden, Summend, Fuellend

LEMMA send_STATE_REQUEST_Stand == ASSUME Stand, send_STATE_REQUEST PROVE Stand'
<1>1. /\ pc = "state" /\ pc' = "state_ack" /\ Sende(Nachricht("STATE", 0, 0))
      /\ UNCHANGED <<neu, cache, inkr, summe, board>> /\ UNCHANGED <<block, index>>
  BY DEF send_STATE_REQUEST, host, ziel
<1>2. Unterwegs /\ Typen
  BY DEF Stand
<1>3. GutHin \subseteq GutHin' /\ GutHer \subseteq GutHer'
  BY <1>1, HinWaechst, HerWaechst DEF Hinaus, Zurueck, summe, board, Enden
<1>4. Nachricht("STATE", 0, 0) \in GutHin'
  <2>1. "STATE" \in Namen /\ "STATE" \in Hinaus(pc')
    BY <1>1 DEF Namen, Hinaus
  <2> QED BY <2>1, Befehlsframe
<1>5. Unterwegs' /\ Wechsel'
  <2>1. PICK q \in Fragen : q[1] = "state_ack" /\ q[2] \notin Hinaus("state") /\ q[3] \notin Zurueck("state")
    BY DEF Fragen, Hinaus, Zurueck, Enden
  <2> QED BY <1>1, <1>2, <1>3, <1>4, <2>1, SendeFrage
<1> QED
  BY <1>1, <1>2, <1>5, HostStand DEF Typen, Orte, Enden, Summend, Fuellend

LEMMA cache_laden_Stand == ASSUME Stand, cache_laden PROVE Stand'
<1>1. /\ pc = "cache" /\ pc' = "icrc_ack" /\ Sende(Nachricht("CRC", 0, 0))
      /\ UNCHANGED <<neu, cache, inkr, summe, board>> /\ UNCHANGED <<block, index>>
  BY DEF cache_laden, host, ziel
<1>2. Unterwegs /\ Typen
  BY DEF Stand
<1>3. GutHin \subseteq GutHin' /\ GutHer \subseteq GutHer'
  BY <1>1, HinWaechst, HerWaechst DEF Hinaus, Zurueck, summe, board, Enden
<1>4. Nachricht("CRC", 0, 0) \in GutHin'
  <2>1. "CRC" \in Namen /\ "CRC" \in Hinaus(pc')
    BY <1>1 DEF Namen, Hinaus
  <2> QED BY <2>1, Befehlsframe
<1>5. Unterwegs' /\ Wechsel'
  <2>1. PICK q \in Fragen : q[1] = "icrc_ack" /\ q[2] \notin Hinaus("cache") /\ q[3] \notin Zurueck("cache")
    BY DEF Fragen, Hinaus, Zurueck, Enden
  <2> QED BY <1>1, <1>2, <1>3, <1>4, <2>1, SendeFrage
<1> QED
  BY <1>1, <1>2, <1>5, HostStand DEF Typen, Orte, Enden, Summend, Fuellend

LEMMA send_CRC16_QUERY_Stand == ASSUME Stand, send_CRC16_QUERY PROVE Stand'
<1>1. /\ pc = "crc" /\ pc' = "crc_ack" /\ Sende(Nachricht("CRC", 0, 0))
      /\ UNCHANGED <<neu, cache, inkr, summe, board>> /\ UNCHANGED <<block, index>>
  BY DEF send_CRC16_QUERY, host, ziel
<1>2. Unterwegs /\ Typen
  BY DEF Stand
<1>3. GutHin \subseteq GutHin' /\ GutHer \subseteq GutHer'
  BY <1>1, HinWaechst, HerWaechst DEF Hinaus, Zurueck, summe, board, Enden
<1>4. Nachricht("CRC", 0, 0) \in GutHin'
  <2>1. "CRC" \in Namen /\ "CRC" \in Hinaus(pc')
    BY <1>1 DEF Namen, Hinaus
  <2> QED BY <2>1, Befehlsframe
<1>5. Unterwegs' /\ Wechsel'
  <2>1. PICK q \in Fragen : q[1] = "crc_ack" /\ q[2] \notin Hinaus("crc") /\ q[3] \notin Zurueck("crc")
    BY DEF Fragen, Hinaus, Zurueck, Enden
  <2> QED BY <1>1, <1>2, <1>3, <1>4, <2>1, SendeFrage
<1> QED
  BY <1>1, <1>2, <1>5, HostStand DEF Typen, Orte, Enden, Summend, Fuellend

LEMMA kein_cache_Stand == ASSUME Stand, kein_cache PROVE Stand'
<1>1. /\ pc = "cache" /\ pc' = "versuch" /\ UNCHANGED <<hin, her>>
      /\ UNCHANGED <<neu, cache, inkr, summe, board>> /\ UNCHANGED <<block, index>>
  BY DEF kein_cache, host, ziel, bus
<1>2. Unterwegs /\ Typen
  BY DEF Stand
<1>3. GutHin \subseteq GutHin' /\ GutHer \subseteq GutHer'
  BY <1>1, HinWaechst, HerWaechst DEF Hinaus, Zurueck, summe, board, Enden
<1>4. Unterwegs' /\ Wechsel'
  BY <1>1, <1>2, <1>3, UnterwegsBleibt, WechselRuht DEF Unterwegs, Wartend
<1> QED
  BY <1>1, <1>2, <1>4, HostStand DEF Typen, Orte, Enden, Summend, Fuellend

LEMMA versuch_Stand == ASSUME Stand, versuch PROVE Stand'
<1>1. /\ pc = "versuch" /\ pc' = "block" /\ UNCHANGED <<hin, her>>
      /\ UNCHANGED <<neu, cache, inkr, summe, board>> /\ block' = 0 /\ index' = index
  BY DEF versuch, host, ziel, bus
<1>2. Unterwegs /\ Typen
  BY DEF Stand
<1>3. GutHin \subseteq GutHin' /\ GutHer \subseteq GutHer'
  BY <1>1, HinWaechst, HerWaechst DEF Hinaus, Zurueck, summe, board, Enden
<1>4. Unterwegs' /\ Wechsel'
  BY <1>1, <1>2, <1>3, UnterwegsBleibt, WechselRuht DEF Unterwegs, Wartend
<1> QED
  BY <1>1, <1>2, <1>4, HostStand, FlashenAssumption DEF Typen, Orte, Enden, Summend, Fuellend

LEMMA flash_failed_Stand == ASSUME Stand, flash_failed PROVE Stand'
<1>1. /\ pc = "versuch" /\ pc' = "verloren" /\ UNCHANGED <<hin, her>>
      /\ UNCHANGED <<neu, cache, inkr, summe, board>> /\ UNCHANGED <<block, index>>
  BY DEF flash_failed, host, ziel, bus
<1>2. Unterwegs /\ Typen
  BY DEF Stand
<1>3. GutHin \subseteq GutHin' /\ GutHer \subseteq GutHer'
  BY <1>1, HinWaechst, HerWaechst DEF Hinaus, Zurueck, summe, board, Enden
<1>4. Unterwegs' /\ Wechsel'
  BY <1>1, <1>2, <1>3, UnterwegsBleibt, WechselRuht DEF Unterwegs, Wartend
<1> QED
  BY <1>1, <1>2, <1>4, HostStand DEF Typen, Orte, Enden, Summend, Fuellend

LEMMA alle_bloecke_Stand == ASSUME Stand, alle_bloecke PROVE Stand'
<1>1. /\ pc = "block" /\ pc' = "crc" /\ UNCHANGED <<hin, her>>
      /\ UNCHANGED <<neu, cache, inkr, summe, board>> /\ UNCHANGED <<block, index>>
  BY DEF alle_bloecke, host, ziel, bus
<1>2. Unterwegs /\ Typen
  BY DEF Stand
<1>3. GutHin \subseteq GutHin' /\ GutHer \subseteq GutHer'
  BY <1>1, HinWaechst, HerWaechst DEF Hinaus, Zurueck, summe, board, Enden
<1>4. Unterwegs' /\ Wechsel'
  BY <1>1, <1>2, <1>3, UnterwegsBleibt, WechselRuht DEF Unterwegs, Wartend
<1> QED
  BY <1>1, <1>2, <1>4, HostStand DEF Typen, Orte, Enden, Summend, Fuellend

LEMMA wiederholen_Stand == ASSUME Stand, wiederholen PROVE Stand'
<1>1. /\ pc = "wiederholen" /\ pc' = "reset" /\ UNCHANGED <<hin, her>>
      /\ UNCHANGED <<neu, cache, inkr, summe, board>> /\ UNCHANGED <<block, index>>
  BY DEF wiederholen, host, ziel, bus
<1>2. Unterwegs /\ Typen
  BY DEF Stand
<1>3. GutHin \subseteq GutHin' /\ GutHer \subseteq GutHer'
  BY <1>1, HinWaechst, HerWaechst DEF Hinaus, Zurueck, summe, board, Enden
<1>4. Unterwegs' /\ Wechsel'
  BY <1>1, <1>2, <1>3, UnterwegsBleibt, WechselRuht DEF Unterwegs, Wartend
<1> QED
  BY <1>1, <1>2, <1>4, HostStand DEF Typen, Orte, Enden, Summend, Fuellend

LEMMA sleep_Stand == ASSUME Stand, sleep PROVE Stand'
<1>1. /\ pc = "schlaf" /\ pc' = "stop" /\ hin = <<>> /\ UNCHANGED <<hin, her>>
      /\ UNCHANGED <<neu, cache, inkr, summe, board>> /\ UNCHANGED <<block, index>>
  BY DEF sleep, host, ziel, bus
<1>2. Unterwegs /\ Typen
  BY DEF Stand
<1>3. GutHer \subseteq GutHer'
  BY <1>1, HerWaechst DEF Zurueck, summe, board, Enden
<1>4. Unterwegs' /\ Wechsel'
  BY <1>1, <1>2, <1>3, SeqMonotonic, LeereFolge, WechselRuht DEF Unterwegs, Wartend
<1> QED
  BY <1>1, <1>2, <1>4, HostStand DEF Typen, Orte, Enden, Summend, Fuellend

LEMMA recv_BOOT_STOP_ACK_Stand == ASSUME Stand, recv_BOOT_STOP_ACK PROVE Stand'
<1>1. /\ pc = "stop_ack" /\ UNCHANGED <<neu, cache, inkr, summe, board>>
      /\ block' \in 0..Bloecke /\ index' \in Nat
  BY DEF recv_BOOT_STOP_ACK, host, ziel, Stand, Typen
<1>2. Unterwegs /\ Wechsel /\ Typen
  BY DEF Stand
<1>3. CASE Empfange("BOOT_STOP_ACK")
  <2>1. pc' \in {"state"}
    BY <1>3 DEF recv_BOOT_STOP_ACK, transport_error, Empfange, Falsch, Timeout
  <2>2. PICK q \in Fragen : q[1] = "stop_ack" /\ q[3] = "BOOT_STOP_ACK"
    BY DEF Fragen
  <2>3. Unterwegs' /\ Wechsel'
    BY <1>1, <1>2, <1>3, <2>2, EmpfangeAntwort
  <2> QED
    BY <1>1, <2>1, <2>3, HostStand DEF Orte, Enden, Summend, Fuellend
<1>4. CASE ~Empfange("BOOT_STOP_ACK")
  <2>1. pc' = "abbruch" /\ transport_error("BOOT_STOP_ACK")
    BY <1>4 DEF recv_BOOT_STOP_ACK
  <2>2. GutHin \subseteq GutHin' /\ GutHer \subseteq GutHer'
    BY <1>1, <2>1, HinWaechst, HerWaechst DEF Hinaus, Zurueck, summe, board, Enden, Namen
  <2>3. Unterwegs' /\ Wechsel'
    BY <1>2, <2>1, <2>2, FehlerUnterwegs, WechselRuht DEF Wartend
  <2> QED
    BY <1>1, <2>1, <2>3, HostStand DEF Orte, Enden, Summend, Fuellend
<1> QED
  BY <1>3, <1>4

LEMMA recv_STATE_REPLAY_Stand == ASSUME Stand, recv_STATE_REPLAY PROVE Stand'
<1>1. /\ pc = "state_ack" /\ UNCHANGED <<neu, cache, inkr, summe, board>>
      /\ block' \in 0..Bloecke /\ index' \in Nat
  BY DEF recv_STATE_REPLAY, host, ziel, Stand, Typen
<1>2. Unterwegs /\ Wechsel /\ Typen
  BY DEF Stand
<1>3. CASE Empfange("STATE")
  <2>1. pc' \in {"abbruch", "cache", "versuch"}
    BY <1>3 DEF recv_STATE_REPLAY, transport_error, Empfange, Falsch, Timeout
  <2>2. PICK q \in Fragen : q[1] = "state_ack" /\ q[3] = "STATE"
    BY DEF Fragen
  <2>3. Unterwegs' /\ Wechsel'
    BY <1>1, <1>2, <1>3, <2>2, EmpfangeAntwort
  <2> QED
    BY <1>1, <2>1, <2>3, HostStand DEF Orte, Enden, Summend, Fuellend
<1>4. CASE ~Empfange("STATE")
  <2>1. pc' = "abbruch" /\ transport_error("STATE")
    BY <1>4 DEF recv_STATE_REPLAY
  <2>2. GutHin \subseteq GutHin' /\ GutHer \subseteq GutHer'
    BY <1>1, <2>1, HinWaechst, HerWaechst DEF Hinaus, Zurueck, summe, board, Enden, Namen
  <2>3. Unterwegs' /\ Wechsel'
    BY <1>2, <2>1, <2>2, FehlerUnterwegs, WechselRuht DEF Wartend
  <2> QED
    BY <1>1, <2>1, <2>3, HostStand DEF Orte, Enden, Summend, Fuellend
<1> QED
  BY <1>3, <1>4

LEMMA recv_BUFFER_WRITE_ACK_Stand == ASSUME Stand, recv_BUFFER_WRITE_ACK PROVE Stand'
<1>1. /\ pc = "schreib_ack" /\ UNCHANGED <<neu, cache, inkr, summe, board>>
      /\ block' \in 0..Bloecke /\ index' \in Nat
  <2>1. /\ pc = "schreib_ack" /\ UNCHANGED <<neu, cache, inkr, summe, board>>
        /\ (block' = block + 1 \/ block' = block) /\ index' = index
    BY DEF recv_BUFFER_WRITE_ACK, host, ziel
  <2>2. block \in Nummern /\ index \in Nat
    BY <2>1 DEF Stand, Typen, Zurecht, Fuellend
  <2> QED BY <2>1, <2>2, FlashenAssumption DEF Nummern
<1>2. Unterwegs /\ Wechsel /\ Typen
  BY DEF Stand
<1>3. CASE Empfange("WRITE_ACK")
  <2>1. pc' \in {"block"}
    BY <1>3 DEF recv_BUFFER_WRITE_ACK, transport_error, Empfange, Falsch, Timeout
  <2>2. PICK q \in Fragen : q[1] = "schreib_ack" /\ q[3] = "WRITE_ACK"
    BY DEF Fragen
  <2>3. Unterwegs' /\ Wechsel'
    BY <1>1, <1>2, <1>3, <2>2, EmpfangeAntwort
  <2> QED
    BY <1>1, <2>1, <2>3, HostStand DEF Orte, Enden, Summend, Fuellend
<1>4. CASE ~Empfange("WRITE_ACK")
  <2>1. pc' = "wiederholen" /\ transport_error("WRITE_ACK")
    BY <1>4 DEF recv_BUFFER_WRITE_ACK
  <2>2. GutHin \subseteq GutHin' /\ GutHer \subseteq GutHer'
    BY <1>1, <2>1, HinWaechst, HerWaechst DEF Hinaus, Zurueck, summe, board, Enden, Namen
  <2>3. Unterwegs' /\ Wechsel'
    BY <1>2, <2>1, <2>2, FehlerUnterwegs, WechselRuht DEF Wartend
  <2> QED
    BY <1>1, <2>1, <2>3, HostStand DEF Orte, Enden, Summend, Fuellend
<1> QED
  BY <1>3, <1>4

LEMMA recv_EEPROM_WRITE_ACK_Stand == ASSUME Stand, recv_EEPROM_WRITE_ACK PROVE Stand'
<1>1. /\ pc = "ee_ack" /\ UNCHANGED <<neu, cache, inkr, summe, board>>
      /\ block' \in 0..Bloecke /\ index' \in Nat
  BY DEF recv_EEPROM_WRITE_ACK, host, ziel, Stand, Typen
<1>2. Unterwegs /\ Wechsel /\ Typen
  BY DEF Stand
<1>3. CASE Empfange("EE_ACK")
  <2>1. pc' \in {"vergleich", "ee"}
    BY <1>3 DEF recv_EEPROM_WRITE_ACK, transport_error, Empfange, Falsch, Timeout
  <2>2. PICK q \in Fragen : q[1] = "ee_ack" /\ q[3] = "EE_ACK"
    BY DEF Fragen
  <2>3. Unterwegs' /\ Wechsel'
    BY <1>1, <1>2, <1>3, <2>2, EmpfangeAntwort
  <2> QED
    BY <1>1, <2>1, <2>3, HostStand DEF Orte, Enden, Summend, Fuellend
<1>4. CASE ~Empfange("EE_ACK")
  <2>1. pc' = "load" /\ transport_error("EE_ACK")
    BY <1>4 DEF recv_EEPROM_WRITE_ACK
  <2>2. GutHin \subseteq GutHin' /\ GutHer \subseteq GutHer'
    BY <1>1, <2>1, HinWaechst, HerWaechst DEF Hinaus, Zurueck, summe, board, Enden, Namen
  <2>3. Unterwegs' /\ Wechsel'
    BY <1>2, <2>1, <2>2, FehlerUnterwegs, WechselRuht DEF Wartend
  <2> QED
    BY <1>1, <2>1, <2>3, HostStand DEF Orte, Enden, Summend, Fuellend
<1> QED
  BY <1>3, <1>4

LEMMA ueberspringen_Stand == ASSUME Stand, ueberspringen PROVE Stand'
<1>1. /\ pc = "block" /\ pc' = "block" /\ UNCHANGED <<hin, her>>
      /\ UNCHANGED <<neu, cache, inkr, summe, board>> /\ block' \in 0..Bloecke /\ index' \in Nat
  BY FlashenAssumption DEF ueberspringen, host, bus, Stand, Typen
<1>2. Unterwegs /\ Typen
  BY DEF Stand
<1>3. GutHin \subseteq GutHin' /\ GutHer \subseteq GutHer'
  BY <1>1, HinWaechst, HerWaechst DEF Hinaus, Zurueck, summe, board, Enden
<1>4. Unterwegs' /\ Wechsel'
  BY <1>1, <1>2, <1>3, UnterwegsBleibt, WechselRuht DEF Unterwegs, Wartend
<1> QED
  BY <1>1, <1>2, <1>4, HostStand DEF Typen, Orte, Enden, Summend, Fuellend

LEMMA block_beginnen_Stand == ASSUME Stand, block_beginnen PROVE Stand'
<1>1. /\ pc = "block" /\ pc' = "fuellen" /\ UNCHANGED <<hin, her>>
      /\ UNCHANGED <<neu, cache, inkr, summe, board>> /\ block' = block /\ index' = 0
      /\ block < Bloecke /\ ~blocks_equal
  BY DEF block_beginnen, host, bus
<1>2. Unterwegs /\ Typen
  BY DEF Stand
<1>3. GutHin \subseteq GutHin' /\ GutHer \subseteq GutHer'
  BY <1>1, HinWaechst, HerWaechst DEF Hinaus, Zurueck, summe, board, Enden
<1>4. Unterwegs' /\ Wechsel'
  BY <1>1, <1>2, <1>3, UnterwegsBleibt, WechselRuht DEF Unterwegs, Wartend
<1>5. block \in 0..Bloecke /\ block \in Nummern
  BY <1>1, <1>2, FlashenAssumption DEF Typen, Nummern
<1> QED
  BY <1>1, <1>4, <1>5, HostStand DEF Orte, Enden, Summend, Fuellend, blocks_equal

LEMMA send_BUFFER_FILL_Stand == ASSUME Stand, send_BUFFER_FILL PROVE Stand'
<1> DEFINE m == Nachricht("FILL", index, Wort(neu, block))
<1>1. /\ pc = "fuellen" /\ Sende(m) /\ UNCHANGED <<neu, cache, inkr, summe, board>> /\ block' = block
      /\ index' = index + 1 /\ pc' \in {"fuell_ack", "fuellen"}
  BY DEF send_BUFFER_FILL, host
<1>2. /\ Unterwegs /\ Typen /\ block \in Nummern /\ ~(inkr /\ cache[block] = neu[block])
      /\ index' \in Nat
  BY <1>1 DEF Stand, Zurecht, Fuellend, Typen, blocks_equal
<1>3. GutHin \subseteq GutHin' /\ GutHer \subseteq GutHer'
  BY <1>1, HinWaechst, HerWaechst DEF Hinaus, Zurueck, summe, board, Enden
<1>4. m \in GutHin'
  <2>1. Wort(neu, block) \in Worte
    BY <1>2 DEF Typen, Firmwares, Wort, Worte
  <2>2. index \in Nat
    BY <1>2 DEF Typen
  <2>3. m \in Frames /\ m.typ = "FILL" /\ m.wert \in Worte
    BY <2>1, <2>2 DEF Frames, Nachricht, Werte, Namen
  <2>4. "FILL" \in Hinaus(pc')
    BY <1>1 DEF Hinaus
  <2> HIDE DEF m
  <2> QED BY <2>3, <2>4 DEF GutHin, Hinaus
<1> HIDE DEF m
<1>5. Unterwegs' /\ Wechsel'
  BY <1>1, <1>2, <1>3, <1>4, SendeUnterwegs, WechselRuht DEF Wartend
<1>6. block' \in 0..Bloecke
  BY <1>1, <1>2 DEF Typen
<1> QED
  BY <1>1, <1>2, <1>5, <1>6, HostStand DEF Orte, Enden, Summend, Fuellend

LEMMA recv_BUFFER_FILL_ACK_Stand == ASSUME Stand, recv_BUFFER_FILL_ACK PROVE Stand'
<1>1. /\ pc = "fuell_ack" /\ UNCHANGED <<neu, cache, inkr, summe, board>>
      /\ UNCHANGED <<block, index>> /\ pc' \in {"fuellen", "schreiben", "wiederholen"}
      /\ UNCHANGED hin
      /\ her' = her \/ (her # <<>> /\ her' = Tail(her))
  BY DEF recv_BUFFER_FILL_ACK, host, ziel, Fuellend, transport_error, Empfange, Falsch, Timeout
<1>2. Unterwegs /\ Typen /\ block \in Nummern /\ ~(inkr /\ cache[block] = neu[block])
  BY <1>1 DEF Stand, Zurecht, Fuellend, blocks_equal
<1>3. GutHin \subseteq GutHin' /\ GutHer \subseteq GutHer'
  BY <1>1, HinWaechst, HerWaechst DEF Hinaus, Zurueck, summe, board, Enden, Fuellend
<1>4. hin \in Seq(GutHin') /\ her \in Seq(GutHer')
  BY <1>2, <1>3, UnterwegsBleibt
<1>5. Unterwegs' /\ Wechsel'
  BY <1>1, <1>4, Abnehmen, WechselRuht DEF Unterwegs, Wartend, Fuellend
<1> QED
  BY <1>1, <1>2, <1>5, HostStand DEF Typen, Orte, Enden, Summend, Fuellend

LEMMA send_BUFFER_WRITE_Stand == ASSUME Stand, send_BUFFER_WRITE PROVE Stand'
<1> DEFINE m == Nachricht("WRITE", block, 0)
<1>1. /\ pc = "schreiben" /\ pc' = "schreib_ack" /\ Sende(m)
      /\ UNCHANGED <<neu, cache, inkr, summe, board>> /\ UNCHANGED <<block, index>>
  BY DEF send_BUFFER_WRITE, host, ziel
<1>2. Unterwegs /\ Typen /\ block \in Nummern /\ block \in Nat /\ ~(inkr /\ cache[block] = neu[block])
  BY <1>1 DEF Stand, Zurecht, Fuellend, Nummern, blocks_equal
<1>3. GutHin \subseteq GutHin' /\ GutHer \subseteq GutHer'
  BY <1>1, HinWaechst, HerWaechst DEF Hinaus, Zurueck, summe, board, Enden
<1>4. m \in GutHin'
  <2>1. m \in Frames /\ m.typ = "WRITE" /\ m.adr = block
    BY <1>2 DEF Frames, Nachricht, Werte, Namen
  <2>2. "WRITE" \in Hinaus(pc')
    BY <1>1 DEF Hinaus
  <2>3. m.typ = "WRITE" /\ inkr' => cache'[m.adr] # neu'[m.adr]
    BY <1>1, <1>2, <2>1
  <2> HIDE DEF m
  <2> QED BY <2>1, <2>2, <2>3 DEF GutHin, Hinaus
<1> HIDE DEF m
<1>5. Unterwegs' /\ Wechsel'
  <2>1. PICK q \in Fragen : /\ q[1] = "schreib_ack" /\ q[2] \notin Hinaus("schreiben")
                            /\ q[3] \notin Zurueck("schreiben")
    BY DEF Fragen, Hinaus, Zurueck
  <2> QED BY <1>1, <1>2, <1>3, <1>4, <2>1, SendeFrage
<1> QED
  BY <1>1, <1>2, <1>5, HostStand DEF Typen, Orte, Enden, Summend, Fuellend

LEMMA cache_vergleichen_Stand == ASSUME Stand, cache_vergleichen PROVE Stand'
<1>1. /\ pc = "icrc_ack" /\ UNCHANGED <<neu, cache, summe, board, block, index>>
  BY DEF cache_vergleichen, ziel
<1>2. Unterwegs /\ Wechsel /\ Typen /\ Geprueft /\ Gespeichert /\ BootetNurGanzes
  BY DEF Stand
<1>3. CASE Empfange("CRC")
  <2>1. pc' = "versuch" /\ inkr' = (Head(her).wert = Inhalt(cache))
    BY <1>3 DEF cache_vergleichen, inkrementell, transport_error, Empfange, Falsch, Timeout
  <2>2. PICK q \in Fragen : q[1] = "icrc_ack" /\ q[3] = "CRC"
    BY DEF Fragen
  <2>3. Unterwegs' /\ Wechsel' /\ Head(her) \in GutHer /\ Head(her).typ = "CRC"
    BY <1>1, <1>2, <1>3, <2>2, EmpfangeAntwort
  <2>4. Head(her).wert = flash
    BY <1>1, <2>3 DEF GutHer
  <2>5. Gleich'
    <3> SUFFICES ASSUME inkr', NEW b \in Nummern, cache'[b] = neu'[b]
                 PROVE  flash'[b] = Seite(neu', b)
      BY DEF Gleich
    <3>1. flash = Inhalt(cache) /\ cache[b] = neu[b] /\ flash' = flash /\ neu' = neu
      BY <1>1, <2>1, <2>4 DEF board
    <3>2. flash[b] = Seite(cache, b)
      BY <3>1 DEF Inhalt
    <3>3. Seite(cache, b) = Seite(neu, b)
      BY <3>1 DEF Seite, Wort
    <3> QED BY <3>1, <3>2, <3>3
  <2>6. inkr' \in BOOLEAN
    BY <2>1
  <2>7. Typen'
    BY <1>1, <1>2, <2>1, <2>6 DEF Typen, Orte, summe, board
  <2>8. Zurecht' /\ Geprueft' /\ Gespeichert' /\ BootetNurGanzes'
    BY <1>1, <1>2, <2>1 DEF Zurecht, Fuellend, Geprueft, Gespeichert, BootetNurGanzes, Ganz, summe, board
  <2> QED
    BY <2>3, <2>5, <2>7, <2>8 DEF Stand
<1>4. CASE ~Empfange("CRC")
  <2>1. pc' = "abbruch" /\ transport_error("CRC") /\ inkr' = inkr
    BY <1>4 DEF cache_vergleichen
  <2>2. GutHin \subseteq GutHin' /\ GutHer \subseteq GutHer'
    BY <1>1, <2>1, HinWaechst, HerWaechst DEF Hinaus, Zurueck, summe, board, Enden, Namen
  <2>3. Unterwegs' /\ Wechsel'
    BY <1>2, <2>1, <2>2, FehlerUnterwegs, WechselRuht DEF Wartend
  <2> QED
    BY <1>1, <1>2, <2>1, <2>3, HostStand DEF Typen, Orte, Enden, Summend, Fuellend
<1> QED
  BY <1>3, <1>4

LEMMA recv_CRC16_REPLAY_Stand == ASSUME Stand, recv_CRC16_REPLAY PROVE Stand'
<1>1. /\ pc = "crc_ack" /\ index' = 1
      /\ UNCHANGED <<neu, cache, inkr, geprueft, unsicher, board, block>>
  BY DEF recv_CRC16_REPLAY, host
<1>2. Unterwegs /\ Wechsel /\ Typen /\ Geprueft /\ Gleich /\ Gespeichert /\ BootetNurGanzes
  BY DEF Stand
<1>3. CASE Empfange("CRC")
  <2>1. pc' = "ee" /\ board_crc' = Head(her).wert
    BY <1>3 DEF recv_CRC16_REPLAY, transport_error, Empfange, Falsch, Timeout
  <2>2. PICK q \in Fragen : q[1] = "crc_ack" /\ q[3] = "CRC"
    BY DEF Fragen
  <2>3. Unterwegs' /\ Wechsel' /\ Head(her) \in GutHer /\ Head(her).typ = "CRC"
    BY <1>1, <1>2, <1>3, <2>2, EmpfangeAntwort
  <2>4. Head(her).wert = flash
    BY <1>1, <2>3 DEF GutHer
  <2>5. Gleich'
    <3> SUFFICES ASSUME inkr', NEW b \in Nummern, cache'[b] = neu'[b]
                 PROVE  flash'[b] = Seite(neu', b)
      BY DEF Gleich
    <3> QED BY <1>1, <1>2 DEF Gleich, Enden, board
  <2>6. Typen'
    BY <1>1, <1>2, <2>1 DEF Typen, Orte, board
  <2>7. Geprueft'
    BY <1>1, <1>2, <2>1, <2>4 DEF Geprueft, board
  <2>8. Zurecht' /\ Gespeichert' /\ BootetNurGanzes'
    BY <1>1, <1>2, <2>1 DEF Zurecht, Fuellend, Gespeichert, BootetNurGanzes, Ganz, board
  <2> QED
    BY <2>3, <2>5, <2>6, <2>7, <2>8 DEF Stand
<1>4. CASE ~Empfange("CRC")
  <2>1. pc' = "load" /\ transport_error("CRC") /\ board_crc' = board_crc
    BY <1>4 DEF recv_CRC16_REPLAY
  <2>2. GutHin \subseteq GutHin' /\ GutHer \subseteq GutHer'
    BY <1>1, <2>1, HinWaechst, HerWaechst DEF Hinaus, Zurueck, board, Enden, Namen
  <2>3. Unterwegs' /\ Wechsel'
    BY <1>2, <2>1, <2>2, FehlerUnterwegs, WechselRuht DEF Wartend
  <2> QED
    BY <1>1, <1>2, <2>1, <2>3, HostStand DEF Typen, Orte, Enden, Summend, Fuellend, summe
<1> QED
  BY <1>3, <1>4

LEMMA write_eeprom_byte_Stand == ASSUME Stand, write_eeprom_byte PROVE Stand'
<1> DEFINE m == Nachricht("EE", index, board_crc)
<1>1. /\ pc = "ee" /\ pc' = "ee_ack" /\ Sende(m)
      /\ unsicher' = (unsicher \/ board_crc # Inhalt(neu))
      /\ UNCHANGED <<neu, cache, inkr, block, index, board_crc, geprueft, board>>
  BY DEF write_eeprom_byte, host, ziel
<1>2. Unterwegs /\ Typen /\ Geprueft /\ Gleich /\ Gespeichert /\ BootetNurGanzes
  BY DEF Stand
<1>3. GutHin \subseteq GutHin' /\ GutHer \subseteq GutHer'
  BY <1>1, HinWaechst, HerWaechst DEF Hinaus, Zurueck, board, Enden
<1>4. m \in GutHin'
  <2>1. board_crc \in Inhalte /\ index \in Nat
    BY <1>1, <1>2 DEF Geprueft, Typen
  <2>2. m \in Frames /\ m.typ = "EE" /\ m.wert = board_crc
    BY <2>1 DEF Frames, Nachricht, Werte, Namen
  <2>3. unsicher' \/ Ganz(board_crc)
    BY <1>1, <1>2 DEF Ganz, Typen
  <2>4. "EE" \in Hinaus(pc')
    BY <1>1 DEF Hinaus
  <2> HIDE DEF m
  <2> QED BY <2>1, <2>2, <2>3, <2>4 DEF GutHin, Hinaus, Ganz
<1> HIDE DEF m
<1>5. Unterwegs' /\ Wechsel'
  <2>1. PICK q \in Fragen : /\ q[1] = "ee_ack" /\ q[2] \notin Hinaus("ee")
                            /\ q[3] \notin Zurueck("ee")
    BY DEF Fragen, Hinaus, Zurueck, Enden
  <2> QED BY <1>1, <1>2, <1>3, <1>4, <2>1, SendeFrage
<1>6. unsicher' \in BOOLEAN
  BY <1>1
<1>7. Typen'
  BY <1>1, <1>2, <1>6 DEF Typen, Orte, board
<1>8. Gleich'
  <2> SUFFICES ASSUME inkr', NEW b \in Nummern, cache'[b] = neu'[b]
               PROVE  flash'[b] = Seite(neu', b)
    BY DEF Gleich
  <2> QED BY <1>1, <1>2 DEF Gleich, Enden, board
<1>9. Zurecht' /\ Geprueft'
  BY <1>1, <1>2 DEF Zurecht, Fuellend, Geprueft, board
<1>10. Gespeichert' /\ BootetNurGanzes'
  BY <1>1, <1>2 DEF Gespeichert, BootetNurGanzes, Ganz, board
<1> QED
  BY <1>5, <1>7, <1>8, <1>9, <1>10 DEF Stand

LEMMA crc_vergleichen_Stand == ASSUME Stand, crc_vergleichen PROVE Stand'
<1>1. /\ pc = "vergleich" /\ UNCHANGED <<neu, cache, inkr, block, index, board_crc, unsicher, board>>
      /\ UNCHANGED <<hin, her>>
      /\ \/ board_crc = Inhalt(neu) /\ geprueft' = TRUE /\ pc' = "load"
         \/ geprueft' = geprueft /\ pc' = "crc_fehler"
  BY DEF crc_vergleichen, crc_stimmt, host, ziel, bus
<1>2. Unterwegs /\ Typen /\ Geprueft /\ Gleich /\ Gespeichert /\ BootetNurGanzes
  BY DEF Stand
<1>3. GutHin \subseteq GutHin' /\ GutHer \subseteq GutHer'
  BY <1>1, HinWaechst, HerWaechst DEF Hinaus, Zurueck, board, Enden
<1>4. Unterwegs' /\ Wechsel'
  BY <1>1, <1>2, <1>3, UnterwegsBleibt, WechselRuht DEF Unterwegs, Wartend
<1>5. Typen'
  BY <1>1, <1>2 DEF Typen, Orte, Enden, board
<1>6. Geprueft'
  <2>1. board_crc = flash /\ ~geprueft
    BY <1>1, <1>2 DEF Geprueft
  <2> QED BY <1>1, <2>1 DEF Geprueft, Inhalt, Seite, Wort, board
<1>7. Gleich'
  <2> SUFFICES ASSUME inkr', NEW b \in Nummern, cache'[b] = neu'[b]
               PROVE  flash'[b] = Seite(neu', b)
    BY DEF Gleich
  <2> QED BY <1>1, <1>2 DEF Gleich, Enden, board
<1>8. Zurecht' /\ Gespeichert' /\ BootetNurGanzes'
  BY <1>1, <1>2 DEF Zurecht, Fuellend, Gespeichert, BootetNurGanzes, Ganz, board
<1> QED
  BY <1>4, <1>5, <1>6, <1>7, <1>8 DEF Stand

LEMMA load_app_Stand == ASSUME Stand, load_app PROVE Stand'
<1>1. /\ pc = "load" /\ pc' = "fertig" /\ Sende(Nachricht("LOAD_APP", 0, 0))
      /\ cache' = neu /\ UNCHANGED <<neu, inkr, block, index, board_crc, geprueft, unsicher, board>>
  BY DEF load_app, ziel, summe
<1>2. Unterwegs /\ Typen /\ Geprueft /\ Gespeichert /\ BootetNurGanzes
  BY DEF Stand
<1>3. GutHin \subseteq GutHin' /\ GutHer \subseteq GutHer'
  BY <1>1, HinWaechst, HerWaechst DEF Hinaus, Zurueck, board, Enden
<1>4. Nachricht("LOAD_APP", 0, 0) \in GutHin'
  <2>1. "LOAD_APP" \in Namen /\ "LOAD_APP" \in Hinaus(pc')
    BY <1>1 DEF Namen, Hinaus, Enden
  <2> QED BY <2>1, Befehlsframe
<1>5. Unterwegs' /\ Wechsel'
  BY <1>1, <1>2, <1>3, <1>4, SendeUnterwegs, WechselRuht DEF Wartend
<1>6. Typen'
  BY <1>1, <1>2 DEF Typen, Orte, Enden, board
<1>7. Geprueft'
  BY <1>1, <1>2 DEF Geprueft, Inhalt, Seite, Wort, board
<1>8. Zurecht' /\ Gleich' /\ Gespeichert' /\ BootetNurGanzes'
  BY <1>1, <1>2 DEF Zurecht, Fuellend, Gleich, Enden, Gespeichert, BootetNurGanzes, Ganz, board
<1> QED
  BY <1>5, <1>6, <1>7, <1>8 DEF Stand

LEMMA cmd_flash_Stand == ASSUME Stand, NEW f \in Neue, NEW i \in BOOLEAN, cmd_flash(f, i) PROVE Stand'
<1>1. /\ pc' \in {"reset", "versuch"} /\ hin' = <<>> /\ her' = <<>>
      /\ neu' = f /\ inkr' = FALSE /\ geprueft' = FALSE
      /\ UNCHANGED <<cache, block, index, board_crc, unsicher, board>>
  BY DEF cmd_flash, ziel
<1>2. Typen /\ Gespeichert /\ BootetNurGanzes
  BY DEF Stand
<1>3. Unterwegs' /\ Wechsel'
  BY <1>1, LeereFolge, WechselRuht DEF Unterwegs, Wartend
<1>4. Typen'
  BY <1>1, <1>2, FlashenAssumption DEF Typen, Orte, board
<1>5. Zurecht' /\ Geprueft' /\ Gleich'
  BY <1>1 DEF Zurecht, Fuellend, Geprueft, Gleich
<1>6. Gespeichert' /\ BootetNurGanzes'
  BY <1>1, <1>2 DEF Gespeichert, BootetNurGanzes, Ganz, board
<1> QED
  BY <1>3, <1>4, <1>5, <1>6 DEF Stand

-----------------------------------------------------------------------------
(* Steps of the board that leave flash and EEPROM alone.                   *)
LEMMA BoardStand ==
  ASSUME Stand, UNCHANGED <<pc, host, ziel, summe, flash, ee>>, Unterwegs', Wechsel',
         mode' \in Modi, buffer' \in Seiten,
         mode' = "app" /\ start' = "boot" => unsicher \/ Ganz(flash)
  PROVE  Stand'
<1>1. UNCHANGED <<pc, neu, cache, inkr, block, index, board_crc, geprueft, unsicher, flash, ee>>
  BY DEF host, ziel, summe
<1>2. Typen'
  BY <1>1 DEF Stand, Typen
<1>3. Zurecht' /\ Geprueft'
  BY <1>1 DEF Stand, Zurecht, blocks_equal, Geprueft, Inhalt, Seite, Wort
<1>4. Gleich'
  <2> SUFFICES ASSUME pc \notin Enden, inkr, NEW b \in Nummern, cache[b] = neu[b]
               PROVE  flash'[b] = Seite(neu', b)
    BY <1>1 DEF Gleich
  <2> QED BY <1>1 DEF Stand, Gleich
<1>5. Gespeichert' /\ BootetNurGanzes'
  BY <1>1 DEF Stand, Gespeichert, BootetNurGanzes, Ganz
<1> QED
  BY <1>2, <1>3, <1>4, <1>5 DEF Stand

LEMMA BoardGut ==
  ASSUME UNCHANGED <<pc, host, summe, flash>>
  PROVE  GutHin \subseteq GutHin' /\ GutHer \subseteq GutHer'
  BY HinWaechst, HerWaechst DEF host, summe

(* The frame the board takes, and its answer.                              *)
LEMMA Kopf ==
  ASSUME Unterwegs, NEW t, kommt(t)
  PROVE  hin # <<>> /\ Head(hin) \in GutHin /\ Head(hin).typ = t /\ t \in Hinaus(pc)
<1>1. hin # <<>> /\ Head(hin).typ = t /\ hin \in Seq(GutHin)
  BY DEF kommt, Unterwegs
<1>2. Head(hin) \in GutHin
  BY <1>1, HeadTailProperties
<1> QED
  BY <1>1, <1>2 DEF GutHin

LEMMA AntwortUnterwegs ==
  ASSUME Unterwegs, Wechsel, NEW t, kommt(t), pc' = pc,
         GutHin \subseteq GutHin', GutHer \subseteq GutHer',
         NEW a \in Namen, NEW w \in Werte, Antworte(Nachricht(a, 0, w)),
         a \in Zurueck(pc), a = "CRC" => w = flash',
         \A q \in Fragen : pc = q[1] /\ a = q[3] => t = q[2]
  PROVE  Unterwegs' /\ Wechsel'
<1> DEFINE m == Nachricht(a, 0, w)
<1>1. m \in Frames /\ m.typ = a /\ m.wert = w
  BY DEF Nachricht, Frames
<1>2. hin' = Tail(hin) /\ (her' = her \/ her' = Append(her, m))
  BY DEF Antworte
<1> HIDE DEF m
<1>3. m \in GutHer'
  BY <1>1 DEF GutHer, Zurueck
<1>4. hin # <<>> /\ Head(hin).typ = t
  BY Kopf
<1> QED
  BY <1>1, <1>2, <1>3, <1>4, BoardNimmt

LEMMA SchweigeUnterwegs ==
  ASSUME Unterwegs, Wechsel, NEW t, kommt(t), pc' = pc,
         GutHin \subseteq GutHin', GutHer \subseteq GutHer', Schweige
  PROVE  Unterwegs' /\ Wechsel'
  BY Kopf, BoardNimmt DEF Schweige

LEMMA DEVICE_RESET_Stand == ASSUME Stand, DEVICE_RESET PROVE Stand'
<1>1. /\ UNCHANGED <<pc, host, ziel, summe, flash, ee>> /\ hin' = <<>> /\ her' = her
      /\ mode' = "boot" /\ buffer' \in {buffer, Muell}
  BY DEF DEVICE_RESET, Neustart
<1>2. Unterwegs /\ Wechsel /\ Typen
  BY DEF Stand
<1>3. GutHer \subseteq GutHer'
  BY <1>1, BoardGut
<1>4. Unterwegs' /\ Wechsel'
  BY <1>1, <1>2, <1>3, BoardVerliert
<1>5. buffer' \in Seiten
  BY <1>1, <1>2 DEF Typen, Muell, Seiten, Worte
<1> QED
  BY <1>1, <1>4, <1>5, BoardStand DEF Modi

LEMMA DEVICE_BOOT_STOP_Stand == ASSUME Stand, DEVICE_BOOT_STOP PROVE Stand'
<1>1. /\ kommt("BOOT_STOP") /\ mode' = "loader" /\ Antworte(Nachricht("BOOT_STOP_ACK", 0, 0))
      /\ UNCHANGED <<pc, host, ziel, summe, flash, ee, buffer>>
  BY DEF DEVICE_BOOT_STOP, laedt
<1>2. Unterwegs /\ Wechsel /\ Typen
  BY DEF Stand
<1>3. GutHin \subseteq GutHin' /\ GutHer \subseteq GutHer' /\ "BOOT_STOP" \in Hinaus(pc)
  BY <1>1, <1>2, BoardGut, Kopf
<1>4. /\ "BOOT_STOP_ACK" \in Zurueck(pc) /\ "BOOT_STOP_ACK" \in Namen /\ 0 \in Werte
      /\ \A q \in Fragen : q[3] = "BOOT_STOP_ACK" => q[2] = "BOOT_STOP"
  BY <1>3 DEF Hinaus, Zurueck, Enden, Namen, Werte, Fragen
<1>5. Unterwegs' /\ Wechsel'
  BY <1>1, <1>2, <1>3, <1>4, AntwortUnterwegs
<1> QED
  BY <1>1, <1>2, <1>5, BoardStand DEF Modi, Typen

LEMMA DEVICE_STATE_REQUEST_Stand == ASSUME Stand, DEVICE_STATE_REQUEST PROVE Stand'
<1>1. /\ kommt("STATE") /\ Antworte(Nachricht("STATE", 0, mode))
      /\ UNCHANGED <<pc, host, ziel, summe, flash, ee, buffer, mode, start>>
  BY DEF DEVICE_STATE_REQUEST, board
<1>2. Unterwegs /\ Wechsel /\ Typen
  BY DEF Stand
<1>3. GutHin \subseteq GutHin' /\ GutHer \subseteq GutHer' /\ "STATE" \in Hinaus(pc)
  BY <1>1, <1>2, BoardGut, Kopf
<1>4. /\ "STATE" \in Zurueck(pc) /\ "STATE" \in Namen /\ mode \in Werte
      /\ \A q \in Fragen : q[3] = "STATE" => q[2] = "STATE"
  BY <1>2, <1>3 DEF Hinaus, Zurueck, Enden, Namen, Werte, Fragen, Typen
<1>5. Unterwegs' /\ Wechsel'
  BY <1>1, <1>2, <1>3, <1>4, AntwortUnterwegs
<1> QED
  BY <1>1, <1>2, <1>5, BoardStand DEF Typen, Stand, BootetNurGanzes, Ganz

LEMMA FLASH_BUFFER_FILL_Stand == ASSUME Stand, FLASH_BUFFER_FILL PROVE Stand'
<1>1. /\ kommt("FILL") /\ mode # "app" /\ buffer' = [buffer EXCEPT ![Head(hin).adr] = Head(hin).wert]
      /\ Antworte(Nachricht("FILL_ACK", 0, 0)) \/ Schweige
      /\ UNCHANGED <<pc, host, ziel, summe, flash, ee, mode, start>>
  BY DEF FLASH_BUFFER_FILL, laedt
<1>2. Unterwegs /\ Wechsel /\ Typen
  BY DEF Stand
<1>3. /\ GutHin \subseteq GutHin' /\ GutHer \subseteq GutHer' /\ "FILL" \in Hinaus(pc)
      /\ Head(hin) \in GutHin /\ Head(hin).typ = "FILL"
  BY <1>1, <1>2, BoardGut, Kopf
<1>4. /\ "FILL_ACK" \in Zurueck(pc) /\ "FILL_ACK" \in Namen /\ 0 \in Werte
      /\ \A q \in Fragen : q[3] # "FILL_ACK"
  BY <1>3 DEF Hinaus, Zurueck, Enden, Namen, Werte, Fragen
<1>5. Unterwegs' /\ Wechsel'
  BY <1>1, <1>2, <1>3, <1>4, AntwortUnterwegs, SchweigeUnterwegs
<1>6. buffer' \in Seiten
  <2>1. Head(hin).wert \in Worte
    BY <1>3 DEF GutHin
  <2> QED BY <1>1, <1>2, <2>1 DEF Typen, Seiten
<1> QED
  BY <1>1, <1>2, <1>5, <1>6, BoardStand DEF Typen

LEMMA FLASH_CRC16_QUERY_Stand == ASSUME Stand, FLASH_CRC16_QUERY PROVE Stand'
<1>1. /\ kommt("CRC") /\ Antworte(Nachricht("CRC", 0, flash))
      /\ UNCHANGED <<pc, host, ziel, summe, flash, ee, buffer, mode, start>>
  BY DEF FLASH_CRC16_QUERY, laedt, board
<1>2. Unterwegs /\ Wechsel /\ Typen
  BY DEF Stand
<1>3. GutHin \subseteq GutHin' /\ GutHer \subseteq GutHer' /\ "CRC" \in Hinaus(pc)
  BY <1>1, <1>2, BoardGut, Kopf
<1>4. /\ "CRC" \in Zurueck(pc) /\ "CRC" \in Namen /\ flash \in Werte
      /\ \A q \in Fragen : q[3] = "CRC" => q[2] = "CRC"
  BY <1>2, <1>3 DEF Hinaus, Zurueck, Enden, Namen, Werte, Fragen, Typen
<1>5. Unterwegs' /\ Wechsel'
  BY <1>1, <1>2, <1>3, <1>4, AntwortUnterwegs
<1> QED
  BY <1>1, <1>2, <1>5, BoardStand DEF Typen, Stand, BootetNurGanzes, Ganz

LEMMA DEVICE_LOAD_APP_Stand == ASSUME Stand, DEVICE_LOAD_APP PROVE Stand'
<1>1. /\ kommt("LOAD_APP") /\ Schweige /\ mode' = "app" /\ start' = "load"
      /\ UNCHANGED <<pc, host, ziel, summe, flash, ee, buffer>>
  BY DEF DEVICE_LOAD_APP, laedt
<1>2. Unterwegs /\ Wechsel /\ Typen
  BY DEF Stand
<1>3. Unterwegs' /\ Wechsel'
  BY <1>1, <1>2, BoardGut, SchweigeUnterwegs
<1> QED
  BY <1>1, <1>2, <1>3, BoardStand DEF Modi, Typen

LEMMA app_ignoriert_Stand == ASSUME Stand, app_ignoriert PROVE Stand'
<1>1. PICK t : kommt(t) /\ Schweige
                 /\ UNCHANGED <<pc, host, ziel, summe, flash, ee, buffer, mode, start>>
  BY DEF app_ignoriert, board
<1>2. Unterwegs /\ Wechsel /\ Typen
  BY DEF Stand
<1>3. Unterwegs' /\ Wechsel'
  BY <1>1, <1>2, BoardGut, SchweigeUnterwegs
<1> QED
  BY <1>1, <1>2, <1>3, BoardStand DEF Typen, Stand, BootetNurGanzes, Ganz

(* The flash of a board never looks like the EEPROM of a new one.          *)
LEMMA NieLeer == \A w \in Inhalte : w # Leer
<1> SUFFICES ASSUME Leer \in Inhalte PROVE FALSE
  OBVIOUS
<1>1. 0 \in Nummern /\ Bloecke \notin Nummern /\ Bloecke # 0
  BY FlashenAssumption DEF Nummern
<1>2. 0 \in Zellen
  <2>1. \A a, b \in Nat \ {0} : a * b \in Nat \ {0}
    OBVIOUS
  <2>2. \A n \in Nat \ {0} : 0 \in 0..(n - 1)
    OBVIOUS
  <2> QED BY <2>1, <2>2, FlashenAssumption DEF Zellen
<1>3. Leer[0][0] = <<Bloecke, 0>>
  BY <1>1, <1>2 DEF Leer
<1>4. Leer[0][0] \in Worte
  BY <1>1, <1>2 DEF Inhalte, Seiten
<1> QED
  BY <1>1, <1>3, <1>4 DEF Worte

LEMMA boot_ende_Stand == ASSUME Stand, boot_ende PROVE Stand'
<1>1. /\ UNCHANGED <<pc, host, ziel, summe, flash, ee, hin, her>>
      /\ \/ check_firmware /\ mode' = "app" /\ start' = "boot" /\ buffer' = buffer
         \/ mode' = "boot" /\ buffer' \in {buffer, Muell}
  BY DEF boot_ende, Neustart, bus
<1>2. Unterwegs /\ Wechsel /\ Typen /\ Gespeichert
  BY DEF Stand
<1>3. Unterwegs'
  BY <1>1, <1>2, BoardGut, UnterwegsBleibt DEF Unterwegs
<1>4. Wechsel'
  BY <1>1, <1>2 DEF Wechsel, Letzt, Ohne
<1>5. buffer' \in Seiten
  BY <1>1, <1>2 DEF Typen, Muell, Seiten, Worte
<1>6. check_firmware => unsicher \/ Ganz(flash)
  <2>1. check_firmware => ee[1] = flash
    BY DEF check_firmware
  <2>2. flash # Leer
    BY <1>2, NieLeer DEF Typen
  <2> QED BY <1>2, <2>1, <2>2 DEF Gespeichert
<1> QED
  BY <1>1, <1>3, <1>4, <1>5, <1>6, BoardStand DEF Modi

(* The steps that write.                                                   *)
LEMMA INTERNAL_EEPROM_WRITE_Stand == ASSUME Stand, INTERNAL_EEPROM_WRITE PROVE Stand'
<1>1. /\ kommt("EE") /\ Antworte(Nachricht("EE_ACK", 0, 0))
      /\ ee' = [ee EXCEPT ![Head(hin).adr] = Head(hin).wert]
      /\ UNCHANGED <<pc, host, ziel, summe, flash, buffer, mode, start>>
  BY DEF INTERNAL_EEPROM_WRITE
<1>2. Unterwegs /\ Wechsel /\ Typen /\ Gespeichert
  BY DEF Stand
<1>3. /\ GutHin \subseteq GutHin' /\ GutHer \subseteq GutHer' /\ "EE" \in Hinaus(pc)
      /\ Head(hin) \in GutHin /\ Head(hin).typ = "EE"
  BY <1>1, <1>2, BoardGut, Kopf
<1>4. /\ "EE_ACK" \in Zurueck(pc) /\ "EE_ACK" \in Namen /\ 0 \in Werte
      /\ \A q \in Fragen : q[3] = "EE_ACK" => q[2] = "EE"
  BY <1>3 DEF Hinaus, Zurueck, Enden, Namen, Werte, Fragen
<1>5. Unterwegs' /\ Wechsel'
  BY <1>1, <1>2, <1>3, <1>4, AntwortUnterwegs
<1>6. Head(hin).wert \in Inhalte /\ (unsicher \/ Ganz(Head(hin).wert))
  BY <1>3 DEF GutHin
<1>7. UNCHANGED <<neu, cache, inkr, block, index, board_crc, geprueft, unsicher>>
  BY <1>1 DEF host, ziel, summe
<1>8. Typen'
  BY <1>1, <1>2, <1>6, <1>7 DEF Typen
<1>9. Gespeichert'
  <2>1. \A i \in 1..2 : ee'[i] = ee[i] \/ ee'[i] = Head(hin).wert
    BY <1>1, <1>2 DEF Typen
  <2> QED BY <1>2, <1>6, <1>7, <2>1 DEF Gespeichert, Ganz
<1>10. Zurecht' /\ Geprueft'
  BY <1>1, <1>7 DEF Stand, Zurecht, blocks_equal, Geprueft, Inhalt, Seite, Wort
<1>11. Gleich'
  <2> SUFFICES ASSUME pc \notin Enden, inkr, NEW b \in Nummern, cache[b] = neu[b]
               PROVE  flash'[b] = Seite(neu', b)
    BY <1>1, <1>7 DEF Gleich
  <2> QED BY <1>1, <1>7 DEF Stand, Gleich
<1>12. BootetNurGanzes'
  BY <1>1, <1>7 DEF Stand, BootetNurGanzes
<1> QED
  BY <1>5, <1>8, <1>9, <1>10, <1>11, <1>12 DEF Stand

(* A page is written or torn: one that the host does not leave out, and    *)
(* while it is not at the checksum.                                        *)
LEMMA SeiteGeschrieben ==
  ASSUME Stand, kommt("WRITE"), NEW s \in Seiten, flash' = [flash EXCEPT ![Head(hin).adr] = s],
         UNCHANGED <<pc, host, ziel, summe, ee>>, mode' \in Modi, mode' # "app",
         buffer' \in Seiten
  PROVE  /\ GutHin \subseteq GutHin' /\ GutHer \subseteq GutHer'
         /\ "WRITE_ACK" \in Zurueck(pc)
         /\ Unterwegs' /\ Wechsel' => Stand'
<1>1. UNCHANGED <<neu, cache, inkr, block, index, board_crc, geprueft, unsicher>>
  BY DEF host, ziel, summe
<1>2. Unterwegs /\ Typen
  BY DEF Stand
<1>3. "WRITE" \in Hinaus(pc) /\ Head(hin) \in GutHin /\ Head(hin).typ = "WRITE"
  BY <1>2, Kopf
<1>4. pc \in {"schreib_ack", "wiederholen", "reset", "schlaf"}
  BY <1>3 DEF Hinaus
<1>5. inkr => cache[Head(hin).adr] # neu[Head(hin).adr]
  BY <1>3 DEF GutHin
<1>6. GutHin \subseteq GutHin' /\ GutHer \subseteq GutHer' /\ "WRITE_ACK" \in Zurueck(pc)
  BY <1>1, <1>4, HinWaechst, HerWaechst DEF Zurueck
<1>7. Typen'
  <2>1. flash' \in Inhalte
    BY <1>2 DEF Typen, Inhalte
  <2> QED BY <1>1, <1>2, <2>1 DEF Typen
<1>8. Zurecht' /\ Geprueft'
  BY <1>1, <1>4 DEF Stand, Zurecht, blocks_equal, Geprueft
<1>9. Gleich'
  <2> SUFFICES ASSUME inkr, NEW b \in Nummern, cache[b] = neu[b]
               PROVE  flash'[b] = Seite(neu', b)
    BY <1>1 DEF Gleich
  <2>1. b # Head(hin).adr
    BY <1>5
  <2>2. flash'[b] = flash[b]
    BY <1>2, <2>1 DEF Typen, Inhalte
  <2> QED BY <1>1, <1>4, <2>2 DEF Stand, Gleich, Enden
<1>10. Gespeichert' /\ BootetNurGanzes'
  BY <1>1 DEF Stand, Gespeichert, BootetNurGanzes, Ganz
<1> QED
  BY <1>6, <1>7, <1>8, <1>9, <1>10 DEF Stand

LEMMA FLASH_BUFFER_WRITE_Stand == ASSUME Stand, FLASH_BUFFER_WRITE PROVE Stand'
<1>1. /\ kommt("WRITE") /\ mode # "app" /\ Antworte(Nachricht("WRITE_ACK", 0, 0))
      /\ flash' = [flash EXCEPT ![Head(hin).adr] = buffer]
      /\ UNCHANGED <<pc, host, ziel, summe, ee, buffer, mode, start>>
  BY DEF FLASH_BUFFER_WRITE, laedt
<1>2. Unterwegs /\ Wechsel /\ mode \in Modi /\ buffer \in Seiten
  BY DEF Stand, Typen
<1>3. /\ GutHin \subseteq GutHin' /\ GutHer \subseteq GutHer'
      /\ "WRITE_ACK" \in Zurueck(pc)
      /\ Unterwegs' /\ Wechsel' => Stand'
  BY <1>1, <1>2, SeiteGeschrieben
<1>4. /\ "WRITE_ACK" \in Namen /\ 0 \in Werte
      /\ \A q \in Fragen : q[3] = "WRITE_ACK" => q[2] = "WRITE"
  BY DEF Namen, Werte, Fragen
<1>5. Unterwegs' /\ Wechsel'
  BY <1>1, <1>2, <1>3, <1>4, AntwortUnterwegs
<1> QED
  BY <1>3, <1>5

LEMMA Stromausfall_Stand == ASSUME Stand, Stromausfall PROVE Stand'
<1>1. /\ UNCHANGED <<pc, host, ziel, summe, ee, her>> /\ hin' = <<>>
      /\ mode' = "boot" /\ buffer' \in {buffer, Muell}
      /\ \/ flash' = flash
         \/ kommt("WRITE") /\ flash' = [flash EXCEPT ![Head(hin).adr] = Muell]
  BY DEF Stromausfall, Neustart, laedt
<1>2. Unterwegs /\ Wechsel /\ Typen
  BY DEF Stand
<1>3. Muell \in Seiten /\ buffer' \in Seiten /\ "boot" \in Modi
  BY <1>1, <1>2 DEF Typen, Muell, Seiten, Worte, Modi
<1>4. CASE flash' = flash
  <2>1. Unterwegs' /\ Wechsel'
    BY <1>1, <1>2, <1>4, BoardGut, BoardVerliert
  <2> QED BY <1>1, <1>3, <1>4, <2>1, BoardStand
<1>5. CASE kommt("WRITE") /\ flash' = [flash EXCEPT ![Head(hin).adr] = Muell]
  <2>1. GutHer \subseteq GutHer' /\ (Unterwegs' /\ Wechsel' => Stand')
    BY <1>1, <1>3, <1>5, SeiteGeschrieben
  <2>2. Unterwegs' /\ Wechsel'
    BY <1>1, <1>2, <2>1, BoardVerliert
  <2> QED BY <2>1, <2>2
<1> QED
  BY <1>1, <1>4, <1>5

-----------------------------------------------------------------------------
LEMMA InitStand == Init => Stand
<1> SUFFICES ASSUME Init PROVE Stand
  OBVIOUS
<1>1. PICK f \in Firmwares : flash = Inhalt(f) /\ ee \in {<<Inhalt(f), Inhalt(f)>>, <<Leer, Leer>>}
  BY DEF Init
<1>2. Inhalt(f) \in Inhalte /\ Muell \in Seiten
  BY DEF Firmwares, Inhalt, Inhalte, Seiten, Seite, Wort, Worte, Muell
<1>3. Typen
  <2>1. ee \in [1..2 -> Inhalte \cup {Leer}]
    BY <1>1, <1>2
  <2>2. /\ pc \in Orte /\ neu \in Firmwares /\ cache \in Firmwares \cup {Keine}
        /\ inkr \in BOOLEAN /\ geprueft \in BOOLEAN /\ unsicher \in BOOLEAN
    BY FlashenAssumption DEF Init, Orte, Enden
  <2>3. block \in 0..Bloecke /\ index \in Nat /\ mode \in Modi
    BY FlashenAssumption DEF Init, Modi
  <2>4. buffer \in Seiten /\ flash \in Inhalte
    BY <1>1, <1>2 DEF Init
  <2> QED BY <2>1, <2>2, <2>3, <2>4 DEF Typen
<1>4. Unterwegs /\ Wechsel
  BY LeereFolge DEF Init, Unterwegs, Wechsel, Fragen
<1>5. Zurecht /\ Geprueft /\ Gleich /\ BootetNurGanzes
  BY DEF Init, Zurecht, Fuellend, Geprueft, Gleich, BootetNurGanzes
<1>6. Gespeichert
  BY <1>1 DEF Gespeichert, Ganz
<1> QED
  BY <1>3, <1>4, <1>5, <1>6 DEF Stand

LEMMA StandBleibt == Stand /\ [Next]_vars => Stand'
<1> SUFFICES ASSUME Stand, [Next]_vars PROVE Stand'
  OBVIOUS
<1>1. ASSUME NEW f \in Neue, NEW i \in BOOLEAN, cmd_flash(f, i) PROVE Stand'
  BY <1>1, cmd_flash_Stand
<1>2. CASE Host
  BY <1>2, cmd_reset_Stand, sleep_Stand, send_BOOT_STOP_Stand, recv_BOOT_STOP_ACK_Stand,
     send_STATE_REQUEST_Stand, recv_STATE_REPLAY_Stand, kein_cache_Stand, cache_laden_Stand,
     cache_vergleichen_Stand, versuch_Stand, flash_failed_Stand, ueberspringen_Stand,
     block_beginnen_Stand, alle_bloecke_Stand, send_BUFFER_FILL_Stand,
     recv_BUFFER_FILL_ACK_Stand, send_BUFFER_WRITE_Stand, recv_BUFFER_WRITE_ACK_Stand,
     wiederholen_Stand, send_CRC16_QUERY_Stand, recv_CRC16_REPLAY_Stand,
     write_eeprom_byte_Stand, recv_EEPROM_WRITE_ACK_Stand, crc_vergleichen_Stand,
     load_app_Stand DEF Host
<1>3. CASE Board
  BY <1>3, DEVICE_RESET_Stand, DEVICE_BOOT_STOP_Stand, DEVICE_STATE_REQUEST_Stand,
     FLASH_BUFFER_FILL_Stand, FLASH_BUFFER_WRITE_Stand, FLASH_CRC16_QUERY_Stand,
     INTERNAL_EEPROM_WRITE_Stand, DEVICE_LOAD_APP_Stand, app_ignoriert_Stand DEF Board
<1>4. CASE boot_ende
  BY <1>4, boot_ende_Stand
<1>5. CASE Stromausfall
  BY <1>5, Stromausfall_Stand
<1>6. CASE UNCHANGED vars
  <2>1. UNCHANGED <<pc, host, ziel, summe, flash, ee, hin, her, mode, start, buffer>>
    BY <1>6 DEF vars, bus, board
  <2>2. Unterwegs /\ Wechsel /\ Typen
    BY DEF Stand
  <2>3. Unterwegs'
    BY <2>1, <2>2, BoardGut, UnterwegsBleibt DEF Unterwegs
  <2>4. Wechsel'
    BY <2>1, <2>2 DEF Wechsel, Letzt, Ohne
  <2> QED
    BY <2>1, <2>2, <2>3, <2>4, BoardStand DEF Typen, Stand, BootetNurGanzes, Ganz
<1> QED
  BY <1>1, <1>2, <1>3, <1>4, <1>5, <1>6 DEF Next

(* When cmd_flash reports success after comparing the checksums, the board *)
(* has exactly the file: whatever was lost, late or torn, and however      *)
(* often a try was repeated.                                               *)
THEOREM ErfolgIstErfolg == Spec => []ErfolgHeisstGleich
<1>1. Stand => ErfolgHeisstGleich
  BY DEF Stand, Geprueft, ErfolgHeisstGleich
<1> QED
  BY InitStand, StandBleibt, <1>1, PTL DEF Spec

(* The incremental mode leaves out a page only if the board has it, in     *)
(* every try, also after a page was torn by a power failure.               *)
THEOREM NurGleicheAusgelassen == Spec => []SpringtRichtig
<1>1. Stand => SpringtRichtig
  <2> SUFFICES ASSUME Stand, pc = "block", block < Bloecke, blocks_equal
               PROVE  flash[block] = Seite(neu, block)
    BY DEF SpringtRichtig
  <2>1. block \in Nummern
    BY FlashenAssumption DEF Stand, Typen, Nummern
  <2> QED BY <2>1 DEF Stand, Gleich, blocks_equal, Enden
<1> QED
  BY InitStand, StandBleibt, <1>1, PTL DEF Spec

(* A board that its boot loader starts runs a complete firmware, wherever  *)
(* the flashing was interrupted, as long as the host has stored no         *)
(* checksum that it then found wrong.                                      *)
THEOREM StartetNurGanzes == Spec => []BootetNurGanzes
<1>1. Stand => BootetNurGanzes
  BY DEF Stand
<1> QED
  BY InitStand, StandBleibt, <1>1, PTL DEF Spec
=============================================================================
