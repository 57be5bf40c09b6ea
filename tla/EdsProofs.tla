----------------------------- MODULE EdsProofs ------------------------------
(***************************************************************************)
(* Proofs about the EEPROM data store, for every EEPROM size, every limit  *)
(* and every sequence of requests and power failures outside eds_format:   *)
(* types, the chain of blocks, the refinement of EdsBloecke, and that a    *)
(* load of the configuration finds every device.                           *)
(***************************************************************************)
EXTENDS Konfiguration, TLAPS

(* Outside eds_format the two magic bytes are there, and the blocks form a *)
(* chain.                                                                  *)
Ordnung == /\ pc \notin formatierend \cup {"init"} => formatiert
           /\ KetteHeil

(* Where the pointers of a walk and of a split stand.                      *)
Zeiger ==
  /\ pc \in {"alloc", "free", "defrag"} => p \in kette \cup {Nichts}
  /\ pc \in {"alloc_rest", "alloc_kuerzen"} =>
       p \in kette /\ mem[p + 1] >= req.size + 2
  /\ pc = "alloc_kuerzen" =>
       mem[p + 2 + req.size + 1] = mem[p + 1] - req.size - 2
  /\ pc = "set_type" => p \in kette \cup {0}
  /\ pc = "defrag" /\ last_free # 0 =>
       last_free \in kette /\ last_free < p /\ next_block(last_free) = p

(* The chain grows from DataStart to the pointer while eds_format runs.    *)
Wachsend ==
  /\ pc = "format_magic2" => mem[EdsStart] = Magic1 /\ kette = {}
  /\ pc \in {"format_type", "format_size"} =>
       /\ formatiert
       /\ p \in Raster \cup {Nichts}
       /\ DataStart \in kette \cup {p}
       /\ \A b \in kette : next_block(b) \in kette \cup {p} /\ next_block(b) <= p
       /\ \A a, b \in kette : a < b => next_block(a) <= b
  /\ pc = "format_size" => p < EdsEnd - 2

IInv == TypeOK /\ Ordnung /\ Zeiger /\ Wachsend

(* The grid of full-sized blocks: a further block ends on the grid again,  *)
(* and no grid point lies so close to the end that the loop of eds_format  *)
(* would stop short of it.                                                 *)
LEMMA RasterSchritt ==
  ASSUME NEW a \in Raster, a + 2 + FormatMax <= EdsEnd
  PROVE  a + 2 + FormatMax \in Raster
<1>1. PICK k \in 0..EdsEnd : a = DataStart + k * (FormatMax + 2)
  BY DEF Raster
<1> DEFINE m == FormatMax + 2
<1>2. m \in Nat /\ m >= 1 /\ k \in Nat /\ DataStart \in Nat /\ DataStart >= 1
  BY EdsAssumption DEF DataStart
<1>3. k * m \in Nat /\ k <= k * m
  <2> HIDE DEF m
  <2> QED BY <1>2
<1>4. (k + 1) * m = k * m + m
  <2> HIDE DEF m
  <2> QED BY <1>2
<1>5. k + 1 \in 0..EdsEnd
  BY <1>1, <1>2, <1>3, EdsAssumption DEF DataStart
<1>6. a + 2 + FormatMax = DataStart + (k + 1) * (FormatMax + 2)
  BY <1>1, <1>2, <1>3, <1>4, EdsAssumption
<1> QED BY <1>5, <1>6 DEF Raster

LEMMA RasterEnde ==
  ASSUME NEW a \in Raster \cup {Nichts}, a >= EdsEnd - 2, a <= Nichts, a \in Nat
  PROVE  a = Nichts
BY EdsAssumption DEF Nichts, DataStart

LEMMA InitIInv == Init => IInv
<1> SUFFICES ASSUME Init PROVE IInv
  OBVIOUS
<1> USE EdsAssumption
<1>1. TypeOK
  BY DEF Init, TypeOK, Adressen, Bytes, DataStart, Nichts, Schritte, KeinAuftrag, Anfrage
<1>2. ~formatiert
  BY DEF Init, formatiert, Adressen, Bytes, DataStart
<1>3. Ordnung
  BY <1>2 DEF Init, Ordnung, KetteHeil
<1> QED BY <1>1, <1>3 DEF Init, IInv, Zeiger, Wachsend

(* Between two blocks of the chain lies the whole of the lower one.        *)
LEMMA KetteGetrennt ==
  ASSUME TypeOK, Verkettet, NEW a \in kette, NEW b \in kette
  PROVE  /\ a \in Nat /\ a >= DataStart /\ a < EdsEnd
         /\ mem[a] \in Bytes /\ mem[a + 1] \in Bytes
         /\ next_block(a) \in kette \cup {Nichts}
         /\ a + 2 + mem[a + 1] <= Nichts
         /\ a < b => a + 2 + mem[a + 1] <= b
<1> USE EdsAssumption DEF DataStart, Nichts, Adressen, Bytes
<1>1. a \in Nat /\ a >= DataStart /\ a < EdsEnd /\ a \in Adressen /\ a + 1 \in Adressen
  BY DEF TypeOK
<1>2. mem[a] \in Bytes /\ mem[a + 1] \in Bytes
  BY <1>1 DEF TypeOK
<1>3. next_block(a) \in kette \cup {Nichts} /\ (a < b => a + 2 + mem[a + 1] <= b)
  BY DEF Verkettet, KetteAus, next_block, BLOCK_SIZE
<1>4. next_block(a) = a + 2 + mem[a + 1]
  BY DEF next_block, BLOCK_SIZE
<1>5. \A x \in kette : x < EdsEnd
  BY DEF TypeOK
<1> QED BY <1>1, <1>2, <1>3, <1>4, <1>5

LEMMA NextIInv == IInv /\ [Next]_vars => IInv'
<1> SUFFICES ASSUME IInv, [Next]_vars PROVE IInv'
  OBVIOUS
<1> USE EdsAssumption
<1>t. TypeOK /\ Ordnung /\ Zeiger /\ Wachsend
  BY DEF IInv
<1>c. CASE UNCHANGED vars
  BY <1>t, <1>c DEF vars, IInv, TypeOK, Ordnung, KetteHeil, Verkettet, KetteAus,
     Zeiger, Wachsend, formatiert, next_block, BLOCK_SIZE
<1>1. CASE eds_init
  BY <1>t, <1>1 DEF eds_init, IInv, TypeOK, Ordnung, KetteHeil, Verkettet, KetteAus,
     Zeiger, Wachsend, formatiert, next_block, BLOCK_SIZE, formatierend, Schritte
<1>2. CASE EDS_FORMAT
  BY <1>t, <1>2 DEF EDS_FORMAT, IInv, TypeOK, Ordnung, KetteHeil,
     Zeiger, Wachsend, formatierend, Schritte
<1>3. CASE \/ \E t \in Typen, n \in Groessen : ALLOCATE_BLOCK(t, n)
           \/ \E b \in Adressen : FREE_BLOCK(b)
           \/ DEFRAGMENT
  <2> DEFINE R == [type : Bytes, size : Bytes, block : Adressen]
  <2>0. /\ \A t \in Typen, n \in Groessen : Anfrage(t, n, 0) \in R
        /\ \A b \in Adressen : Anfrage(0, 0, b) \in R
    BY DEF Anfrage, Adressen, Bytes
  <2>1. \E op \in {"alloc", "free", "defrag"}, r \in R : Beginne(op, r)
    <3> HIDE DEF R
    <3>1. 0 \in Adressen
      BY DEF Adressen
    <3> QED BY <1>3, <2>0, <3>1 DEF ALLOCATE_BLOCK, FREE_BLOCK, DEFRAGMENT, KeinAuftrag
  <2>1a. PICK op \in {"alloc", "free", "defrag"}, r \in R : Beginne(op, r)
    BY <2>1
  <2>2. formatiert /\ Verkettet
    BY <1>t, <2>1a DEF Ordnung, KetteHeil, Beginne, formatierend
  <2>3. DataStart \in kette
    BY <2>2 DEF Verkettet, KetteAus
  <2>4. TypeOK'
    BY <1>t, <2>1a DEF TypeOK, Beginne, Schritte, DataStart, Nichts
  <2>5. Ordnung'
    BY <2>1a, <2>2 DEF Ordnung, KetteHeil, Beginne, formatiert, Verkettet, KetteAus,
       next_block, BLOCK_SIZE
  <2>6. Zeiger' /\ Wachsend'
    BY <2>1a, <2>3 DEF Beginne, Zeiger, Wachsend
  <2> QED BY <2>4, <2>5, <2>6 DEF IInv
<1>4. CASE set_field
  <2>1. PICK h1 \in kette, i \in Bytes, v \in Werte :
          i < mem[h1 + 1] /\ WRITE_TO_BLOCK(h1, i + 2, v)
    BY <1>4 DEF set_field, BLOCK_SIZE
  <2>2. formatiert /\ Verkettet /\ pc = "idle" /\ pc' = "idle"
    BY <1>t, <2>1 DEF Ordnung, KetteHeil, WRITE_TO_BLOCK, formatierend
  <2>3. h1 + 2 + i \in Adressen /\ h1 + 2 + i > EdsStart + 1 /\ v \in Bytes
        /\ mem' = [mem EXCEPT ![h1 + 2 + i] = v]
    <3>1. h1 \in Nat /\ h1 >= DataStart /\ mem[h1 + 1] \in Bytes /\ h1 + 2 + mem[h1 + 1] <= Nichts
      BY <1>t, <2>1, <2>2, KetteGetrennt
    <3>2. h1 + (i + 2) = h1 + 2 + i
      BY <2>1, <3>1 DEF Bytes
    <3>3. mem' = [mem EXCEPT ![h1 + 2 + i] = v]
      BY <2>1, <3>2 DEF WRITE_TO_BLOCK, Schreibe
    <3>4. v \in Bytes
      OBVIOUS
    <3>5. h1 + 2 + i \in Adressen /\ h1 + 2 + i > EdsStart + 1
      BY <2>1, <3>1 DEF Adressen, Bytes, Nichts, DataStart
    <3> QED BY <3>3, <3>4, <3>5
  <2>4. \A x \in kette : mem'[x + 1] = mem[x + 1]
    <3>1. SUFFICES ASSUME NEW x \in kette PROVE mem'[x + 1] = mem[x + 1]
      OBVIOUS
    <3>2. /\ x \in Nat /\ x < EdsEnd /\ h1 \in Nat /\ mem[x + 1] \in Bytes /\ mem[h1 + 1] \in Bytes
          /\ x < h1 => x + 2 + mem[x + 1] <= h1
          /\ h1 < x => h1 + 2 + mem[h1 + 1] <= x
      BY <1>t, <2>1, <2>2, KetteGetrennt
    <3>3. x + 1 # h1 + 2 + i
      BY <2>1, <3>2 DEF Bytes
    <3> QED BY <1>t, <2>3, <3>2, <3>3 DEF TypeOK, Adressen
  <2>5. TypeOK'
    BY <1>t, <2>1, <2>2, <2>3 DEF TypeOK, WRITE_TO_BLOCK
  <2>6. Ordnung'
    BY <1>t, <2>1, <2>2, <2>3, <2>4 DEF Ordnung, KetteHeil, Verkettet, KetteAus, formatiert,
       next_block, BLOCK_SIZE, WRITE_TO_BLOCK, Adressen, TypeOK
  <2> QED BY <2>2, <2>5, <2>6 DEF IInv, Zeiger, Wachsend
<1>5. CASE format_magic1
  <2>1. TypeOK'
    BY <1>t, <1>5 DEF TypeOK, format_magic1, Schreibe, Adressen, Bytes, Schritte, DataStart
  <2> QED BY <1>t, <1>5, <2>1 DEF IInv, format_magic1, Schreibe, Ordnung, KetteHeil, Zeiger,
          Wachsend, formatierend, TypeOK, Adressen, DataStart
<1>6. CASE format_magic2
  <2>1. TypeOK'
    BY <1>t, <1>6 DEF TypeOK, format_magic2, Schreibe, Adressen, Bytes, Schritte, DataStart, Nichts
  <2>2. formatiert' /\ kette' = {} /\ p' = DataStart /\ pc' = "format_type"
    BY <1>t, <1>6 DEF format_magic2, Schreibe, formatiert, Wachsend, TypeOK, Adressen, DataStart
  <2>3. DataStart = DataStart + 0 * (FormatMax + 2) /\ 0 \in 0..EdsEnd
    BY DEF DataStart
  <2>4. DataStart \in Raster
    BY <2>3 DEF Raster
  <2> QED BY <2>1, <2>2, <2>4 DEF IInv, Ordnung, KetteHeil, Zeiger, Wachsend, formatierend
<1>7. CASE format_type
  <2>1. p \in Nat /\ p < EdsEnd - 2 /\ p > EdsStart + 1 /\ pc = "format_type" /\ pc' = "format_size"
        /\ mem' = [mem EXCEPT ![p] = 0]
    <3>1. p \in Raster
      BY <1>t, <1>7 DEF format_type, Wachsend, Nichts
    <3>2. \A k \in 0..EdsEnd : k * (FormatMax + 2) \in Nat
      OBVIOUS
    <3> QED BY <1>t, <1>7, <3>1, <3>2 DEF format_type, TypeOK, Raster, DataStart, Schreibe
  <2>2. TypeOK'
    BY <1>t, <1>7, <2>1 DEF TypeOK, format_type, Adressen, Bytes, Schritte, DataStart, Nichts
  <2>3. \A b \in kette : next_block(b)' = next_block(b) /\ b < p
    BY <1>t, <2>1 DEF next_block, BLOCK_SIZE, Wachsend, TypeOK, DataStart, Adressen, Bytes
  <2>4. formatiert'
    BY <1>t, <2>1 DEF formatiert, TypeOK, Wachsend, Adressen, DataStart
  <2>5. Wachsend'
    BY <1>t, <1>7, <2>1, <2>3, <2>4 DEF Wachsend, format_type
  <2> QED BY <2>1, <2>2, <2>4, <2>5 DEF IInv, Ordnung, KetteHeil, Zeiger, formatierend
<1>8. CASE format_size
  <2> DEFINE rest == EdsEnd - (p + 1)
             size == IF rest > FormatMax THEN FormatMax ELSE rest
  <2>1. p \in Nat /\ p < EdsEnd - 2 /\ p > EdsStart + 1 /\ pc = "format_size" /\ p \in Raster
    <3>1. p \in Raster
      BY <1>t, <1>8 DEF format_size, Wachsend, Nichts, TypeOK
    <3>2. \A k \in 0..EdsEnd : k * (FormatMax + 2) \in Nat
      OBVIOUS
    <3> QED BY <1>t, <1>8, <3>1, <3>2 DEF format_size, TypeOK, Raster, DataStart, Wachsend
  <2>2. /\ size \in Bytes /\ size \in Nat
        /\ mem' = [mem EXCEPT ![p + 1] = size]
        /\ p' = p + 2 + size
        /\ pc' = "format_type" /\ kette' = kette \cup {p}
        /\ UNCHANGED <<last_free, req>>
    BY <1>8, <2>1 DEF format_size, Schreibe, Bytes
  <2>3. p' \in Raster \cup {Nichts} /\ p' <= Nichts /\ p' \in Nat
    BY <2>1, <2>2, RasterSchritt DEF Nichts
  <2> HIDE DEF size
  <2>4. TypeOK'
    BY <1>t, <2>1, <2>2, <2>3 DEF TypeOK, Adressen, Schritte, DataStart, Nichts
  <2>5. \A b \in kette : next_block(b)' = next_block(b) /\ b < p
    BY <1>t, <2>1, <2>2 DEF next_block, BLOCK_SIZE, Wachsend, TypeOK, DataStart, Adressen, Bytes
  <2>6. p + 2 + mem'[p + 1] = p'
    BY <1>t, <2>1, <2>2 DEF TypeOK, Adressen
  <2>7. formatiert'
    BY <1>t, <2>1, <2>2 DEF formatiert, TypeOK, Wachsend, Adressen, DataStart
  <2>8. p < p'
    BY <2>1, <2>2
  <2>9. Wachsend'
    <3>0. \A b \in kette : b \in Nat /\ next_block(b) \in Nat
      BY <1>t DEF next_block, BLOCK_SIZE, TypeOK, DataStart, Adressen, Bytes
    <3>1. /\ \A b \in kette : next_block(b) \in kette \cup {p} /\ next_block(b) <= p
          /\ \A a, b \in kette : a < b => next_block(a) <= b
      BY <1>t, <2>1 DEF Wachsend
    <3>2. \A b \in kette : /\ next_block(b)' \in kette' \cup {p'} /\ next_block(b)' <= p'
                           /\ next_block(b)' <= p
      BY <2>1, <2>2, <2>3, <2>5, <2>8, <3>0, <3>1
    <3>2a. \A b : b = p => next_block(b)' = p'
      BY <2>6 DEF next_block, BLOCK_SIZE
    <3>2b. \A b \in kette' : next_block(b)' \in kette' \cup {p'} /\ next_block(b)' <= p'
      BY <2>2, <2>3, <3>2, <3>2a
    <3>3. \A a, b \in kette' : a < b => next_block(a)' <= b
      BY <2>1, <2>2, <2>5, <3>0, <3>1, <3>2, <3>2a
    <3> QED BY <1>t, <2>1, <2>2, <2>3, <2>7, <3>2b, <3>3 DEF Wachsend
  <2> QED BY <2>2, <2>4, <2>7, <2>9 DEF IInv, Ordnung, KetteHeil, Zeiger, formatierend
<1>9. CASE format_ende
  <2>1. p = Nichts
    BY <1>t, <1>9, RasterEnde DEF format_ende, Wachsend, TypeOK, Nichts
  <2>2. formatiert /\ Verkettet
    BY <1>t, <1>9, <2>1 DEF format_ende, Wachsend, Verkettet, KetteAus, Nichts, DataStart
  <2>3. TypeOK'
    BY <1>t, <1>9 DEF TypeOK, format_ende, Fertig, KeinAuftrag, Anfrage, Adressen, Bytes, Schritte, Nichts, DataStart
  <2> QED BY <1>9, <2>2, <2>3 DEF IInv, Ordnung, KetteHeil, Verkettet, KetteAus, next_block,
          BLOCK_SIZE, formatiert, Zeiger, Wachsend, formatierend, format_ende, Fertig
<1>10. CASE alloc_weiter \/ free_weiter \/ alloc_genau
  <2>1. formatiert /\ Verkettet /\ p \in kette
    BY <1>t, <1>10 DEF Ordnung, KetteHeil, Zeiger, alloc_weiter, free_weiter, alloc_genau,
       formatierend, Nichts
  <2>2. next_block(p) \in kette \cup {Nichts}
    BY <1>t, <2>1, KetteGetrennt
  <2>3. /\ p' \in kette \cup {Nichts} /\ UNCHANGED <<mem, last_free, req, kette>>
        /\ pc' \in {"alloc", "free", "set_type"}
        /\ pc' = "set_type" => p' \in kette
    BY <1>10, <2>1, <2>2 DEF alloc_weiter, free_weiter, alloc_genau
  <2>4. TypeOK'
    BY <1>t, <2>3 DEF TypeOK, Schritte, DataStart, Nichts
  <2>5. Ordnung'
    BY <2>1, <2>3 DEF Ordnung, KetteHeil, formatiert, Verkettet, KetteAus, next_block, BLOCK_SIZE
  <2> QED BY <2>3, <2>4, <2>5 DEF IInv, Zeiger, Wachsend
<1>11. CASE alloc_teilen
  <2>1. formatiert /\ Verkettet /\ p \in kette /\ mem[p + 1] >= req.size + 2 /\ pc' = "alloc_rest"
        /\ mem' = [mem EXCEPT ![p + 2 + req.size] = 0] /\ UNCHANGED <<p, last_free, req, kette>>
    BY <1>t, <1>11 DEF Ordnung, KetteHeil, Zeiger, alloc_teilen, formatierend, Nichts, passt_mit_rest,
       BLOCK_SIZE, Schreibe
  <2>2. req.size \in Nat
    BY <1>t DEF TypeOK, Bytes
  <2>3. p \in Nat /\ p >= DataStart /\ mem[p + 1] \in Bytes /\ p + 2 + mem[p + 1] <= Nichts
    BY <1>t, <2>1, KetteGetrennt
  <2>4. p + 2 + req.size \in Adressen /\ p + 2 + req.size > EdsStart + 1 /\ 0 \in Bytes
    BY <2>1, <2>2, <2>3 DEF Adressen, Bytes, Nichts, DataStart
  <2>5. \A x \in kette : mem'[x + 1] = mem[x + 1]
    <3>1. SUFFICES ASSUME NEW x \in kette PROVE mem'[x + 1] = mem[x + 1]
      OBVIOUS
    <3>2. /\ x \in Nat /\ x < EdsEnd /\ mem[x + 1] \in Bytes
          /\ x < p => x + 2 + mem[x + 1] <= p
          /\ p < x => p + 2 + mem[p + 1] <= x
      BY <1>t, <2>1, KetteGetrennt
    <3>3. x + 1 # p + 2 + req.size
      BY <2>1, <2>2, <2>3, <3>2 DEF Bytes
    <3> QED BY <1>t, <2>1, <3>2, <3>3 DEF TypeOK, Adressen
  <2>6. TypeOK'
    BY <1>t, <2>1, <2>4 DEF TypeOK, Schritte
  <2>7. Ordnung'
    BY <1>t, <2>1, <2>4, <2>5 DEF Ordnung, KetteHeil, Verkettet, KetteAus, formatiert,
       next_block, BLOCK_SIZE, Adressen, TypeOK
  <2> QED BY <2>1, <2>5, <2>6, <2>7 DEF IInv, Zeiger, Wachsend
<1>12. CASE alloc_rest
  <2> DEFINE q == p + 2 + req.size + 1
             r == mem[p + 1] - req.size - 2
  <2>1. formatiert /\ Verkettet /\ p \in kette /\ mem[p + 1] >= req.size + 2 /\ pc' = "alloc_kuerzen"
        /\ mem' = [mem EXCEPT ![q] = r] /\ UNCHANGED <<p, last_free, req, kette>>
    BY <1>t, <1>12 DEF Ordnung, KetteHeil, Zeiger, alloc_rest, formatierend, BLOCK_SIZE, Schreibe
  <2>2. req.size \in Nat
    BY <1>t DEF TypeOK, Bytes
  <2>3. p \in Nat /\ p >= DataStart /\ mem[p + 1] \in Bytes /\ p + 2 + mem[p + 1] <= Nichts
    BY <1>t, <2>1, KetteGetrennt
  <2>4. q \in Adressen /\ q > EdsStart + 1 /\ r \in Bytes
    BY <2>1, <2>2, <2>3 DEF Adressen, Bytes, Nichts, DataStart
  <2>5. \A x \in kette : mem'[x + 1] = mem[x + 1]
    <3>1. SUFFICES ASSUME NEW x \in kette PROVE mem'[x + 1] = mem[x + 1]
      OBVIOUS
    <3>2. /\ x \in Nat /\ x < EdsEnd /\ mem[x + 1] \in Bytes
          /\ x < p => x + 2 + mem[x + 1] <= p
          /\ p < x => p + 2 + mem[p + 1] <= x
      BY <1>t, <2>1, KetteGetrennt
    <3>3. x + 1 # q
      BY <2>1, <2>2, <2>3, <3>2 DEF Bytes
    <3> QED BY <1>t, <2>1, <3>2, <3>3 DEF TypeOK, Adressen
  <2>6. mem'[q] = r
    BY <1>t, <2>1, <2>4 DEF TypeOK
  <2> HIDE DEF q, r
  <2>7. TypeOK'
    BY <1>t, <2>1, <2>4 DEF TypeOK, Schritte
  <2>8. Ordnung'
    BY <1>t, <2>1, <2>4, <2>5 DEF Ordnung, KetteHeil, Verkettet, KetteAus, formatiert,
       next_block, BLOCK_SIZE, Adressen, TypeOK
  <2>9. Zeiger'
    BY <2>1, <2>5, <2>6 DEF Zeiger, q, r
  <2> QED BY <2>1, <2>7, <2>8, <2>9 DEF IInv, Wachsend
<1>13. CASE alloc_kuerzen
  <2> DEFINE q == p + 2 + req.size
  <2>1. formatiert /\ Verkettet /\ p \in kette /\ mem[p + 1] >= req.size + 2 /\ pc' = "set_type"
        /\ mem' = [mem EXCEPT ![p + 1] = req.size] /\ UNCHANGED <<p, last_free, req>>
        /\ kette' = kette \cup {q} /\ mem[q + 1] = mem[p + 1] - req.size - 2
    BY <1>t, <1>13 DEF Ordnung, KetteHeil, Zeiger, alloc_kuerzen, formatierend, BLOCK_SIZE, Schreibe
  <2>2. req.size \in Nat /\ req.size \in Bytes
    BY <1>t DEF TypeOK, Bytes
  <2>3. p \in Nat /\ p >= DataStart /\ p < EdsEnd /\ mem[p + 1] \in Bytes /\ p + 2 + mem[p + 1] <= Nichts
    BY <1>t, <2>1, KetteGetrennt
  <2>4. p + 1 \in Adressen /\ q \in DataStart..(EdsEnd - 1) /\ p < q
    BY <2>1, <2>2, <2>3 DEF Adressen, Bytes, Nichts, DataStart
  <2>5. mem'[p + 1] = req.size /\ \A x \in Adressen : x # p + 1 => mem'[x] = mem[x]
    BY <1>t, <2>1, <2>4 DEF TypeOK
  <2>6. TypeOK'
    BY <1>t, <2>1, <2>2, <2>4 DEF TypeOK, Schritte
  <2>7. formatiert'
    BY <2>1, <2>3, <2>5 DEF formatiert, DataStart, Adressen
  <2>8. p + 2 + mem'[p + 1] = q /\ q + 2 + mem'[q + 1] = next_block(p)
    BY <2>1, <2>2, <2>3, <2>4, <2>5 DEF next_block, BLOCK_SIZE, Adressen, DataStart, Bytes
  <2>9. \A x \in kette : /\ x \in Nat /\ x < EdsEnd
                         /\ x # p => mem'[x + 1] = mem[x + 1] /\ next_block(x)' = next_block(x)
                         /\ x < p => next_block(x) <= p
                         /\ p < x => next_block(p) <= x
                         /\ next_block(x) \in kette \cup {Nichts}
    <3>1. \A x \in kette : /\ x \in Nat /\ x < EdsEnd
                           /\ x < p => next_block(x) <= p
                           /\ p < x => next_block(p) <= x
                           /\ next_block(x) \in kette \cup {Nichts}
      BY <1>t, <2>1, KetteGetrennt DEF next_block, BLOCK_SIZE
    <3>2. \A x \in kette : x # p => mem'[x + 1] = mem[x + 1]
      BY <2>3, <2>5, <3>1 DEF Adressen
    <3> QED BY <3>1, <3>2 DEF next_block, BLOCK_SIZE
  <2>10. /\ \A x : x = p => next_block(x)' = q
         /\ next_block(q)' = next_block(p)
    <3>1. q' = q
      BY <2>1
    <3> HIDE DEF q
    <3> QED BY <2>1, <2>8, <3>1 DEF next_block, BLOCK_SIZE
  <2>11. q < next_block(p)
    BY <2>1, <2>2, <2>3 DEF next_block, BLOCK_SIZE, Bytes
  <2>12. q \in Nat /\ next_block(p) \in Nat
    BY <2>2, <2>3 DEF next_block, BLOCK_SIZE, Bytes
  <2>13. UNCHANGED q
    BY <2>1
  <2>14. \A a, b \in kette : a < b => next_block(a) <= b
    BY <2>1 DEF Verkettet, KetteAus
  <2> HIDE DEF q
  <2>15. \A b \in kette' : next_block(b)' \in kette' \cup {Nichts}
    BY <2>1, <2>9, <2>10, <2>13
  <2>16. \A a, b \in kette' : a < b => next_block(a)' <= b
    <3>1. SUFFICES ASSUME NEW a \in kette', NEW b \in kette', a < b PROVE next_block(a)' <= b
      OBVIOUS
    <3>2. CASE a = q
      <4>1. next_block(a)' = next_block(p)
        BY <2>10, <2>13, <3>2 DEF next_block, BLOCK_SIZE
      <4>2. b \in kette /\ p < b
        BY <2>1, <2>3, <2>4, <2>9, <2>12, <3>1, <3>2
      <4> QED BY <2>9, <4>1, <4>2
    <3>3. CASE a = p
      BY <2>1, <2>3, <2>9, <2>10, <2>11, <2>12, <3>1, <3>3
    <3>4. CASE a \in kette /\ a # p
      <4>1. next_block(a)' = next_block(a) /\ a \in Nat
        BY <2>9, <3>4
      <4>2. CASE b = q
        <5>1. a < p
          BY <2>3, <2>9, <2>11, <2>12, <3>1, <3>4, <4>1, <4>2
        <5>2. next_block(a) <= p /\ next_block(a) \in Nat
          BY <2>9, <3>4, <5>1 DEF Nichts
        <5> QED BY <2>3, <2>4, <2>12, <4>1, <4>2, <5>2
      <4>3. CASE b \in kette
        BY <2>14, <3>1, <3>4, <4>1, <4>3
      <4> QED BY <2>1, <4>2, <4>3
    <3> QED BY <2>1, <3>2, <3>3, <3>4
  <2>17. Verkettet'
    BY <2>1, <2>15, <2>16 DEF Verkettet, KetteAus
  <2> QED BY <2>1, <2>6, <2>7, <2>17 DEF IInv, Ordnung, KetteHeil, Zeiger, Wachsend
<1>14. CASE alloc_nichts \/ free_nichts \/ defrag_ende \/ Crash
  <2>1. formatiert /\ Verkettet /\ UNCHANGED <<mem, kette>>
    BY <1>t, <1>14 DEF Ordnung, KetteHeil, alloc_nichts, free_nichts, defrag_ende, Crash, Neustart,
       formatierend
  <2>2. TypeOK'
    <3>1. KeinAuftrag \in [type : Bytes, size : Bytes, block : Adressen]
      BY DEF KeinAuftrag, Anfrage, Adressen, Bytes
    <3>2. 0 \in 0..Nichts /\ 0 \in 0..EdsEnd
      BY DEF Nichts
    <3>3. p' = 0 /\ last_free' \in {0, last_free} /\ req' \in {KeinAuftrag, req}
          /\ pc' \in {"idle", "init", "set_type"}
      BY <1>14 DEF alloc_nichts, free_nichts, defrag_ende, Crash, Neustart, Fertig
    <3> QED BY <1>t, <2>1, <3>1, <3>2, <3>3 DEF TypeOK, Schritte
  <2>3. Ordnung'
    BY <2>1 DEF Ordnung, KetteHeil, formatiert, Verkettet, KetteAus, next_block, BLOCK_SIZE
  <2> QED BY <1>14, <2>2, <2>3 DEF IInv, Zeiger, Wachsend, alloc_nichts, free_nichts, defrag_ende,
          Crash, Neustart, Fertig
<1>15. CASE set_type \/ free_treffer
  <2>1. /\ formatiert /\ Verkettet /\ kette' = kette /\ pc' = "idle"
        /\ p \in kette \cup {0}
        /\ mem' = [mem EXCEPT ![p] = IF pc = "set_type" THEN req.type ELSE 0]
    BY <1>t, <1>15 DEF Ordnung, KetteHeil, Zeiger, set_type, free_treffer, formatierend, Fertig,
       Schreibe, Nichts
  <2>2. TypeOK'
    BY <1>t, <1>15, <2>1 DEF TypeOK, set_type, free_treffer, Fertig, KeinAuftrag, Anfrage,
       Adressen, Bytes, Schritte, DataStart, Nichts
  <2>3. p = 0 \/ (p \in kette /\ p \in Nat /\ p >= DataStart)
    <3>1. ASSUME p \in kette PROVE p \in Nat /\ p >= DataStart
      BY <1>t, <3>1 DEF TypeOK, DataStart
    <3>2. CASE p = 0
      BY <3>2
    <3> QED BY <2>1, <3>1, <3>2
  <2>4. \A x \in kette : mem'[x + 1] = mem[x + 1]
    <3>1. SUFFICES ASSUME NEW x \in kette PROVE mem'[x + 1] = mem[x + 1]
      OBVIOUS
    <3>2. /\ x \in Nat /\ x < EdsEnd /\ mem[x + 1] \in Bytes
          /\ p \in kette /\ x < p => x + 2 + mem[x + 1] <= p
      BY <1>t, <2>1, KetteGetrennt
    <3>3. x + 1 # p
      BY <2>3, <3>2 DEF Bytes
    <3> QED BY <1>t, <2>1, <3>2, <3>3 DEF TypeOK, Adressen
  <2>5. formatiert'
    BY <1>t, <2>1, <2>3 DEF formatiert, TypeOK, Adressen, DataStart
  <2>6. Ordnung'
    BY <2>1, <2>4, <2>5 DEF Ordnung, KetteHeil, Verkettet, KetteAus, next_block, BLOCK_SIZE
  <2> QED BY <2>1, <2>2, <2>6 DEF IInv, Zeiger, Wachsend
<1>16. CASE defrag_weiter
  <2>1. /\ formatiert /\ Verkettet /\ p \in kette /\ pc' = "defrag"
        /\ last_free' \in {0, p} /\ p' = next_block(p)
        /\ UNCHANGED <<mem, req, kette>>
    BY <1>t, <1>16 DEF Ordnung, KetteHeil, Zeiger, defrag_weiter, formatierend, Nichts
  <2>2. p' \in kette \cup {Nichts} /\ p' = p + 2 + mem[p + 1] /\ p < p' /\ p \in Nat /\ p < EdsEnd
    BY <1>t, <2>1, KetteGetrennt DEF next_block, BLOCK_SIZE, Bytes
  <2>3. TypeOK'
    BY <1>t, <2>1, <2>2 DEF TypeOK, Schritte, DataStart, Nichts
  <2>4. Ordnung'
    BY <2>1 DEF Ordnung, KetteHeil, formatiert, Verkettet, KetteAus, next_block, BLOCK_SIZE
  <2> QED BY <2>1, <2>2, <2>3, <2>4 DEF IInv, Zeiger, Wachsend, next_block, BLOCK_SIZE
<1>17. CASE defrag_vereinen
  <2> DEFINE l == last_free
             n == mem[l + 1] + 2 + mem[p + 1]
  <2>1. /\ formatiert /\ Verkettet /\ p \in kette /\ pc' = "defrag"
        /\ l \in kette /\ l < p /\ next_block(l) = p
        /\ n <= ByteMax
        /\ mem' = [mem EXCEPT ![l + 1] = n]
        /\ p' = next_block(p) /\ kette' = kette \ {p} /\ UNCHANGED <<last_free, req>>
    BY <1>t, <1>17 DEF Ordnung, KetteHeil, Zeiger, defrag_vereinen, vereinbar, formatierend, Nichts,
       BLOCK_SIZE, Schreibe
  <2>2. /\ p \in Nat /\ p < EdsEnd /\ l \in Nat /\ l >= DataStart /\ l < EdsEnd
        /\ mem[l + 1] \in Bytes /\ mem[p + 1] \in Bytes
        /\ next_block(p) \in kette \cup {Nichts}
        /\ l + 2 + mem[l + 1] = p
    BY <1>t, <2>1, KetteGetrennt DEF next_block, BLOCK_SIZE
  <2>3. l + 1 \in Adressen /\ n \in Bytes /\ l + 2 + n = next_block(p) /\ next_block(p) \in Nat
        /\ p < next_block(p)
    BY <2>1, <2>2 DEF Adressen, Bytes, next_block, BLOCK_SIZE, DataStart
  <2>4. mem'[l + 1] = n /\ \A x \in Adressen : x # l + 1 => mem'[x] = mem[x]
    BY <1>t, <2>1, <2>3 DEF TypeOK
  <2>5. formatiert'
    BY <2>1, <2>2, <2>4 DEF formatiert, DataStart, Adressen
  <2>6. TypeOK'
    BY <1>t, <2>1, <2>2, <2>3 DEF TypeOK, Schritte, DataStart, Nichts
  <2>7. \A x : x = l => next_block(x)' = next_block(p)
    BY <2>3, <2>4 DEF next_block, BLOCK_SIZE
  <2>8. \A x \in kette : /\ x \in Nat /\ x < EdsEnd
                         /\ x # l => next_block(x)' = next_block(x)
                         /\ next_block(x) \in kette \cup {Nichts}
    <3>1. \A x \in kette : x \in Nat /\ x < EdsEnd /\ next_block(x) \in kette \cup {Nichts}
      BY <1>t, <2>1, KetteGetrennt
    <3>2. \A x \in kette : x # l => mem'[x + 1] = mem[x + 1]
      BY <2>2, <2>4, <3>1 DEF Adressen
    <3> QED BY <3>1, <3>2 DEF next_block, BLOCK_SIZE
  <2>9. \A a, b \in kette : a < b => next_block(a) <= b
    BY <2>1 DEF Verkettet, KetteAus
  <2>9a. DataStart \in kette /\ DataStart # p
    BY <2>1, <2>2 DEF Verkettet, KetteAus, DataStart
  <2> HIDE DEF l, n
  <2>10. \A x \in kette : x # l => next_block(x) # p
    <3>1. SUFFICES ASSUME NEW x \in kette, x # l, next_block(x) = p PROVE FALSE
      OBVIOUS
    <3>2. x < next_block(x)
      BY <1>t, <2>1, KetteGetrennt DEF next_block, BLOCK_SIZE, Bytes
    <3>3. x < l \/ l < x
      BY <2>2, <2>8, <3>1
    <3>4. CASE x < l
      BY <2>1, <2>2, <2>9, <3>1, <3>4
    <3>5. CASE l < x
      BY <2>1, <2>2, <2>8, <2>9, <3>1, <3>2, <3>5
    <3> QED BY <3>3, <3>4, <3>5
  <2>11. \A b \in kette' : next_block(b)' \in kette' \cup {Nichts}
    BY <2>1, <2>2, <2>3, <2>7, <2>8, <2>10
  <2>12. \A a, b \in kette' : a < b => next_block(a)' <= b
    <3>1. SUFFICES ASSUME NEW a \in kette', NEW b \in kette', a < b PROVE next_block(a)' <= b
      OBVIOUS
    <3>2. CASE a = l
      <4>1. p <= b
        BY <2>1, <2>9, <3>1, <3>2
      <4>2. p < b
        BY <2>1, <2>2, <2>8, <3>1, <4>1
      <4> QED BY <2>1, <2>7, <2>9, <3>1, <3>2, <4>2
    <3>3. CASE a # l
      BY <2>1, <2>8, <2>9, <3>1, <3>3
    <3> QED BY <3>2, <3>3
  <2>13. Verkettet'
    BY <2>1, <2>9a, <2>11, <2>12 DEF Verkettet, KetteAus
  <2>14. Zeiger'
    <3>1. p' \in kette' \cup {Nichts} /\ l \in kette' /\ l < p'
      BY <2>1, <2>2, <2>3
    <3>2. next_block(last_free)' = p'
      BY <2>1, <2>3, <2>4 DEF next_block, BLOCK_SIZE, l
    <3> QED BY <2>1, <3>1, <3>2 DEF Zeiger, l
  <2> QED BY <2>1, <2>5, <2>6, <2>13, <2>14 DEF IInv, Ordnung, KetteHeil, Wachsend
<1> QED BY <1>c, <1>1, <1>2, <1>3, <1>4, <1>5, <1>6, <1>7, <1>8, <1>9,
        <1>10, <1>11, <1>12, <1>13, <1>14, <1>15, <1>16, <1>17 DEF Next, Auftrag, eds_format, eds_alloc, eds_free, eds_defragment

(* Type correctness: no split and no merge ever writes a size that does    *)
(* not fit its byte, and no walk leaves the EEPROM.                        *)
THEOREM TypKorrekt == Spec => []TypeOK
<1>1. IInv => TypeOK
  BY DEF IInv
<1> QED BY <1>1, InitIInv, NextIInv, PTL DEF Spec

(* The chain of blocks is intact after every EEPROM write of eds_alloc,    *)
(* eds_free and eds_defragment, and so after every power failure among     *)
(* them.                                                                   *)
THEOREM KetteBleibtHeil == Spec => []KetteHeil
<1>1. IInv => KetteHeil
  BY DEF IInv, Ordnung
<1> QED BY <1>1, InitIInv, NextIInv, PTL DEF Spec
-----------------------------------------------------------------------------
(* The refinement of EdsBloecke needs to know which blocks are free: the   *)
(* one a request is working on, the one the defragmentation merges into,   *)
(* and all of them while eds_format lays the chain.                        *)
Freiheit ==
  /\ pc \in {"alloc_rest", "alloc_kuerzen"} =>
       mem[p] = 0 /\ mem[p + 2 + req.size] = 0
  /\ pc = "set_type" /\ p # 0 => mem[p] = 0 /\ mem[p + 1] = req.size
  /\ pc = "defrag" /\ last_free # 0 => mem[last_free] = 0
  /\ pc \in {"format_type", "format_size"} => \A b \in kette : mem[b] = 0
  /\ pc = "format_size" => mem[p] = 0

(* The abstract block that the cells at b hold, and where there is one.    *)
Block(b) == [typ |-> mem[b], size |-> mem[b + 1],
             inhalt |-> [i \in 0..(mem[b + 1] - 1) |-> mem[b + 2 + i]]]
Belegte == {a \in kette : mem[a] # 0}

LEMMA BelegtBlock == /\ belegt = [b \in Belegte |-> Block(b)]
                     /\ DOMAIN belegt = Belegte
                     /\ \A b \in Belegte : belegt[b] = Block(b)
<1>1. belegt = [b \in Belegte |-> Block(b)]
  BY DEF belegt, Belegte, Block
<1> QED BY <1>1

LEMMA BelegtBlockPrime == /\ belegt' = [b \in Belegte' |-> Block(b)']
                          /\ DOMAIN belegt' = Belegte'
                          /\ \A b \in Belegte' : belegt'[b] = Block(b)'
<1>1. belegt' = [b \in Belegte' |-> Block(b)']
  BY DEF belegt, Belegte, Block
<1> QED BY <1>1

(* What no step touches stays what it is.                                  *)
LEMMA Unveraendert ==
  ASSUME Belegte' = Belegte, \A b \in Belegte : Block(b)' = Block(b)
  PROVE  belegt' = belegt
BY BelegtBlock, BelegtBlockPrime

LEMMA Ruhend ==
  ASSUME UNCHANGED <<mem, kette>> PROVE belegt' = belegt
BY DEF belegt

(* A byte written inside block f leaves every other block as it was.       *)
LEMMA Unberuehrt ==
  ASSUME TypeOK, Verkettet, NEW f \in kette, NEW a \in Nat, NEW v,
         f <= a, a < f + 2 + mem[f + 1], Schreibe(a, v),
         NEW b \in kette, b # f
  PROVE  mem'[b] = mem[b] /\ Block(b)' = Block(b)
<1> USE EdsAssumption
<1>1. /\ b \in Nat /\ f \in Nat /\ b < EdsEnd
      /\ mem[b + 1] \in Bytes /\ mem[f + 1] \in Bytes
      /\ b + 2 + mem[b + 1] <= Nichts
      /\ b < f => b + 2 + mem[b + 1] <= f
      /\ f < b => f + 2 + mem[f + 1] <= b
  BY KetteGetrennt
<1>2. \A x \in b..(b + 1 + mem[b + 1]) : x # a /\ x \in Adressen
  BY <1>1 DEF Bytes, Adressen, Nichts
<1>3. \A x \in Adressen : x # a => mem'[x] = mem[x]
  BY DEF Schreibe, TypeOK
<1>4. \A x \in b..(b + 1 + mem[b + 1]) : mem'[x] = mem[x]
  BY <1>2, <1>3
<1>5. mem'[b] = mem[b] /\ mem'[b + 1] = mem[b + 1]
  BY <1>1, <1>4 DEF Bytes
<1>6. \A i \in 0..(mem[b + 1] - 1) : mem'[b + 2 + i] = mem[b + 2 + i]
  BY <1>1, <1>4 DEF Bytes
<1>7. [i \in 0..(mem[b + 1] - 1) |-> mem'[b + 2 + i]]
        = [i \in 0..(mem[b + 1] - 1) |-> mem[b + 2 + i]]
  BY <1>6
<1> QED BY <1>5, <1>7 DEF Block

(* So does a byte written inside a free block: no allocated block changes. *)
LEMMA SchreibtFrei ==
  ASSUME TypeOK, Verkettet, NEW f \in kette, NEW a \in Nat, NEW v,
         f <= a, a < f + 2 + mem[f + 1], Schreibe(a, v),
         mem[f] = 0, mem'[f] = 0,
         \A x \in kette' : x \in kette \/ mem'[x] = 0,
         \A x \in kette : x \in kette' \/ mem[x] = 0
  PROVE  belegt' = belegt
<1>1. \A b \in kette : b # f => mem'[b] = mem[b] /\ Block(b)' = Block(b)
  BY Unberuehrt
<1>2. Belegte' = Belegte
  BY <1>1 DEF Belegte
<1>3. \A b \in Belegte : Block(b)' = Block(b)
  BY <1>1 DEF Belegte
<1> QED BY <1>2, <1>3, Unveraendert

-----------------------------------------------------------------------------
(* The request EdsBloecke sees in each step of the store.                  *)
Alloziert == {"alloc", "alloc_rest", "alloc_kuerzen", "set_type"}
Ruht == {"init", "idle", "load"}

LEMMA AuftragWert ==
  /\ pc \in Alloziert =>
       auftrag = [op |-> "alloc", type |-> req.type, size |-> req.size]
  /\ pc = "free" => auftrag = [op |-> "free", block |-> req.block]
  /\ pc = "defrag" => auftrag = [op |-> "defrag"]
  /\ pc \in formatierend => auftrag = [op |-> "format"]
  /\ pc \in Ruht => auftrag = Bloecke!Keiner
BY DEF auftrag, Alloziert, Ruht, formatierend, Bloecke!Keiner

LEMMA AuftragWertPrime ==
  /\ pc' \in Alloziert =>
       auftrag' = [op |-> "alloc", type |-> req.type', size |-> req.size']
  /\ pc' = "free" => auftrag' = [op |-> "free", block |-> req.block']
  /\ pc' = "defrag" => auftrag' = [op |-> "defrag"]
  /\ pc' \in formatierend => auftrag' = [op |-> "format"]
  /\ pc' \in Ruht => auftrag' = Bloecke!Keiner
BY DEF auftrag, Alloziert, Ruht, formatierend, Bloecke!Keiner

(* A request is pending exactly outside the resting states.                *)
LEMMA AuftragOffen == TypeOK /\ pc \notin Ruht => auftrag # Bloecke!Keiner
<1> SUFFICES ASSUME TypeOK, pc \notin Ruht PROVE auftrag.op # "keiner"
  BY DEF Bloecke!Keiner
<1>1. pc \in Alloziert \cup {"free", "defrag"} \cup formatierend
  BY DEF TypeOK, Schritte, Ruht, Alloziert, formatierend
<1> QED BY <1>1, AuftragWert

LEMMA InitFreiheit == Init => Freiheit
BY DEF Init, Freiheit

LEMMA NextFreiheit ==
  ASSUME IInv, IInv', Freiheit, [Next]_vars PROVE Freiheit'
<1> USE EdsAssumption
<1>t. TypeOK /\ Ordnung /\ Zeiger /\ Wachsend /\ TypeOK'
  BY DEF IInv
<1>0. \A v : \A a \in Adressen : Schreibe(a, v) =>
        mem'[a] = v /\ \A x \in Adressen : x # a => mem'[x] = mem[x]
  BY <1>t DEF Schreibe, TypeOK
<1>1. CASE \/ EDS_FORMAT \/ DEFRAGMENT \/ eds_init
           \/ \E t \in Typen, n \in Groessen : ALLOCATE_BLOCK(t, n)
           \/ \E b \in Adressen : FREE_BLOCK(b)
  BY <1>1 DEF Freiheit, EDS_FORMAT, ALLOCATE_BLOCK, FREE_BLOCK, DEFRAGMENT, Beginne,
     eds_init
<1>2. CASE set_field \/ format_magic1 \/ format_ende \/ Crash
  BY <1>2 DEF Freiheit, set_field, WRITE_TO_BLOCK, format_magic1, format_ende,
     Fertig, Crash, Neustart
<1>3. CASE format_magic2
  BY <1>t, <1>3 DEF Freiheit, format_magic2, Wachsend
<1>4. CASE format_type
  <2>1. p \in Adressen /\ pc = "format_type" /\ pc' = "format_size" /\ Schreibe(p, 0)
        /\ kette' = kette /\ p' = p
    BY <1>t, <1>4 DEF format_type, TypeOK, Adressen, Nichts
  <2>2. \A x \in kette : x \in Adressen
    BY <1>t DEF TypeOK, Adressen, DataStart
  <2> QED BY <1>0, <2>1, <2>2 DEF Freiheit
<1>5. CASE format_size
  <2>1. PICK n : Schreibe(p + 1, n)
    BY <1>5 DEF format_size
  <2>2. /\ pc = "format_size" /\ pc' = "format_type" /\ kette' = kette \cup {p}
        /\ p + 1 \in Adressen /\ p \in Adressen /\ p \in Nat
    BY <1>t, <1>5 DEF format_size, Wachsend, TypeOK, Adressen, Nichts
  <2>3. \A x \in kette : x \in Adressen /\ x \in Nat
    BY <1>t DEF TypeOK, Adressen, DataStart
  <2>4. \A x \in kette : x # p + 1
    <3>1. SUFFICES ASSUME NEW x \in kette PROVE x < p
      BY <2>2, <2>3
    <3>2. next_block(x) <= p
      BY <1>t, <2>2 DEF Wachsend
    <3>3a. x + 1 \in Adressen
      BY <1>t DEF TypeOK, Adressen, DataStart
    <3>3. mem[x + 1] \in Nat
      BY <1>t, <3>3a DEF TypeOK, Bytes
    <3> QED BY <2>2, <2>3, <3>2, <3>3 DEF next_block, BLOCK_SIZE
  <2>5. mem'[p] = mem[p] /\ \A x \in kette : mem'[x] = mem[x]
    BY <1>0, <2>1, <2>2, <2>3, <2>4
  <2> QED BY <2>2, <2>5 DEF Freiheit
<1>6. CASE alloc_weiter \/ free_weiter \/ alloc_nichts
  BY <1>6 DEF Freiheit, alloc_weiter, free_weiter, alloc_nichts
<1>7. CASE alloc_genau
  BY <1>7 DEF Freiheit, alloc_genau, passt_genau, BLOCK_TYPE, BLOCK_SIZE
<1>8. CASE alloc_teilen
  <2>1. /\ p \in kette /\ mem[p] = 0 /\ mem[p + 1] >= req.size + 2 /\ Verkettet
        /\ pc' = "alloc_rest" /\ UNCHANGED <<p, req>>
        /\ Schreibe(p + 2 + req.size, 0)
    BY <1>t, <1>8 DEF alloc_teilen, passt_mit_rest, BLOCK_TYPE, BLOCK_SIZE, Zeiger, Nichts,
       Ordnung, KetteHeil, formatierend
  <2>2. /\ p \in Nat /\ p < EdsEnd /\ p + 2 + mem[p + 1] <= Nichts
        /\ mem[p + 1] \in Bytes /\ req.size \in Nat
    BY <1>t, <2>1, KetteGetrennt DEF TypeOK, Bytes
  <2>3. p \in Adressen /\ p + 2 + req.size \in Adressen /\ p # p + 2 + req.size
    BY <2>1, <2>2 DEF Adressen, Nichts, Bytes
  <2> QED BY <1>0, <2>1, <2>3 DEF Freiheit
<1>9. CASE alloc_rest
  <2>1. PICK n : Schreibe(p + 2 + req.size + 1, n)
    BY <1>9 DEF alloc_rest
  <2>2. /\ p \in kette /\ mem[p] = 0 /\ mem[p + 2 + req.size] = 0
        /\ mem[p + 1] >= req.size + 2 /\ Verkettet
        /\ pc' = "alloc_kuerzen" /\ UNCHANGED <<p, req>>
    BY <1>t, <1>9 DEF alloc_rest, Freiheit, Zeiger, Ordnung, KetteHeil, formatierend
  <2>3. /\ p \in Nat /\ p < EdsEnd /\ p + 2 + mem[p + 1] <= Nichts
        /\ mem[p + 1] \in Bytes /\ req.size \in Nat
    BY <1>t, <2>2, KetteGetrennt DEF TypeOK, Bytes
  <2>4. /\ p \in Adressen /\ p + 2 + req.size \in Adressen
        /\ p + 2 + req.size + 1 \in Adressen
        /\ p # p + 2 + req.size + 1 /\ p + 2 + req.size # p + 2 + req.size + 1
    BY <2>2, <2>3 DEF Adressen, Nichts, Bytes
  <2> QED BY <1>0, <2>1, <2>2, <2>4 DEF Freiheit
<1>10. CASE alloc_kuerzen
  <2>1. /\ p \in kette /\ mem[p] = 0 /\ pc' = "set_type" /\ UNCHANGED <<p, req>>
        /\ Schreibe(p + 1, req.size)
    BY <1>t, <1>10 DEF alloc_kuerzen, Freiheit, Zeiger
  <2>2. p \in Adressen /\ p + 1 \in Adressen /\ p # p + 1
    BY <1>t, <2>1 DEF TypeOK, Adressen, DataStart
  <2> QED BY <1>0, <2>1, <2>2 DEF Freiheit
<1>11. CASE set_type \/ free_treffer \/ free_nichts \/ defrag_ende
  BY <1>11 DEF Freiheit, set_type, free_treffer, free_nichts, defrag_ende, Fertig
<1>12. CASE defrag_weiter
  BY <1>12 DEF Freiheit, defrag_weiter, BLOCK_TYPE
<1>13. CASE defrag_vereinen
  <2>1. PICK n : Schreibe(last_free + 1, n)
    BY <1>13 DEF defrag_vereinen
  <2>2. /\ last_free \in kette /\ last_free' = last_free /\ pc' = "defrag"
        /\ mem[last_free] = 0
    BY <1>t, <1>13 DEF defrag_vereinen, vereinbar, Zeiger, Freiheit
  <2>3. last_free \in Adressen /\ last_free + 1 \in Adressen /\ last_free # last_free + 1
    BY <1>t, <2>2 DEF TypeOK, Adressen, DataStart
  <2> QED BY <1>0, <2>1, <2>2, <2>3 DEF Freiheit
<1>14. CASE UNCHANGED vars
  BY <1>14 DEF vars, Freiheit
<1> QED BY <1>1, <1>2, <1>3, <1>4, <1>5, <1>6, <1>7, <1>8, <1>9, <1>10, <1>11, <1>12,
        <1>13, <1>14 DEF Next, Auftrag, eds_format, eds_alloc, eds_free, eds_defragment

(* The steps of a request that EdsBloecke does not see, or sees end.       *)
LEMMA StummBloecke ==
  ASSUME IInv, IInv', Freiheit, Freiheit', belegt' = belegt,
         pc \notin Ruht, pc' \in Ruht \/ auftrag' = auftrag
  PROVE  [Bloecke!Next]_(Bloecke!bvars)
<1>1. CASE pc' \in Ruht
  BY <1>1, AuftragOffen, AuftragWertPrime
     DEF IInv, Bloecke!Next, Bloecke!Abschluss, Bloecke!bvars
<1>2. CASE auftrag' = auftrag
  BY <1>2 DEF Bloecke!bvars
<1> QED BY <1>1, <1>2

(* While eds_format lays the chain no block is allocated.                  *)
LEMMA NichtsBelegt ==
  ASSUME IInv, Freiheit, pc \in {"format_magic2", "format_type", "format_size"}
  PROVE  belegt = [b \in {} |-> 0]
<1>1. Belegte = {}
  BY DEF IInv, Freiheit, Wachsend, Belegte
<1> QED BY <1>1, BelegtBlock

LEMMA NichtsBelegtPrime ==
  ASSUME IInv', Freiheit', pc' \in {"format_magic2", "format_type", "format_size"}
  PROVE  belegt' = [b \in {} |-> 0]
<1>1. Belegte' = {}
  BY DEF IInv, Freiheit, Wachsend, Belegte
<1> QED BY <1>1, BelegtBlockPrime

(* A new request, and nothing else.                                        *)
LEMMA FrageBloecke ==
  ASSUME IInv, UNCHANGED <<mem, kette>>, pc \in {"init", "idle"},
         \/ pc' \in {"init", "idle", "format"}
         \/ \E op \in {"alloc", "free", "defrag"},
               r \in [type : Bytes, size : Bytes, block : Adressen] :
              pc' = op /\ req' = r
  PROVE  [Bloecke!Next]_(Bloecke!bvars)
<1>1. belegt' = belegt
  BY Ruhend
<1>2. auftrag = Bloecke!Keiner
  BY AuftragWert DEF Ruht
<1>3. CASE pc' \in {"init", "idle"}
  <2>1. auftrag' = Bloecke!Keiner
    BY <1>3, AuftragWertPrime DEF Ruht
  <2> QED BY <1>1, <1>2, <2>1 DEF Bloecke!bvars
<1>4. CASE pc' = "format"
  <2>1. auftrag' = [op |-> "format"]
    BY <1>4, AuftragWertPrime DEF formatierend
  <2>2. auftrag' \in Bloecke!Auftraege
    BY <2>1 DEF Bloecke!Auftraege
  <2> QED BY <1>1, <1>2, <2>2 DEF Bloecke!Next, Bloecke!Frage
<1>5. CASE \E op \in {"alloc", "free", "defrag"},
              r \in [type : Bytes, size : Bytes, block : Adressen] :
             pc' = op /\ req' = r
  <2>1. PICK op \in {"alloc", "free", "defrag"},
             r \in [type : Bytes, size : Bytes, block : Adressen] :
               pc' = op /\ req' = r
    BY <1>5
  <2>2. CASE op = "alloc"
    <3>1. auftrag' = [op |-> "alloc", type |-> r.type, size |-> r.size]
      BY <2>1, <2>2, AuftragWertPrime DEF Alloziert
    <3>2. auftrag' \in [op : {"alloc"}, type : Bytes, size : Bytes]
      BY <2>1, <3>1
    <3> QED BY <1>1, <1>2, <3>2 DEF Bloecke!Next, Bloecke!Frage, Bloecke!Auftraege
  <2>3. CASE op = "free"
    <3>1. auftrag' = [op |-> "free", block |-> r.block]
      BY <2>1, <2>3, AuftragWertPrime
    <3>2. r.block \in 0..Nichts
      BY <2>1, EdsAssumption DEF Adressen, Nichts
    <3>3. auftrag' \in [op : {"free"}, block : 0..Nichts]
      BY <3>1, <3>2
    <3> QED BY <1>1, <1>2, <3>3 DEF Bloecke!Next, Bloecke!Frage, Bloecke!Auftraege
  <2>4. CASE op = "defrag"
    <3>1. auftrag' = [op |-> "defrag"]
      BY <2>1, <2>4, AuftragWertPrime
    <3>2. auftrag' \in [op : {"defrag", "format"}]
      BY <3>1
    <3> QED BY <1>1, <1>2, <3>2 DEF Bloecke!Next, Bloecke!Frage, Bloecke!Auftraege
  <2> QED BY <2>1, <2>2, <2>3, <2>4
<1> QED BY <1>3, <1>4, <1>5

(* set_type with a block that was found: the block appears.                *)
LEMMA SetTypeBloecke ==
  ASSUME IInv, IInv', Freiheit, set_type, p # 0, req.type # 0
  PROVE  Bloecke!Allocate
<1> USE EdsAssumption
<1>t. TypeOK /\ Ordnung /\ Zeiger
  BY DEF IInv
<1>1. /\ p \in kette /\ mem[p] = 0 /\ mem[p + 1] = req.size /\ Verkettet
      /\ Schreibe(p, req.type) /\ kette' = kette /\ pc = "set_type" /\ pc' = "idle"
  BY <1>t DEF set_type, Fertig, Zeiger, Freiheit, Ordnung, KetteHeil, formatierend
<1>2. /\ p \in Nat /\ p >= DataStart /\ p < EdsEnd /\ p + 2 + mem[p + 1] <= Nichts
      /\ mem[p + 1] \in Bytes
  BY <1>t, <1>1, KetteGetrennt
<1>3. p \in Adressen /\ p + 1 \in Adressen
  BY <1>2 DEF Adressen
<1>4. mem'[p] = req.type /\ mem'[p + 1] = req.size
  BY <1>t, <1>1, <1>2, <1>3 DEF TypeOK, Schreibe
<1>5. \A b \in kette : b # p => mem'[b] = mem[b] /\ Block(b)' = Block(b)
  BY <1>t, <1>1, <1>2, Unberuehrt DEF Bytes
<1>6. p \notin Belegte /\ Belegte' = Belegte \cup {p}
  BY <1>1, <1>4, <1>5 DEF Belegte
<1>7. \A a \in Belegte : belegt'[a] = belegt[a]
  BY <1>5, <1>6, BelegtBlock, BelegtBlockPrime DEF Belegte
<1>8. belegt'[p].typ = req.type /\ belegt'[p].size = req.size
  <2>1. p \in Belegte' /\ \A x : x = p => Block(x)'.typ = req.type /\ Block(x)'.size = req.size
    BY <1>4, <1>6 DEF Block
  <2> QED BY <2>1, BelegtBlockPrime
<1>9. \A a \in Belegte : Bloecke!Bereich(belegt, a) \cap Bloecke!Bereich(belegt', p) = {}
  <2> SUFFICES ASSUME NEW a \in Belegte
               PROVE  Bloecke!Bereich(belegt, a) \cap Bloecke!Bereich(belegt', p) = {}
    OBVIOUS
  <2>1. /\ a \in Nat /\ mem[a + 1] \in Bytes
        /\ a < p => a + 2 + mem[a + 1] <= p
        /\ p < a => p + 2 + mem[p + 1] <= a
        /\ a # p
    BY <1>t, <1>1, <1>6, KetteGetrennt DEF Belegte
  <2>2. Bloecke!Bereich(belegt, a) = a..(a + 1 + mem[a + 1])
    BY BelegtBlock DEF Block, Bloecke!Bereich
  <2>3. Bloecke!Bereich(belegt', p) = p..(p + 1 + mem[p + 1])
    BY <1>1, <1>8 DEF Bloecke!Bereich
  <2>4. a..(a + 1 + mem[a + 1]) \cap p..(p + 1 + mem[p + 1]) = {}
    BY <1>2, <2>1 DEF Bytes
  <2> QED BY <2>2, <2>3, <2>4
<1>10. auftrag = [op |-> "alloc", type |-> req.type, size |-> req.size]
       /\ auftrag' = Bloecke!Keiner
  BY <1>1, AuftragWert, AuftragWertPrime DEF Alloziert, Ruht
<1>11. DOMAIN belegt = Belegte /\ DOMAIN belegt' = Belegte \cup {p}
  BY <1>6, BelegtBlock, BelegtBlockPrime
<1>12. p >= DataStart /\ p + 2 + belegt'[p].size <= Nichts
  BY <1>1, <1>2, <1>8
<1> QED BY <1>6, <1>7, <1>8, <1>9, <1>10, <1>11, <1>12 DEF Bloecke!Allocate

(* eds_free of an allocated or of a free block.                            *)
LEMMA FreeBloecke ==
  ASSUME IInv, free_treffer PROVE Bloecke!Free
<1> USE EdsAssumption
<1>t. TypeOK /\ Ordnung /\ Zeiger
  BY DEF IInv
<1>1. /\ p \in kette /\ p = req.block /\ Verkettet
      /\ Schreibe(p, 0) /\ kette' = kette /\ pc = "free" /\ pc' = "idle"
  BY <1>t DEF free_treffer, Fertig, Zeiger, Nichts, Ordnung, KetteHeil, formatierend
<1>2. /\ p \in Nat /\ p >= DataStart /\ p < EdsEnd /\ mem[p + 1] \in Bytes
      /\ p \in Adressen
  BY <1>t, <1>1, KetteGetrennt DEF Adressen
<1>3. mem'[p] = 0
  BY <1>t, <1>1, <1>2 DEF TypeOK, Schreibe
<1>4. \A b \in kette : b # p => mem'[b] = mem[b] /\ Block(b)' = Block(b)
  BY <1>t, <1>1, <1>2, Unberuehrt DEF Bytes
<1>5. Belegte' = Belegte \ {p}
  BY <1>1, <1>3, <1>4 DEF Belegte
<1>6. \A b \in Belegte' : Block(b)' = belegt[b]
  BY <1>4, <1>5, BelegtBlock DEF Belegte
<1>7. belegt' = [a \in DOMAIN belegt \ {p} |-> belegt[a]]
  BY <1>5, <1>6, BelegtBlock, BelegtBlockPrime
<1>8. auftrag = [op |-> "free", block |-> p] /\ auftrag' = Bloecke!Keiner
  BY <1>1, AuftragWert, AuftragWertPrime DEF Ruht
<1> QED BY <1>7, <1>8 DEF Bloecke!Free

(* A byte written by a client changes one byte of one block.               *)
LEMMA WriteBloecke ==
  ASSUME IInv, set_field PROVE Bloecke!Write
<1> USE EdsAssumption
<1>t. TypeOK /\ Ordnung
  BY DEF IInv
<1>1. PICK h1 \in kette, i \in Bytes, v \in Werte :
        mem[h1] # 0 /\ i < mem[h1 + 1] /\ WRITE_TO_BLOCK(h1, i + 2, v)
  BY DEF set_field, BLOCK_SIZE, BLOCK_TYPE
<1>2. /\ Verkettet /\ pc = "idle" /\ pc' = "idle" /\ kette' = kette
      /\ Schreibe(h1 + (i + 2), v)
  BY <1>t, <1>1 DEF Ordnung, KetteHeil, WRITE_TO_BLOCK, formatierend
<1>3. /\ h1 \in Nat /\ h1 >= DataStart /\ h1 < EdsEnd /\ mem[h1 + 1] \in Bytes
      /\ h1 + 2 + mem[h1 + 1] <= Nichts /\ i \in Nat
  BY <1>t, <1>2, KetteGetrennt DEF Bytes
<1> DEFINE a == h1 + (i + 2)
<1>4. a \in Adressen /\ a \in Nat /\ h1 <= a /\ a < h1 + 2 + mem[h1 + 1] /\ a # h1 /\ a # h1 + 1
  BY <1>1, <1>3 DEF Adressen, Bytes, Nichts
<1>5. mem'[a] = v /\ \A x \in Adressen : x # a => mem'[x] = mem[x]
  BY <1>t, <1>2, <1>4 DEF TypeOK, Schreibe
<1>6. \A b \in kette : b # h1 => mem'[b] = mem[b] /\ Block(b)' = Block(b)
  BY <1>t, <1>2, <1>4, Unberuehrt
<1>7. h1 \in Adressen /\ h1 + 1 \in Adressen
  BY <1>3 DEF Adressen
<1>8. mem'[h1] = mem[h1] /\ mem'[h1 + 1] = mem[h1 + 1]
  BY <1>4, <1>5, <1>7
<1>9. Belegte' = Belegte /\ h1 \in Belegte
  BY <1>1, <1>2, <1>6, <1>8 DEF Belegte
<1>10. \A j \in 0..(mem[h1 + 1] - 1) :
         mem'[h1 + 2 + j] = IF j = i THEN v ELSE mem[h1 + 2 + j]
  <2> SUFFICES ASSUME NEW j \in 0..(mem[h1 + 1] - 1)
               PROVE  mem'[h1 + 2 + j] = IF j = i THEN v ELSE mem[h1 + 2 + j]
    OBVIOUS
  <2>1. h1 + 2 + j \in Adressen /\ (j # i => h1 + 2 + j # a) /\ (j = i => h1 + 2 + j = a)
    BY <1>3 DEF Adressen, Bytes, Nichts
  <2> QED BY <1>5, <2>1
<1> DEFINE alt == [j \in 0..(mem[h1 + 1] - 1) |-> mem[h1 + 2 + j]]
           neu == [j \in 0..(mem[h1 + 1] - 1) |-> mem'[h1 + 2 + j]]
<1>11. neu = [alt EXCEPT ![i] = v] /\ i \in DOMAIN alt
  <2> DEFINE J == 0..(mem[h1 + 1] - 1)
  <2>1. i \in J
    BY <1>1, <1>3 DEF Bytes
  <2> HIDE DEF J
  <2>2. neu = [j \in J |-> IF j = i THEN v ELSE mem[h1 + 2 + j]]
    BY <1>10 DEF J
  <2>3. alt = [j \in J |-> mem[h1 + 2 + j]]
    BY DEF J
  <2> HIDE DEF alt, neu
  <2> QED BY <2>1, <2>2, <2>3
<1>12. /\ belegt[h1] = [typ |-> mem[h1], size |-> mem[h1 + 1], inhalt |-> alt]
       /\ belegt'[h1] = [typ |-> mem[h1], size |-> mem[h1 + 1], inhalt |-> neu]
  <2>1. Block(h1) = [typ |-> mem[h1], size |-> mem[h1 + 1], inhalt |-> alt]
    BY DEF Block
  <2>2. \A x : x = h1 =>
          Block(x)' = [typ |-> mem[h1], size |-> mem[h1 + 1], inhalt |-> neu]
    BY <1>8 DEF Block
  <2> QED BY <1>9, <2>1, <2>2, BelegtBlock, BelegtBlockPrime
<1> HIDE DEF alt, neu
<1>13. belegt'[h1] = [belegt[h1] EXCEPT !.inhalt[i] = v] /\ i \in DOMAIN belegt[h1].inhalt
  BY <1>11, <1>12
<1>14. \A b \in Belegte : b # h1 => belegt'[b] = belegt[b]
  BY <1>6, <1>9, BelegtBlock, BelegtBlockPrime DEF Belegte
<1>15. belegt' = [belegt EXCEPT ![h1] = [belegt[h1] EXCEPT !.inhalt[i] = v]]
  BY <1>9, <1>13, <1>14, BelegtBlock, BelegtBlockPrime
<1>16. auftrag = Bloecke!Keiner /\ auftrag' = auftrag
  BY <1>2, AuftragWert, AuftragWertPrime DEF Ruht
<1>17. h1 \in DOMAIN belegt /\ v \in Bytes
  BY <1>9, BelegtBlock
<1> QED BY <1>13, <1>15, <1>16, <1>17 DEF Bloecke!Write

(* Every step of the store is a step of EdsBloecke or none.                *)
LEMMA NextBloecke ==
  ASSUME IInv, IInv', Freiheit, Freiheit', [Next]_vars
  PROVE  [Bloecke!Next]_(Bloecke!bvars)
<1> USE EdsAssumption
<1>t. TypeOK /\ Ordnung /\ Zeiger /\ Wachsend /\ TypeOK'
  BY DEF IInv
<1>1. CASE EDS_FORMAT \/ eds_init
  BY <1>1, FrageBloecke DEF EDS_FORMAT, eds_init
<1>2. CASE \/ DEFRAGMENT
           \/ \E t \in Typen, n \in Groessen : ALLOCATE_BLOCK(t, n)
           \/ \E b \in Adressen : FREE_BLOCK(b)
  <2>1. /\ pc = "idle" /\ pc' \in {"alloc", "free", "defrag"}
        /\ UNCHANGED <<mem, kette>>
    BY <1>2 DEF ALLOCATE_BLOCK, FREE_BLOCK, DEFRAGMENT, Beginne
  <2>2. req' \in [type : Bytes, size : Bytes, block : Adressen]
    BY <1>t DEF TypeOK
  <2> QED BY <2>1, <2>2, FrageBloecke
<1>3. CASE set_field
  BY <1>3, WriteBloecke DEF Bloecke!Next
<1>4. CASE format_magic1
  <2>1. pc \in formatierend /\ pc' \in formatierend /\ pc' = "format_magic2"
    BY <1>4 DEF format_magic1, formatierend
  <2>2. belegt' = [b \in {} |-> 0]
    BY <2>1, NichtsBelegtPrime
  <2>3. auftrag = [op |-> "format"] /\ auftrag' = auftrag
    BY <2>1, AuftragWert, AuftragWertPrime
  <2> QED BY <2>2, <2>3 DEF Bloecke!Next, Bloecke!Format
<1>5. CASE format_magic2 \/ format_type \/ format_size
  <2>1. /\ pc \in formatierend /\ pc' \in formatierend
        /\ pc \in {"format_magic2", "format_type", "format_size"}
        /\ pc' \in {"format_magic2", "format_type", "format_size"}
    BY <1>5 DEF format_magic2, format_type, format_size, formatierend
  <2>2. belegt' = belegt
    BY <2>1, NichtsBelegt, NichtsBelegtPrime
  <2>3. auftrag' = auftrag
    BY <2>1, AuftragWert, AuftragWertPrime
  <2> QED BY <2>2, <2>3 DEF Bloecke!bvars
<1>6. CASE \/ format_ende \/ alloc_weiter \/ alloc_genau \/ alloc_nichts
           \/ free_weiter \/ free_nichts \/ defrag_weiter \/ defrag_ende
  <2>1. belegt' = belegt
    BY <1>6, Ruhend DEF format_ende, alloc_weiter, alloc_genau, alloc_nichts, free_weiter,
       free_nichts, defrag_weiter, defrag_ende
  <2>2. \/ pc \notin Ruht /\ pc' \in Ruht
        \/ pc \in Alloziert /\ pc' \in Alloziert /\ req' = req
        \/ pc = "free" /\ pc' = "free" /\ req' = req
        \/ pc = "defrag" /\ pc' = "defrag" /\ req' = req
    BY <1>6 DEF format_ende, alloc_weiter, alloc_genau, alloc_nichts, free_weiter,
       free_nichts, defrag_weiter, defrag_ende, Fertig, Ruht, Alloziert
  <2>3. pc \notin Ruht
    BY <2>2 DEF Ruht, Alloziert
  <2>4. pc' \in Ruht \/ auftrag' = auftrag
    BY <2>2, AuftragWert, AuftragWertPrime
  <2> QED BY <2>1, <2>3, <2>4, StummBloecke
<1>7. CASE alloc_teilen \/ alloc_rest \/ alloc_kuerzen
  <2>1. /\ p \in kette /\ mem[p] = 0 /\ mem[p + 1] >= req.size + 2 /\ Verkettet
        /\ pc \in Alloziert /\ pc' \in Alloziert /\ p' = p /\ req' = req
    BY <1>t, <1>7 DEF alloc_teilen, alloc_rest, alloc_kuerzen, passt_mit_rest, BLOCK_TYPE,
       BLOCK_SIZE, Zeiger, Nichts, Ordnung, KetteHeil, formatierend, Freiheit, Alloziert
  <2>2. /\ p \in Nat /\ p < EdsEnd /\ p + 2 + mem[p + 1] <= Nichts
        /\ mem[p + 1] \in Bytes /\ mem[p + 1] \in Nat /\ req.size \in Nat
    BY <1>t, <2>1, KetteGetrennt DEF TypeOK, Bytes
  <2>3. \E a \in {p + 1, p + 2 + req.size, p + 2 + req.size + 1} : \E v : Schreibe(a, v)
    BY <1>7 DEF alloc_teilen, alloc_rest, alloc_kuerzen
  <2>4. PICK a \in {p + 1, p + 2 + req.size, p + 2 + req.size + 1} : \E v : Schreibe(a, v)
    BY <2>3
  <2>5. a \in Nat /\ p <= a /\ a < p + 2 + mem[p + 1] /\ p \in Adressen /\ a # p
    BY <2>1, <2>2, <2>4 DEF Adressen
  <2>6. mem'[p] = 0
    BY <1>t, <2>1, <2>4, <2>5 DEF TypeOK, Schreibe
  <2>7. \A x \in kette' : x \in kette \/ mem'[x] = 0
    <3>1. CASE kette' = kette
      BY <3>1
    <3>2. CASE alloc_kuerzen
      <4>1. /\ kette' = kette \cup {p + 2 + req.size} /\ mem[p + 2 + req.size] = 0
            /\ Schreibe(p + 1, req.size)
        BY <3>2 DEF alloc_kuerzen, Freiheit
      <4>2. p + 2 + req.size \in Adressen /\ p + 2 + req.size # p + 1
        BY <2>1, <2>2 DEF Adressen, Nichts
      <4>3. mem'[p + 2 + req.size] = 0
        BY <1>t, <4>1, <4>2 DEF TypeOK, Schreibe
      <4> QED BY <4>1, <4>3
    <3> QED BY <1>7, <3>1, <3>2 DEF alloc_teilen, alloc_rest
  <2>8. kette \subseteq kette'
    BY <1>7 DEF alloc_teilen, alloc_rest, alloc_kuerzen
  <2>9. belegt' = belegt
    BY <1>t, <2>1, <2>4, <2>5, <2>6, <2>7, <2>8, SchreibtFrei
  <2>10. auftrag' = auftrag
    BY <2>1, AuftragWert, AuftragWertPrime
  <2> QED BY <2>9, <2>10 DEF Bloecke!bvars
<1>8. CASE set_type
  <2>1. CASE p # 0 /\ req.type # 0
    BY <1>8, <2>1, SetTypeBloecke DEF Bloecke!Next
  <2>2. CASE p # 0 /\ req.type = 0
    <3>1. /\ p \in kette /\ mem[p] = 0 /\ Verkettet /\ Schreibe(p, 0) /\ kette' = kette
      BY <1>t, <1>8, <2>2 DEF set_type, Zeiger, Freiheit, Ordnung, KetteHeil, formatierend
    <3>2. p \in Nat /\ p \in Adressen /\ mem[p + 1] \in Nat
      BY <1>t, <3>1, KetteGetrennt DEF Adressen, Bytes
    <3>3. mem'[p] = 0
      BY <1>t, <3>1, <3>2 DEF TypeOK, Schreibe
    <3>4. p <= p /\ p < p + 2 + mem[p + 1]
      BY <3>2
    <3>5. belegt' = belegt
      BY <1>t, <3>1, <3>2, <3>3, <3>4, SchreibtFrei
    <3> QED BY <1>8, <3>5, StummBloecke DEF set_type, Fertig, Ruht
  <2>3. CASE p = 0
    <3>1. Schreibe(0, req.type) /\ kette' = kette /\ Verkettet
      BY <1>t, <1>8, <2>3 DEF set_type, Ordnung, KetteHeil, formatierend
    <3>2. \A x \in Adressen : x # 0 => mem'[x] = mem[x]
      BY <1>t, <3>1 DEF TypeOK, Schreibe
    <3>3. \A b \in kette : mem'[b] = mem[b] /\ Block(b)' = Block(b)
      <4> SUFFICES ASSUME NEW b \in kette PROVE mem'[b] = mem[b] /\ Block(b)' = Block(b)
        OBVIOUS
      <4>1. /\ b \in Nat /\ b >= DataStart /\ b < EdsEnd /\ mem[b + 1] \in Nat
            /\ b + 2 + mem[b + 1] <= Nichts
        BY <1>t, <3>1, KetteGetrennt DEF Bytes
      <4>2. b \in Adressen /\ b # 0 /\ b + 1 \in Adressen /\ b + 1 # 0
        BY <4>1 DEF Adressen, DataStart
      <4>3. \A i \in 0..(mem[b + 1] - 1) : mem'[b + 2 + i] = mem[b + 2 + i]
        BY <3>2, <4>1 DEF Adressen, Nichts
      <4>4. mem'[b] = mem[b] /\ mem'[b + 1] = mem[b + 1]
        BY <3>2, <4>2
      <4>5. [i \in 0..(mem[b + 1] - 1) |-> mem'[b + 2 + i]]
              = [i \in 0..(mem[b + 1] - 1) |-> mem[b + 2 + i]]
        BY <4>3
      <4> QED BY <4>4, <4>5 DEF Block
    <3>4. Belegte' = Belegte
      BY <3>1, <3>3 DEF Belegte
    <3>5. belegt' = belegt
      BY <3>3, <3>4, Unveraendert DEF Belegte
    <3> QED BY <1>8, <3>5, StummBloecke DEF set_type, Fertig, Ruht
  <2> QED BY <2>1, <2>2, <2>3
<1>9. CASE free_treffer
  BY <1>9, FreeBloecke DEF Bloecke!Next
<1>10. CASE defrag_vereinen
  <2>1. PICK n : Schreibe(last_free + 1, n)
    BY <1>10 DEF defrag_vereinen
  <2>2. /\ last_free \in kette /\ mem[last_free] = 0 /\ mem[p] = 0 /\ Verkettet
        /\ pc = "defrag" /\ pc' = "defrag" /\ kette' = kette \ {p}
    BY <1>t, <1>10 DEF defrag_vereinen, vereinbar, BLOCK_TYPE, Zeiger, Freiheit, Ordnung,
       KetteHeil, formatierend
  <2>3. last_free \in Nat /\ last_free < EdsEnd /\ mem[last_free + 1] \in Nat
    BY <1>t, <2>2, KetteGetrennt DEF Bytes
  <2>4. /\ last_free + 1 \in Nat /\ last_free <= last_free + 1
        /\ last_free + 1 < last_free + 2 + mem[last_free + 1]
        /\ last_free \in Adressen /\ last_free + 1 # last_free
    BY <2>3 DEF Adressen
  <2>5. mem'[last_free] = 0
    BY <1>t, <2>1, <2>2, <2>4 DEF TypeOK, Schreibe
  <2>6. belegt' = belegt
    BY <1>t, <2>1, <2>2, <2>4, <2>5, SchreibtFrei
  <2>7. auftrag' = auftrag
    BY <2>2, AuftragWert, AuftragWertPrime
  <2> QED BY <2>6, <2>7 DEF Bloecke!bvars
<1>11. CASE Crash
  <2>1. belegt' = belegt /\ pc' = "init"
    BY <1>11, Ruhend DEF Crash, Neustart
  <2>2. CASE pc \in Ruht
    BY <2>1, <2>2, AuftragWert, AuftragWertPrime DEF Ruht, Bloecke!bvars
  <2>3. CASE pc \notin Ruht
    BY <2>1, <2>3, StummBloecke DEF Ruht
  <2> QED BY <2>2, <2>3
<1>12. CASE UNCHANGED vars
  BY <1>12 DEF vars, belegt, auftrag, Bloecke!bvars
<1> QED BY <1>1, <1>2, <1>3, <1>4, <1>5, <1>6, <1>7, <1>8, <1>9, <1>10, <1>11, <1>12
        DEF Next, Auftrag, eds_format, eds_alloc, eds_free, eds_defragment

LEMMA InitBloecke == Init => Bloecke!Init
<1> SUFFICES ASSUME Init PROVE Bloecke!Init
  OBVIOUS
<1>1. Belegte = {}
  BY DEF Init, Belegte
<1>2. belegt = [b \in {} |-> 0]
  BY <1>1, BelegtBlock
<1>3. auftrag = Bloecke!Keiner
  BY AuftragWert DEF Init, Ruht
<1> QED BY <1>2, <1>3 DEF Bloecke!Init

(* The store implements EdsBloecke for every EEPROM size: blocks never     *)
(* share a byte, a request changes only what it asks for, and a power      *)
(* failure between any two EEPROM writes outside eds_format leaves it done *)
(* completely or not at all (eds.c:70-158).                                *)
THEOREM StoreHaeltBloecke == Spec => HaeltBloecke
<1>1. Init => IInv /\ Freiheit /\ Bloecke!Init
  BY InitIInv, InitFreiheit, InitBloecke
<1>2. IInv /\ Freiheit /\ [Next]_vars
        => IInv' /\ Freiheit' /\ [Bloecke!Next]_(Bloecke!bvars)
  BY NextIInv, NextFreiheit, NextBloecke
<1> QED BY <1>1, <1>2, PTL DEF Spec, HaeltBloecke, Bloecke!Spec

-----------------------------------------------------------------------------
(***************************************************************************)
(* The store together with devices_load_config, which walks over it at     *)
(* boot and on CONFIG_RELOAD.                                              *)
(***************************************************************************)

(* The walk stands on a block or behind the last one, and every block of a *)
(* known type behind it has its device.                                    *)
Lade == pc = "load" =>
          /\ p \in kette \cup {Nichts}
          /\ \A b \in Geraete : b < p => b \in pdevice_data

(* Below the end of the EEPROM an address is the cell itself.              *)
LEMMA ZelleSelbst == ASSUME NEW a \in Nat, a <= EdsEnd PROVE Zelle(a) = mem[a]
<1>1. a % (EdsEnd + 1) = a
  BY EdsAssumption
<1> QED BY <1>1 DEF Zelle

(* The steps of a load: the store does not change.                         *)
LadeSchritt == /\ UNCHANGED edsvars
               /\ \/ pc = "idle" /\ pc' = "load" /\ p' = DataStart
                  \/ pc = "load" /\ pc' = "load" /\ p < EdsEnd /\ p' = next_block(p)
                  \/ pc = "load" /\ pc' = "idle" /\ p' = 0

LEMMA KNextZerlegt ==
  [KNext]_kvars => LadeSchritt \/ ([Next]_vars /\ (pc' = "load" => UNCHANGED kvars))
<1> SUFFICES ASSUME [KNext]_kvars
             PROVE  LadeSchritt \/ ([Next]_vars /\ (pc' = "load" => UNCHANGED kvars))
  OBVIOUS
<1>1. CASE lade_anfang
  BY <1>1 DEF lade_anfang, LadeSchritt
<1>2. CASE devices_load_config
  BY <1>2 DEF devices_load_config, lade_unbekannt, lade_geraet, lade_fehler, lade_weiter,
     LadeSchritt
<1>3. CASE Anfragen
  <2>1. Auftrag
    BY <1>3 DEF Anfragen
  <2>2. pc' # "load"
    BY <2>1 DEF Auftrag, EDS_FORMAT, ALLOCATE_BLOCK, FREE_BLOCK, DEFRAGMENT, Beginne,
       set_field, WRITE_TO_BLOCK
  <2> QED BY <2>1, <2>2 DEF Next
<1>4. CASE EdsSchritt
  <2>1. eds_init \/ eds_format \/ eds_alloc \/ set_type \/ eds_free \/ eds_defragment
    BY <1>4 DEF EdsSchritt
  <2>2. pc' # "load"
    BY <2>1 DEF eds_init, eds_format, eds_alloc, set_type, eds_free, eds_defragment,
       format_magic1, format_magic2, format_type, format_size, format_ende, alloc_weiter,
       alloc_genau, alloc_teilen, alloc_rest, alloc_kuerzen, alloc_nichts, free_weiter,
       free_treffer, free_nichts, defrag_vereinen, defrag_weiter, defrag_ende, Fertig
  <2> QED BY <2>1, <2>2 DEF Next
<1>5. CASE KCrash
  BY <1>5 DEF KCrash, Crash, Neustart, Next
<1>6. CASE UNCHANGED kvars
  BY <1>6 DEF kvars, vars
<1> QED BY <1>1, <1>2, <1>3, <1>4, <1>5, <1>6 DEF KNext, CONFIG_RELOAD

(* A walk over the chain meets every block.                                *)
LEMMA NaechsterBlock ==
  ASSUME IInv, pc = "load", p \in kette, NEW b \in kette, b < next_block(p)
  PROVE  next_block(p) \in kette \cup {Nichts} /\ (b < p \/ b = p)
<1>1. Verkettet
  BY DEF IInv, Ordnung, KetteHeil, formatierend
<1>2. next_block(p) \in kette \cup {Nichts} /\ p \in Nat /\ b \in Nat
  BY <1>1, KetteGetrennt DEF IInv
<1>3. p < b => next_block(p) <= b
  BY <1>1 DEF Verkettet, KetteAus
<1>4. next_block(p) \in Nat
  <2>1. p \in Nat /\ mem[p + 1] \in Nat
    BY <1>1, KetteGetrennt DEF IInv, Bytes
  <2> QED BY <2>1 DEF next_block, BLOCK_SIZE
<1> QED BY <1>2, <1>3, <1>4

LEMMA LadeIInv ==
  ASSUME IInv, Freiheit, Lade, LadeSchritt PROVE IInv' /\ Freiheit'
<1> USE EdsAssumption
<1>t. TypeOK /\ Ordnung
  BY DEF IInv
<1>1. formatiert /\ Verkettet
  BY <1>t DEF Ordnung, KetteHeil, LadeSchritt, formatierend
<1>2. UNCHANGED <<mem, last_free, req, kette>> /\ pc' \in {"idle", "load"}
  BY DEF LadeSchritt, edsvars
<1>3. p' \in 0..Nichts
  <2>1. CASE p' = 0 \/ p' = DataStart
    BY <2>1 DEF DataStart, Nichts
  <2>2. CASE pc = "load" /\ p < EdsEnd /\ p' = next_block(p)
    <3>1. p \in kette
      BY <2>2 DEF Lade, Nichts
    <3>2. p' \in kette \cup {Nichts}
      BY <1>t, <1>1, <2>2, <3>1, KetteGetrennt
    <3> QED BY <1>t, <3>2 DEF TypeOK, DataStart, Nichts
  <2> QED BY <2>1, <2>2 DEF LadeSchritt
<1>4. TypeOK'
  BY <1>t, <1>2, <1>3 DEF TypeOK, Schritte
<1>5. Ordnung'
  BY <1>1, <1>2 DEF Ordnung, KetteHeil, formatiert, Verkettet, KetteAus, next_block, BLOCK_SIZE
<1> QED BY <1>2, <1>4, <1>5 DEF IInv, Zeiger, Wachsend, Freiheit

LEMMA LadeHaelt ==
  ASSUME IInv, Lade, [KNext]_kvars PROVE Lade'
<1> USE EdsAssumption
<1>t. TypeOK /\ Ordnung
  BY DEF IInv
<1>1. CASE lade_anfang
  <2>1. Verkettet /\ p' = DataStart /\ kette' = kette /\ mem' = mem
    BY <1>t, <1>1 DEF lade_anfang, edsvars, Ordnung, KetteHeil, formatierend
  <2>2. DataStart \in kette
    BY <2>1 DEF Verkettet, KetteAus
  <2>3. \A b \in kette : ~(b < DataStart)
    BY <1>t DEF TypeOK, DataStart
  <2> QED BY <2>1, <2>2, <2>3 DEF Lade, Geraete
<1>2. CASE lade_unbekannt \/ lade_geraet
  <2> SUFFICES ASSUME pc' = "load" PROVE Lade'
    BY DEF Lade
  <2>1. /\ pc = "load" /\ p < EdsEnd /\ p' = next_block(p) /\ UNCHANGED <<mem, kette>>
        /\ pdevice_data \subseteq pdevice_data'
        /\ TypAn(p) \in Bekannt => p \in pdevice_data'
    BY <1>2 DEF lade_unbekannt, lade_geraet, lade_weiter, edsvars, devvars
  <2>2. p \in kette
    BY <2>1 DEF Lade, Nichts
  <2>3. p \in Nat /\ next_block(p) \in kette \cup {Nichts}
    BY <1>t, <2>1, <2>2, KetteGetrennt DEF Ordnung, KetteHeil, formatierend
  <2>4. BLOCK_TYPE(p) \in Bekannt => p \in pdevice_data'
    BY <2>1, <2>3, ZelleSelbst DEF TypAn, BLOCK_TYPE
  <2>5. \A b \in Geraete : b < next_block(p) => b \in pdevice_data'
    <3> SUFFICES ASSUME NEW b \in Geraete, b < next_block(p) PROVE b \in pdevice_data'
      OBVIOUS
    <3>1. b \in kette
      BY DEF Geraete
    <3>2. b < p \/ b = p
      BY <2>1, <2>2, <3>1, NaechsterBlock
    <3> QED BY <2>1, <2>4, <3>2 DEF Lade, Geraete
  <2>6. Geraete' = Geraete
    BY <2>1 DEF Geraete, BLOCK_TYPE
  <2> QED BY <2>1, <2>3, <2>5, <2>6 DEF Lade
<1>3. CASE lade_fehler
  BY <1>3 DEF lade_fehler, Lade
<1>4. CASE UNCHANGED kvars
  BY <1>4 DEF kvars, Lade, Geraete, BLOCK_TYPE
<1>5. CASE Anfragen \/ EdsSchritt \/ KCrash
  <2>1. ~LadeSchritt \/ pc' # "load"
    <3>1. CASE Anfragen
      BY <3>1 DEF Anfragen, Auftrag, EDS_FORMAT, ALLOCATE_BLOCK, FREE_BLOCK, DEFRAGMENT,
         Beginne, set_field, WRITE_TO_BLOCK
    <3>2. CASE EdsSchritt
      BY <3>2 DEF EdsSchritt, eds_init, eds_format, eds_alloc, set_type, eds_free,
         eds_defragment, format_magic1, format_magic2, format_type, format_size, format_ende,
         alloc_weiter, alloc_genau, alloc_teilen, alloc_rest, alloc_kuerzen, alloc_nichts,
         free_weiter, free_treffer, free_nichts, defrag_vereinen, defrag_weiter, defrag_ende,
         Fertig
    <3>3. CASE KCrash
      BY <3>3 DEF KCrash, Crash, Neustart
    <3> QED BY <1>5, <3>1, <3>2, <3>3
  <2> QED BY <1>4, <2>1, KNextZerlegt DEF Lade
<1> QED BY <1>1, <1>2, <1>3, <1>4, <1>5 DEF KNext, CONFIG_RELOAD, devices_load_config

LEMMA KInvariant ==
  /\ KInit => IInv /\ Freiheit /\ Lade
  /\ IInv /\ Freiheit /\ Lade /\ [KNext]_kvars => IInv' /\ Freiheit' /\ Lade'
<1>1. KInit => IInv /\ Freiheit /\ Lade
  BY InitIInv, InitFreiheit DEF KInit, Init, Lade
<1>2. ASSUME IInv, Freiheit, Lade, [KNext]_kvars PROVE IInv' /\ Freiheit' /\ Lade'
  <2>1. CASE LadeSchritt
    BY <1>2, <2>1, LadeIInv, LadeHaelt
  <2>2. CASE [Next]_vars
    BY <1>2, <2>2, NextIInv, NextFreiheit, LadeHaelt
  <2> QED BY <1>2, <2>1, <2>2, KNextZerlegt
<1> QED BY <1>1, <1>2

(* With the loader walking over it, the store keeps its types, its chain   *)
(* and its promise to the clients (devices.c:49, 182-205 on eds.c).        *)
THEOREM StoreUnterLast == KSpec => []TypeOK /\ []KetteHeil /\ HaeltBloecke
<1>1. IInv => TypeOK /\ KetteHeil
  BY DEF IInv, Ordnung
<1>2. IInv /\ Freiheit /\ Lade /\ [KNext]_kvars => [Bloecke!Next]_(Bloecke!bvars)
  <2> SUFFICES ASSUME IInv, Freiheit, Lade, [KNext]_kvars
               PROVE  [Bloecke!Next]_(Bloecke!bvars)
    OBVIOUS
  <2>1. CASE LadeSchritt
    <3>1. belegt' = belegt
      BY <2>1, Ruhend DEF LadeSchritt, edsvars
    <3>2. pc \in Ruht /\ pc' \in Ruht
      BY <2>1 DEF LadeSchritt, Ruht
    <3> QED BY <3>1, <3>2, AuftragWert, AuftragWertPrime DEF Bloecke!bvars
  <2>2. CASE [Next]_vars
    BY <2>2, NextIInv, NextFreiheit, NextBloecke
  <2> QED BY <2>1, <2>2, KNextZerlegt
<1>3. KInit => Bloecke!Init
  BY InitBloecke DEF KInit
<1> QED BY <1>1, <1>2, <1>3, KInvariant, PTL DEF KSpec, HaeltBloecke, Bloecke!Spec

(* A load that ends without an error has found every block of a known      *)
(* type, whatever requests and power failures came before it.              *)
THEOREM LadenVollstaendig == KSpec => LaedtAlle
<1> DEFINE A == pc = "load" /\ pc' = "idle" /\ ~compat_error'
                  => Geraete \subseteq pdevice_data'
<1>1. IInv /\ Lade /\ [KNext]_kvars => [A]_kvars
  <2> SUFFICES ASSUME IInv, Lade, KNext, pc = "load", pc' = "idle", ~compat_error'
               PROVE  Geraete \subseteq pdevice_data'
    OBVIOUS
  <2>1. lade_unbekannt \/ lade_geraet
    <3>1. ~lade_anfang /\ ~lade_fehler /\ ~KCrash
      BY DEF lade_anfang, lade_fehler, KCrash, Crash, Neustart
    <3>2. ~Anfragen
      BY DEF Anfragen, Auftrag, EDS_FORMAT, ALLOCATE_BLOCK, FREE_BLOCK, DEFRAGMENT,
         Beginne, set_field, WRITE_TO_BLOCK
    <3>3. ~EdsSchritt
      BY DEF EdsSchritt, eds_init, eds_format, eds_alloc, set_type, eds_free,
         eds_defragment, format_magic1, format_magic2, format_type, format_size, format_ende,
         alloc_weiter, alloc_genau, alloc_teilen, alloc_rest, alloc_kuerzen, alloc_nichts,
         free_weiter, free_treffer, free_nichts, defrag_vereinen, defrag_weiter, defrag_ende
    <3> QED BY <3>1, <3>2, <3>3 DEF KNext, CONFIG_RELOAD, devices_load_config
  <2>2. ~(p < EdsEnd) /\ pdevice_data \subseteq pdevice_data'
    BY <2>1 DEF lade_unbekannt, lade_geraet, lade_weiter, devvars
  <2>3. \A b \in kette : b < EdsEnd /\ b \in Int
    BY EdsAssumption DEF IInv, TypeOK, DataStart
  <2>4. p = Nichts
    BY <2>2, <2>3 DEF Lade
  <2>5. \A b \in Geraete : b < Nichts
    BY <2>3, EdsAssumption DEF Geraete, Nichts
  <2> QED BY <2>2, <2>4, <2>5 DEF Lade
<1> QED BY <1>1, KInvariant, PTL DEF KSpec, LaedtAlle
=============================================================================
