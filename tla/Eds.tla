-------------------------------- MODULE Eds --------------------------------
(***************************************************************************)
(* The EEPROM data store of a board (canix/eds.c): a chain of blocks, each *)
(* a type byte, a size byte and its data, from EDS_DATA_START to the end   *)
(* of the EEPROM.  Type 0 marks a free block.  The walks over the chain    *)
(* go block by block and every EEPROM byte is written by a step of its     *)
(* own, so that a power failure (Crash) can fall between any two of them;  *)
(* the write of one byte is taken as atomic.                               *)
(***************************************************************************)
EXTENDS Integers

CONSTANTS EdsStart,    \* EDS_START, the address of the two magic bytes
          EdsEnd,      \* EDS_END, the last address of the EEPROM
          FormatMax,   \* 128: largest block eds_format makes
          ByteMax,     \* 255: largest value of a byte, and of an erased one
          Magic1, Magic2,
          Typen,       \* block types clients ask for
          Groessen,    \* block sizes clients ask for
          Werte        \* data bytes clients write

DataStart == EdsStart + 2
Nichts == EdsEnd + 1     \* the address behind the last block
Bytes == 0..ByteMax
Adressen == 0..EdsEnd

(* Where eds_format puts its full-sized blocks.                            *)
Raster == {DataStart + k * (FormatMax + 2) : k \in 0..EdsEnd}

(* The last condition holds for the two EEPROM sizes of the boards (1023   *)
(* and 2047 with 128): the loop of eds_format leaves no remainder too      *)
(* small for a block.                                                      *)
ASSUME EdsAssumption ==
  /\ EdsStart \in Nat /\ EdsStart > 0
  /\ EdsEnd \in Nat /\ EdsEnd > DataStart
  /\ FormatMax \in Nat \ {0} /\ ByteMax \in Nat /\ FormatMax < ByteMax
  /\ Magic1 \in Bytes \ {ByteMax} /\ Magic2 \in Bytes \ {ByteMax}
  /\ Typen \subseteq Bytes /\ Groessen \subseteq Bytes /\ Werte \subseteq Bytes
  /\ Raster \cap ((EdsEnd - 2)..EdsEnd) = {}

VARIABLES mem,        \* the EEPROM
          pc,         \* what the store is doing
          p,          \* its block pointer
          last_free,  \* the local of eds_defragment
          req,        \* the request: type and size, or the block to free
          kette       \* observer: the addresses of the blocks

vars == <<mem, pc, p, last_free, req, kette>>

BLOCK_TYPE(a) == mem[a]
BLOCK_SIZE(a) == mem[a + 1]
next_block(a) == a + 2 + BLOCK_SIZE(a)
Anfrage(t, n, b) == [type |-> t, size |-> n, block |-> b]
KeinAuftrag == Anfrage(0, 0, 0)

(* A blank EEPROM, at power-up.                                            *)
Init == /\ mem = [a \in Adressen |-> ByteMax]
        /\ pc = "init"
        /\ p = 0
        /\ last_free = 0
        /\ req = KeinAuftrag
        /\ kette = {}

Beginne(op, r) == /\ pc = "idle"
                  /\ pc' = op
                  /\ p' = DataStart
                  /\ last_free' = 0
                  /\ req' = r
                  /\ UNCHANGED <<mem, kette>>

Schreibe(a, v) == mem' = [mem EXCEPT ![a] = v]

Fertig == pc' = "idle" /\ p' = 0 /\ last_free' = 0 /\ req' = KeinAuftrag

-----------------------------------------------------------------------------
(* eds_init and eds_format.  The magic bytes come first.                   *)

formatiert == mem[EdsStart] = Magic1 /\ mem[EdsStart + 1] = Magic2

eds_init == /\ pc = "init"
            /\ pc' = IF formatiert THEN "idle" ELSE "format"
            /\ UNCHANGED <<mem, p, last_free, req, kette>>

EDS_FORMAT == /\ pc = "idle"
              /\ pc' = "format"
              /\ UNCHANGED <<mem, p, last_free, req, kette>>

format_magic1 == /\ pc = "format"
                 /\ Schreibe(EdsStart, Magic1)
                 /\ pc' = "format_magic2"
                 /\ kette' = {}
                 /\ UNCHANGED <<p, last_free, req>>

format_magic2 == /\ pc = "format_magic2"
                 /\ Schreibe(EdsStart + 1, Magic2)
                 /\ pc' = "format_type"
                 /\ p' = DataStart
                 /\ UNCHANGED <<last_free, req, kette>>

format_type == /\ pc = "format_type"
               /\ p < EdsEnd - 2
               /\ Schreibe(p, 0)
               /\ pc' = "format_size"
               /\ UNCHANGED <<p, last_free, req, kette>>

(* The pointer already stands on the size byte when the rest is measured.  *)
format_size == /\ pc = "format_size"
               /\ LET rest == EdsEnd - (p + 1)
                      size == IF rest > FormatMax THEN FormatMax ELSE rest
                  IN  /\ Schreibe(p + 1, size)
                      /\ p' = p + 2 + size
               /\ kette' = kette \cup {p}
               /\ pc' = "format_type"
               /\ UNCHANGED <<last_free, req>>

format_ende == /\ pc = "format_type"
               /\ p >= EdsEnd - 2
               /\ Fertig
               /\ UNCHANGED <<mem, kette>>

eds_format == \/ format_magic1 \/ format_magic2 \/ format_type
              \/ format_size \/ format_ende

-----------------------------------------------------------------------------
(* eds_alloc and the frame handler that sets the type afterwards.          *)

ALLOCATE_BLOCK(t, n) == Beginne("alloc", Anfrage(t, n, 0))

passt_genau == BLOCK_TYPE(p) = 0 /\ BLOCK_SIZE(p) = req.size
passt_mit_rest == BLOCK_TYPE(p) = 0 /\ BLOCK_SIZE(p) >= req.size + 2

alloc_weiter == /\ pc = "alloc"
                /\ p < EdsEnd
                /\ ~passt_genau /\ ~passt_mit_rest
                /\ p' = next_block(p)
                /\ UNCHANGED <<mem, pc, last_free, req, kette>>

alloc_genau == /\ pc = "alloc"
               /\ p < EdsEnd
               /\ passt_genau
               /\ pc' = "set_type"
               /\ UNCHANGED <<mem, p, last_free, req, kette>>

(* The block is split: first the header of the rest, then the own size.    *)
alloc_teilen == /\ pc = "alloc"
                /\ p < EdsEnd
                /\ passt_mit_rest
                /\ Schreibe(p + 2 + req.size, 0)
                /\ pc' = "alloc_rest"
                /\ UNCHANGED <<p, last_free, req, kette>>

(* Mutant: the block gives its two header bytes away with the rest.        *)
Mut_alloc_rest == /\ pc = "alloc_rest"
                  /\ Schreibe(p + 2 + req.size + 1, BLOCK_SIZE(p) - req.size)
                  /\ pc' = "alloc_kuerzen"
                  /\ UNCHANGED <<p, last_free, req, kette>>

alloc_rest == /\ pc = "alloc_rest"
              /\ Schreibe(p + 2 + req.size + 1, BLOCK_SIZE(p) - req.size - 2)
              /\ pc' = "alloc_kuerzen"
              /\ UNCHANGED <<p, last_free, req, kette>>

alloc_kuerzen == /\ pc = "alloc_kuerzen"
                 /\ Schreibe(p + 1, req.size)
                 /\ kette' = kette \cup {p + 2 + req.size}
                 /\ pc' = "set_type"
                 /\ UNCHANGED <<p, last_free, req>>

(* eds_alloc found nothing and returned 0; the handler does not look.      *)
alloc_nichts == /\ pc = "alloc"
                /\ p >= EdsEnd
                /\ p' = 0
                /\ pc' = "set_type"
                /\ UNCHANGED <<mem, last_free, req, kette>>

set_type == /\ pc = "set_type"
            /\ Schreibe(p, req.type)
            /\ Fertig
            /\ UNCHANGED kette

eds_alloc == \/ alloc_weiter \/ alloc_genau \/ alloc_teilen
             \/ alloc_rest \/ alloc_kuerzen \/ alloc_nichts

-----------------------------------------------------------------------------
(* eds_free: any address may be asked for.                                 *)

FREE_BLOCK(b) == Beginne("free", Anfrage(0, 0, b))

free_weiter == /\ pc = "free"
               /\ p < EdsEnd
               /\ p # req.block
               /\ p' = next_block(p)
               /\ UNCHANGED <<mem, pc, last_free, req, kette>>

free_treffer == /\ pc = "free"
                /\ p < EdsEnd
                /\ p = req.block
                /\ Schreibe(p, 0)
                /\ Fertig
                /\ UNCHANGED kette

free_nichts == /\ pc = "free"
               /\ p >= EdsEnd
               /\ Fertig
               /\ UNCHANGED <<mem, kette>>

eds_free == free_weiter \/ free_treffer \/ free_nichts

-----------------------------------------------------------------------------
(* eds_defragment: a free block swallows the free block behind it.         *)

DEFRAGMENT == Beginne("defrag", KeinAuftrag)

(* Mutants: merging without the limit of a size byte, and merging into the *)
(* last block whether or not the one behind it is free.                    *)
Mut_vereinbar_gross == last_free # 0 /\ BLOCK_TYPE(p) = 0

Mut_vereinbar_belegt ==
  last_free # 0 /\ BLOCK_SIZE(last_free) + 2 + BLOCK_SIZE(p) <= ByteMax

vereinbar == /\ last_free # 0
             /\ BLOCK_TYPE(p) = 0
             /\ BLOCK_SIZE(last_free) + 2 + BLOCK_SIZE(p) <= ByteMax

defrag_vereinen ==
  /\ pc = "defrag"
  /\ p < EdsEnd
  /\ vereinbar
  /\ Schreibe(last_free + 1, BLOCK_SIZE(last_free) + 2 + BLOCK_SIZE(p))
  /\ p' = next_block(p)
  /\ kette' = kette \ {p}
  /\ UNCHANGED <<pc, last_free, req>>

(* Mutant: only the branch of a free block goes on to the next one.        *)
Mut_defrag_weiter ==
  /\ pc = "defrag"
  /\ p < EdsEnd
  /\ ~vereinbar
  /\ last_free' = IF BLOCK_TYPE(p) = 0 THEN p ELSE 0
  /\ p' = IF BLOCK_TYPE(p) = 0 THEN next_block(p) ELSE p
  /\ UNCHANGED <<mem, pc, req, kette>>

defrag_weiter ==
  /\ pc = "defrag"
  /\ p < EdsEnd
  /\ ~vereinbar
  /\ last_free' = IF BLOCK_TYPE(p) = 0 THEN p ELSE 0
  /\ p' = next_block(p)
  /\ UNCHANGED <<mem, pc, req, kette>>

defrag_ende == /\ pc = "defrag"
               /\ p >= EdsEnd
               /\ Fertig
               /\ UNCHANGED <<mem, kette>>

eds_defragment == defrag_vereinen \/ defrag_weiter \/ defrag_ende

-----------------------------------------------------------------------------
(* The handler writes wherever it is told to; clients address the data     *)
(* bytes of an allocated block, behind its header.                         *)
WRITE_TO_BLOCK(h1, index, v) == /\ pc = "idle"
                                /\ Schreibe(h1 + index, v)
                                /\ UNCHANGED <<pc, p, last_free, req, kette>>

set_field == \E h1 \in kette, i \in Bytes, v \in Werte :
  /\ BLOCK_TYPE(h1) # 0
  /\ i < BLOCK_SIZE(h1)
  /\ WRITE_TO_BLOCK(h1, i + 2, v)

(* Power fails between two steps; the board boots again.                   *)
formatierend == {"format", "format_magic2", "format_type", "format_size"}

Neustart == /\ pc' = "init"
            /\ p' = 0
            /\ last_free' = 0
            /\ req' = KeinAuftrag
            /\ UNCHANGED <<mem, kette>>

Crash == pc \notin formatierend \cup {"init"} /\ Neustart
CrashBeimFormatieren == pc \in formatierend /\ Neustart

Auftrag == \/ EDS_FORMAT
           \/ \E t \in Typen, n \in Groessen : ALLOCATE_BLOCK(t, n)
           \/ \E b \in Adressen : FREE_BLOCK(b)
           \/ DEFRAGMENT
           \/ set_field

Next == \/ Auftrag \/ eds_init \/ eds_format \/ eds_alloc \/ set_type
        \/ eds_free \/ eds_defragment \/ Crash

Spec == Init /\ [][Next]_vars

FairSpec == Spec /\ WF_vars(eds_init \/ eds_format \/ eds_alloc \/ set_type
                            \/ eds_free \/ eds_defragment)

(* The same with power failures inside eds_format.                         *)
SpecCrash == Init /\ [][Next \/ CrashBeimFormatieren]_vars

-----------------------------------------------------------------------------
(***************************************************************************)
(* Properties                                                              *)
(***************************************************************************)
Schritte == {"init", "idle", "format", "format_magic2", "format_type",
             "format_size", "alloc", "alloc_rest", "alloc_kuerzen", "set_type",
             "free", "defrag", "load"}

(* Bytes stay bytes: no size written by splitting or merging leaves the    *)
(* range of the uint8_t it is stored in (eds.c:93, 145-147).               *)
TypeOK == /\ mem \in [Adressen -> Bytes]
          /\ pc \in Schritte
          /\ p \in 0..Nichts
          /\ last_free \in 0..EdsEnd
          /\ req \in [type : Bytes, size : Bytes, block : Adressen]
          /\ kette \subseteq DataStart..(EdsEnd - 1)

(* The chain from any block leads over blocks, without overlap, exactly to *)
(* the end of the EEPROM, after every byte written and every power failure *)
(* outside eds_format.                                                     *)
KetteAus(K) == /\ DataStart \in K
               /\ \A b \in K : next_block(b) \in K \cup {Nichts}
               /\ \A a, b \in K : a < b => next_block(a) <= b
Verkettet == KetteAus(kette)
KetteHeil == pc \notin formatierend /\ formatiert => Verkettet

(* The store implements EdsBloecke: allocated blocks and their bytes only  *)
(* change by the request at hand, a power failure between two EEPROM       *)
(* writes included.                                                        *)
belegt == [b \in {a \in kette : mem[a] # 0} |->
             [typ |-> mem[b], size |-> mem[b + 1],
              inhalt |-> [i \in 0..(mem[b + 1] - 1) |-> mem[b + 2 + i]]]]
auftrag == CASE pc \in {"alloc", "alloc_rest", "alloc_kuerzen", "set_type"} ->
                  [op |-> "alloc", type |-> req.type, size |-> req.size]
             [] pc = "free" -> [op |-> "free", block |-> req.block]
             [] pc = "defrag" -> [op |-> "defrag"]
             [] pc \in formatierend -> [op |-> "format"]
             [] OTHER -> [op |-> "keiner"]
Bloecke == INSTANCE EdsBloecke WITH Anfang <- DataStart, Ende <- Nichts
HaeltBloecke == Bloecke!Spec

(* Every request is answered: no walk runs in a circle or off the chain    *)
(* (the loops at eds.c:81, 110, 133).                                      *)
WirdFertig == (pc # "idle") ~> (pc = "idle")

(* eds.c:62: a store that carries the magic bytes "is formated".           *)
MagicHeisstFormatiert ==
  pc = "idle" => \E K \in SUBSET (DataStart..(EdsEnd - 1)) : KetteAus(K)
=============================================================================
