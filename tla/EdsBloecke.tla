----------------------------- MODULE EdsBloecke -----------------------------
(***************************************************************************)
(* What the EEPROM data store (EDS) promises its clients: a set of         *)
(* allocated blocks, each with a type and its bytes, of which only the     *)
(* request at hand changes anything, and only what was asked for.  Blocks  *)
(* never share a byte.  A power failure ends a request; at any moment the  *)
(* request has happened completely or not at all.                          *)
(***************************************************************************)
EXTENDS Integers

CONSTANTS Anfang,   \* first address of the block area
          Ende,     \* first address behind it
          Bytes     \* values of an EEPROM byte

VARIABLES belegt,   \* block address |-> [typ, size, inhalt]
          auftrag   \* the request at hand

bvars == <<belegt, auftrag>>

Auftraege == [op : {"alloc"}, type : Bytes, size : Bytes]
             \cup [op : {"free"}, block : 0..Ende]
             \cup [op : {"defrag", "format"}]
Keiner == [op |-> "keiner"]

(* The addresses of block b of s, its two header bytes included.           *)
Bereich(s, b) == b..(b + 1 + s[b].size)

Init == belegt = [b \in {} |-> 0] /\ auftrag = Keiner

Frage == /\ auftrag = Keiner
         /\ auftrag' \in Auftraege
         /\ UNCHANGED belegt

(* A block of the type and size asked for appears where nothing is         *)
(* allocated; its bytes are not initialised.                               *)
Allocate == /\ auftrag.op = "alloc"
            /\ \E b \in DOMAIN belegt' \ DOMAIN belegt :
                 /\ DOMAIN belegt' = DOMAIN belegt \cup {b}
                 /\ belegt'[b].typ = auftrag.type
                 /\ belegt'[b].size = auftrag.size
                 /\ b >= Anfang /\ b + 2 + belegt'[b].size <= Ende
                 /\ \A a \in DOMAIN belegt :
                      /\ belegt'[a] = belegt[a]
                      /\ Bereich(belegt, a) \cap Bereich(belegt', b) = {}
            /\ auftrag' = Keiner

Free == /\ auftrag.op = "free"
        /\ belegt' = [a \in DOMAIN belegt \ {auftrag.block} |-> belegt[a]]
        /\ auftrag' = Keiner

Write == /\ auftrag = Keiner
         /\ \E b \in DOMAIN belegt : \E i \in DOMAIN belegt[b].inhalt, v \in Bytes :
              belegt' = [belegt EXCEPT ![b].inhalt[i] = v]
         /\ UNCHANGED auftrag

Format == /\ auftrag.op = "format"
          /\ belegt' = [b \in {} |-> 0]
          /\ UNCHANGED auftrag

(* The request ends without a further effect: nothing to do, no space, a   *)
(* power failure.                                                          *)
Abschluss == /\ auftrag # Keiner
             /\ auftrag' = Keiner
             /\ UNCHANGED belegt

Next == Frage \/ Allocate \/ Free \/ Write \/ Format \/ Abschluss

Spec == Init /\ [][Next]_bvars
=============================================================================
