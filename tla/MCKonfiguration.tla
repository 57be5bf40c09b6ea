--------------------------- MODULE MCKonfiguration ---------------------------
(***************************************************************************)
(* A small EEPROM for TLC, formatted as two blocks of different size whose *)
(* union exceeds the merge limit, and requests that fit exactly, with a    *)
(* rest, with an empty rest and not at all; blocks of the size the device  *)
(* expects and of another one.                                             *)
(***************************************************************************)
EXTENDS Konfiguration

MCTypen == {1}
MCBekannt == {1}
MCGroessen == {1, 4}
MCConfigSize == [t \in MCTypen |-> 1]
MCWerte == {1}
==============================================================================
