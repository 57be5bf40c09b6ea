------------------------------ MODULE MCFlashen ------------------------------
(***************************************************************************)
(* Two pages of two lines of two frames, a file that shares one page with  *)
(* some of the cached files and boards, and two disturbances.            *)
(***************************************************************************)
EXTENDS Flashen

MCVersionen == {1, 2}
MCNeue == {[b \in 0..1 |-> 1]}
==============================================================================
