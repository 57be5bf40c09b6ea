---------------------------- MODULE MCCanixSenden ----------------------------
(***************************************************************************)
(* Four frames for three buffers, so that a frame is dropped; three         *)
(* callbacks: one for every frame, one for a group of two, one for none.   *)
(***************************************************************************)
EXTENDS CanixSenden

MCFrames == 1..4
MCdst == [f \in MCFrames |-> IF f < 3 THEN 7 ELSE 8]
MCproto == [f \in MCFrames |-> 1]
MCsrv == [f \in MCFrames |-> IF f = 2 THEN 5 ELSE 4]
MCcb_dst == [i \in 0..2 |-> <<7, -1, 8>>[i + 1]]
MCcb_proto == [i \in 0..2 |-> 1]
MCcb_srv == [i \in 0..2 |-> <<0, 0, 5>>[i + 1]]
==============================================================================
