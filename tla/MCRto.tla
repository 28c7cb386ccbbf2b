------------------------------- MODULE MCRto -------------------------------
(***************************************************************************)
(* A small instance of Rto with the code's own constants: a fast, a slow   *)
(* and the slowest admissible round trip, windows of up to two segments,   *)
(* each sent again up to twice, and three samples: one over two            *)
(* retransmissions is enough to take the interval beyond a second.         *)
(***************************************************************************)
EXTENDS Rto
=============================================================================
