----------------------------- MODULE MCReceiver -----------------------------
(***************************************************************************)
(* A small instance of Receiver: segments of one or two bytes, five window *)
(* slots over a receive buffer of four bytes, so that a contiguous head of *)
(* the window may not fit, two readers and a stream of eight bytes, which  *)
(* turns over window and buffer.                                           *)
(***************************************************************************)
EXTENDS Receiver
=============================================================================
