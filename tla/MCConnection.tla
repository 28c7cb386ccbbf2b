---------------------------- MODULE MCConnection ----------------------------
(***************************************************************************)
(* One client and one server.  The three initial sequence numbers are      *)
(* those of global.h, all 0, so the only ACK of data that any handler takes *)
(* for one of its own is the one numbered 1.                               *)
(***************************************************************************)
EXTENDS Connection
=============================================================================
