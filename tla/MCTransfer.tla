----------------------------- MODULE MCTransfer -----------------------------
(***************************************************************************)
(* One byte a segment and three bytes of stream, so that the sender's      *)
(* buffer of two is filled, acknowledged and compacted, and the receive    *)
(* window of three wraps round; one message is lost or duplicated, or one  *)
(* timeout premature.                                                      *)
(***************************************************************************)
EXTENDS Transfer
=============================================================================
