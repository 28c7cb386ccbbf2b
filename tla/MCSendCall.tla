----------------------------- MODULE MCSendCall -----------------------------
(***************************************************************************)
(* A small instance of SendCall: two callers, a buffer of four bytes that  *)
(* is compacted from three on, and calls that are empty, fit often, fit    *)
(* only after a compaction, or are longer than what one frees for sure.    *)
(***************************************************************************)
EXTENDS SendCall
=============================================================================
