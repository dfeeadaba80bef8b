---------------------------- MODULE MCRingBuffer ----------------------------
(***************************************************************************)
(* An instance of RingBuffer for TLC: a buffer that was asked for with a   *)
(* size that is no power of two.                                           *)
(***************************************************************************)
EXTENDS RingBuffer

MCSize == Rounded(3)
=============================================================================
