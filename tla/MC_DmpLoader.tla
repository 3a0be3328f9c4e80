---------------------------- MODULE MC_DmpLoader ----------------------------
(* A 7-byte image in an 8-byte memory of 4-byte banks, copied in 2-byte    *)
(* chunks: the chunk divides the bank as LOAD_CHUNK = 16 divides 256, the  *)
(* image crosses a bank, ends in a short chunk, and leaves one address of  *)
(* memory it must not touch.  Neighbouring image bytes differ, so a byte   *)
(* stored one place off is seen.                                           *)
EXTENDS DmpLoader

MC_Image == [a \in 0..6 |-> 1 + (a % 2)]
=============================================================================
