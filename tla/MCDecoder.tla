----------------------------- MODULE MCDecoder -----------------------------
(***************************************************************************)
(* Decoder on small rings: windows of 5 samples every 2, features of three *)
(* cepstra, a lookahead of 2.  mfc_buf has 3 rows and feat_buf 5, so that  *)
(* both rings wrap more than once in an utterance of 9 cepstra; FirstGrow  *)
(* = 8 is the 128 of the library, larger than feat_buf and within reach of *)
(* doubling.                                                               *)
(***************************************************************************)
EXTENDS Decoder
============================================================================
