---------------------------- MODULE MCLiveFeat ----------------------------
(***************************************************************************)
(* LiveFeat on a small live buffer.  With Win = 2 and L = 9 (3 and 256 in  *)
(* the library, 1 << 8) a block of 12 does not fit, one of 7 fits or not   *)
(* with what is pending, and 17 cepstra go around the buffer twice.        *)
(***************************************************************************)
EXTENDS LiveFeat
============================================================================
