---------------------------- MODULE MCEndpointer ----------------------------
(***************************************************************************)
(* Endpointer on a window of 4 frames of 2 samples, where speech starts    *)
(* with the third speech frame and ends with fewer than two of them; a     *)
(* stream of 18 samples is nine frames, room for two segments.             *)
(***************************************************************************)
EXTENDS Endpointer
============================================================================
