---------------------------- MODULE MCFrontEnd ----------------------------
(***************************************************************************)
(* FrontEnd on small windows.  FrameSize = 5 and FrameShift = 2 keep what  *)
(* the 410 and 160 of a 16 kHz model have: windows that overlap more than  *)
(* once, and a size that is no multiple of the shift.                      *)
(***************************************************************************)
EXTENDS FrontEnd
============================================================================
