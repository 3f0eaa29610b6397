--------------------------- MODULE MCCaptureFile ---------------------------
(***************************************************************************)
(* Small instances of CaptureFile for TLC: ten units to the second, four   *)
(* ticks to the unit.  39 ticks round up to a full second, 22 are a tie.    *)
(***************************************************************************)
EXTENDS CaptureFile
============================================================================
