------------------------- MODULE MCConnectionMerge -------------------------
(***************************************************************************)
(* Small instances of ConnectionMerge for TLC.                             *)
(***************************************************************************)
EXTENDS ConnectionMerge

MCZero == <<0, 0>>
============================================================================
