------------------------- MODULE MCDirectionCapture -------------------------
(* Bounded instances of DirectionCapture for TLC.                          *)
EXTENDS DirectionCapture

MCZero == <<0, 0>>
==============================================================================
