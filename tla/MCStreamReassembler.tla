------------------------ MODULE MCStreamReassembler ------------------------
(***************************************************************************)
(* Small instances of StreamReassembler for TLC.                           *)
(***************************************************************************)
EXTENDS StreamReassembler

MCZero == <<0, 0, 0>>

(* One connection captured in both directions; one more, of which only one *)
(* direction is captured; and a third one.                                 *)
OneConn    == {<<1, 2>>, <<2, 1>>}
TwoConns   == OneConn \cup {<<1, 3>>}
ThreeConns == TwoConns \cup {<<3, 2>>}
============================================================================
