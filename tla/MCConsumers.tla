---------------------------- MODULE MCConsumers ----------------------------
(***************************************************************************)
(* Small instances of Consumers for TLC.                                   *)
(***************************************************************************)
EXTENDS Consumers

MCZero == <<0, 0, 0>>

(* A client, an ftp, a bgp and a web server that also uses the others.     *)
MCServices == <<"unknown", "ftp", "bgp", "http">>
MCFlows == {<<1, 2>>, <<2, 1>>, <<1, 3>>, <<3, 1>>, <<4, 2>>}
============================================================================
