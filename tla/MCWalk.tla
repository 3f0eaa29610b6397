------------------------------- MODULE MCWalk -------------------------------
(***************************************************************************)
(* Every parser on buffers of a header and a few elements.                  *)
(***************************************************************************)
EXTENDS Walk, LayersWalk, RoutingWalk, WirelessWalk, TelephonyWalk, ServicesWalk, WebWalk, MessagesWalk

MCStep(g) ==
    CASE g.cls \in LayersClasses    -> LayersStep(g)
      [] g.cls \in RoutingClasses   -> RoutingStep(g)
      [] g.cls \in WirelessClasses  -> WirelessStep(g)
      [] g.cls \in TelephonyClasses -> TelephonyStep(g)
      [] g.cls \in ServicesClasses  -> ServicesStep(g)
      [] g.cls \in WebClasses       -> WebStep(g)
      [] g.cls \in MessagesClasses  -> MessagesStep(g)

MCClasses == LayersClasses \cup RoutingClasses \cup WirelessClasses \cup TelephonyClasses \cup ServicesClasses
             \cup WebClasses \cup MessagesClasses
MCPromises == [c \in MCClasses |->
    CASE c \in LayersClasses    -> LayersPromise(c)
      [] c \in RoutingClasses   -> RoutingPromise(c)
      [] c \in WirelessClasses  -> WirelessPromise(c)
      [] c \in TelephonyClasses -> TelephonyPromise(c)
      [] c \in ServicesClasses  -> ServicesPromise(c)
      [] c \in WebClasses       -> WebPromise(c)
      [] c \in MessagesClasses  -> MessagesPromise(c)]
MCPromise(c) == MCPromises[c]

\* How much longer than what a class needs at least its buffers are: room for
\* two or three elements.  Classes that hand their payload to any class get
\* only the sizes where something changes.
MCRoom == [c \in MCClasses |->
    CASE c \in {"Netflow1", "Netflow5", "Netflow6", "Netflow7"} -> 108
      [] c = "RTCP" -> 54
      [] c \in {"SMB2Lock", "SMB2Read", "SMB2SetInfo", "SMB2QueryInfo"} -> 50
      [] c \in {"OSPFv2LSU", "OSPFv3LSU", "Radiotap", "SMB2Write"} -> 46
      [] c \in {"EIGRPMessage", "EIGRPExternalRouteTLV"} -> 44
      [] c \in {"RIP", "IP6RoutingHeader", "TopologyBuild"} -> 40
      [] c \in {"EIGRPInternalRouteTLV", "IEEE80211", "SMB2Ioctl", "SMB2QueryDirectory"} -> 36
      [] c \in {"RouteEVPN", "IEEE80211IEHTCapability", "IEEE80211IEHTInfo"} -> 32
      [] c \in {"DNS", "NS"} -> 28
      [] c \in WirelessClasses -> 22
      [] c = "LSARouterV3" -> 16
      [] OTHER -> 9]
MCSizes == [c \in MCClasses |->
    CASE c = "IP6"      -> {0, 39, 40, 44, 52, 66}
      [] c = "Ethernet" -> {13, 14, 15, 16, 18, 22, 26, 27, 36, 42}
      [] c \in {"LLC", "SLL", "SLL2", "Loopback", "PPP", "PPPoEPPP", "PPPoE", "IP", "AH", "ICMP", "ICMPQuote",
                "ICMP6", "ICMP6Error", "GRE"} -> {MCPromises[c].least + i : i \in {-1, 0, 1, 4, 9}}
      [] c \in QUICFrames -> 1 .. 12
      [] OTHER -> 0 .. (MCPromises[c].least + MCRoom[c])]

\* What the theorems about the routing classes ask of the tables.
ASSUME MCRoutingTable ==
    /\ RoutingClasses \cap LayersClasses = {}
    /\ \A c \in RoutingClasses : MCPromise(c) = RoutingPromise(c) /\ MCSizes[c] \subseteq Nat
=============================================================================
