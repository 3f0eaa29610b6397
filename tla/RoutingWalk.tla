----------------------------- MODULE RoutingWalk -----------------------------
(***************************************************************************)
(* The routing protocols together: which steps belong to which class, and  *)
(* what each class promises to those that use it.                          *)
(***************************************************************************)
EXTENDS BGP, OSPF, Routing

RoutingStep(f) ==
  CASE f.cls = "BGP"                   -> BGP(f)
    [] f.cls = "BGPOpen"               -> BGPOpen(f)
    [] f.cls = "BGPParameter"          -> BGPParameter(f)
    [] f.cls = "BGPAuthentication"     -> BGPAuthentication(f)
    [] f.cls = "BGPCapability"         -> BGPCapability(f)
    [] f.cls = "BGPUpdate"             -> BGPUpdate(f)
    [] f.cls = "BGPAttribute"          -> BGPAttribute(f)
    [] f.cls = "BGPOrigin"             -> BGPOrigin(f)
    [] f.cls = "BGPNextHop"            -> BGPNextHop(f)
    [] f.cls = "BGPMultiExitDisc"      -> BGPMultiExitDisc(f)
    [] f.cls = "BGPLocalPref"          -> BGPLocalPref(f)
    [] f.cls = "BGPAtomicAggregate"    -> BGPAtomicAggregate(f)
    [] f.cls = "BGPAggregator"         -> BGPAggregator(f)
    [] f.cls = "BGPOriginatorID"       -> BGPOriginatorID(f)
    [] f.cls = "BGPASPath"             -> BGPASPath(f)
    [] f.cls = "BGPASPathSegment"      -> BGPASPathSegment(f)
    [] f.cls = "BGPASPathSegment4"     -> BGPASPathSegment4(f)
    [] f.cls = "BGPCommunities"        -> BGPCommunities(f)
    [] f.cls = "BGPCommunity"          -> BGPCommunity(f)
    [] f.cls = "BGPReservedCommunity"  -> BGPReservedCommunity(f)
    [] f.cls = "BGPClusterList"        -> BGPClusterList(f)
    [] f.cls = "BGPMPReachNLRI"        -> BGPMPReachNLRI(f)
    [] f.cls = "BGPSNPA"               -> BGPSNPA(f)
    [] f.cls = "BGPMPUnreachNLRI"      -> BGPMPUnreachNLRI(f)
    [] f.cls = "BGPNotification"       -> BGPNotification(f)
    [] f.cls = "BGPKeepalive"          -> BGPKeepalive(f)
    [] f.cls = "BGPRouteRefresh"       -> BGPRouteRefresh(f)
    [] f.cls = "RouteGeneric"          -> RouteGeneric(f)
    [] f.cls = "RouteIPV4"             -> RouteIPV4(f)
    [] f.cls = "ExtendedRouteIPV4"     -> ExtendedRouteIPV4(f)
    [] f.cls = "RouteIPV6"             -> RouteIPV6(f)
    [] f.cls = "RouteEVPN"             -> RouteEVPN(f)
    [] f.cls = "OSPF"                  -> OSPF(f)
    [] f.cls = "OSPFv2"                -> OSPFv2(f)
    [] f.cls = "OSPFv3"                -> OSPFv3(f)
    [] f.cls = "OSPFv2Hello"           -> OSPFv2Hello(f)
    [] f.cls = "OSPFv3Hello"           -> OSPFv3Hello(f)
    [] f.cls = "OSPFv2DBD"             -> OSPFv2DBD(f)
    [] f.cls = "OSPFv3DBD"             -> OSPFv3DBD(f)
    [] f.cls = "OSPFv2LSR"             -> OSPFv2LSR(f)
    [] f.cls = "OSPFv3LSR"             -> OSPFv3LSR(f)
    [] f.cls = "OSPFv2LSAck"           -> OSPFv2LSAck(f)
    [] f.cls = "OSPFv3LSAck"           -> OSPFv3LSAck(f)
    [] f.cls = "OSPFv2LSU"             -> OSPFv2LSU(f)
    [] f.cls = "OSPFv3LSU"             -> OSPFv3LSU(f)
    [] f.cls = "LSAv2Header"           -> LSAv2Header(f)
    [] f.cls = "LSAv3Header"           -> LSAv3Header(f)
    [] f.cls = "LSARouter"             -> LSARouter(f)
    [] f.cls = "LSANetwork"            -> LSANetwork(f)
    [] f.cls = "LSASummaryIP"          -> LSASummaryIP(f)
    [] f.cls = "LSAASExternal"         -> LSAASExternal(f)
    [] f.cls = "LSARouterV3"           -> LSARouterV3(f)
    [] f.cls = "LSANetworkV3"          -> LSANetworkV3(f)
    [] f.cls = "LSAInterAreaPrefix"    -> LSAInterAreaPrefix(f)
    [] f.cls = "LSAInterAreaRouter"    -> LSAInterAreaRouter(f)
    [] f.cls = "LSAASExternalV3"       -> LSAASExternalV3(f)
    [] f.cls = "LSALink"               -> LSALink(f)
    [] f.cls = "LSAIntraAreaPrefix"    -> LSAIntraAreaPrefix(f)
    [] f.cls = "ISIS"                  -> ISIS(f)
    [] f.cls = "ISISLANHelloL1"        -> ISISLANHelloL1(f)
    [] f.cls = "ISISP2PHello"          -> ISISP2PHello(f)
    [] f.cls = "ISISLSPL1"             -> ISISLSPL1(f)
    [] f.cls = "ISISCSNPL1"            -> ISISCSNPL1(f)
    [] f.cls = "ISISPSNPL1"            -> ISISPSNPL1(f)
    [] f.cls = "ISISTLV"               -> ISISTLV(f)
    [] f.cls = "ISISNeighborsTLV"      -> ISISNeighborsTLV(f)
    [] f.cls = "ISISEISReachTLV"       -> ISISEISReachTLV(f)
    [] f.cls = "ISISIPIntReachTLV"     -> ISISIPIntReachTLV(f)
    [] f.cls = "EIGRP"                 -> EIGRP(f)
    [] f.cls = "EIGRPMessage"          -> EIGRPMessage(f)
    [] f.cls = "EIGRPTLV"              -> EIGRPTLV(f)
    [] f.cls = "EIGRPInternalRouteTLV" -> EIGRPInternalRouteTLV(f)
    [] f.cls = "EIGRPExternalRouteTLV" -> EIGRPExternalRouteTLV(f)
    [] f.cls = "RIP"                   -> RIP(f)
    [] f.cls = "RIPRTE"                -> RIPRTE(f)
    [] f.cls = "RIPAuth"               -> RIPAuth(f)
    [] f.cls = "MRTHeader"             -> MRTHeader(f)
    [] f.cls = "MRTTableDump"          -> MRTTableDump(f)
    [] f.cls = "BGP4MPMessage"         -> BGP4MPMessage(f)
    [] f.cls = "BGP4MPMessage_32"      -> BGP4MPMessage_32(f)
    [] f.cls = "PIM"                   -> PIM(f)
    [] f.cls = "HSRP"                  -> HSRP(f)
    [] f.cls = "VRRP"                  -> VRRP(f)
    [] f.cls = "TopologyBuild"         -> TopologyBuild(f)

RoutingPromise(c) ==
  CASE c = "BGP" -> Over(19, 2, {"AttributeError", "IndexError", "uneven", "drifts"})
    [] c = "BGPOpen" -> Upto(10, {})
    [] c = "BGPParameter" -> Upto(2, {"drifts"})
    [] c \in {"BGPAuthentication", "BGPOrigin"}
           -> Whole(1, {})
    [] c \in {"BGPCapability", "BGPASPathSegment", "BGPASPathSegment4"}
           -> Upto(2, {})
    [] c = "BGPUpdate" -> Over(4, 2, {"AttributeError", "IndexError", "uneven"})
    [] c = "BGPAttribute" -> Over(3, 2, {"AttributeError", "IndexError", "uneven", "drifts"})
    [] c \in {"BGPNextHop", "BGPMultiExitDisc", "BGPLocalPref", "BGPOriginatorID", "BGPCommunity",
               "BGPReservedCommunity", "BGPRouteRefresh", "PIM"}
           -> Whole(4, {})
    [] c \in {"BGPAtomicAggregate", "BGPKeepalive"}
           -> Fixed(0, 0, {})
    [] c = "BGPAggregator" -> Whole(6, {})
    [] c \in {"BGPASPath", "OSPFv2LSR", "OSPFv3LSR", "OSPFv2LSAck", "OSPFv3LSAck"}
           -> Upto(0, {})
    [] c \in {"BGPCommunities", "BGPClusterList"}
           -> Whole(0, {"AttributeError"})
    [] c = "BGPMPReachNLRI" -> Over(5, 2, {"IndexError", "uneven"})
    [] c \in {"BGPSNPA", "RouteGeneric"}
           -> Upto(1, {})
    [] c = "BGPMPUnreachNLRI" -> Over(3, 2, {"IndexError", "uneven"})
    [] c = "BGPNotification" -> Whole(2, {})
    [] c \in {"RouteIPV4", "RouteIPV6"}
           -> Over(1, 2, {"uneven"})
    [] c = "ExtendedRouteIPV4" -> Over(5, 2, {"uneven"})
    [] c = "RouteEVPN" -> Over(2, 2, {"IndexError", "uneven"})
    [] c = "OSPF" -> Over(14, 24, {"AttributeError", "IndexError"})
    [] c = "OSPFv2" -> Over(24, 24, {"AttributeError", "IndexError"})
    [] c = "OSPFv3" -> Over(16, 24, {"AttributeError", "IndexError"})
    [] c \in {"OSPFv2Hello", "OSPFv3Hello"}
           -> Upto(20, {})
    [] c \in {"OSPFv2DBD", "OSPFv3DBD"}
           -> Whole(8, {})
    [] c \in {"OSPFv2LSU", "OSPFv3LSU"}
           -> Over(4, 24, {"AttributeError", "IndexError"})
    [] c \in {"LSAv2Header", "LSAv3Header", "RIPRTE", "RIPAuth", "BGP4MPMessage_32", "HSRP"}
           -> Whole(20, {})
    [] c \in {"LSARouter", "LSANetwork"}
           -> Upto(24, {})
    [] c = "LSASummaryIP" -> Fixed(27, 27, {})
    [] c = "LSAASExternal" -> Fixed(36, 28, {"IndexError"})
    [] c = "LSARouterV3" -> Over(24, 3, {"IndexError", "uneven"})
    [] c = "LSANetworkV3" -> Over(24, 4, {"uneven"})
    [] c = "LSAInterAreaPrefix" -> Upto(24, {"IndexError"})
    [] c = "LSAInterAreaRouter" -> Fixed(31, 31, {"IndexError"})
    [] c = "LSAASExternalV3" -> Over(33, 8, {"IndexError"})
    [] c = "LSALink" -> Upto(25, {"IndexError"})
    [] c = "LSAIntraAreaPrefix" -> Upto(32, {})
    [] c = "ISIS" -> Whole(8, {"AttributeError", "IndexError", "unsized"})
    [] c \in {"ISISLANHelloL1", "ISISP2PHello", "ISISLSPL1"}
           -> Upto(0, {"AttributeError", "IndexError", "unsized"})
    [] c \in {"ISISCSNPL1", "ISISPSNPL1"}
           -> Upto(0, {"AttributeError", "unsized"})
    [] c \in {"ISISTLV", "ISISNeighborsTLV", "ISISEISReachTLV", "ISISIPIntReachTLV"}
           -> Over(2, 2, {"IndexError"})
    [] c = "EIGRP" -> Whole(20, {"IndexError", "unsized"})
    [] c = "EIGRPMessage" -> Upto(0, {"IndexError", "unsized"})
    [] c \in {"EIGRPTLV", "EIGRPInternalRouteTLV"}
           -> Over(0, 4, {"struct.error", "uneven"})
    [] c = "EIGRPExternalRouteTLV" -> Over(0, 4, {"struct.error", "IndexError", "uneven"})
    [] c = "RIP" -> Upto(4, {"drifts"})
    [] c = "MRTHeader" -> Whole(12, {})
    [] c = "MRTTableDump" -> Upto(22, {"AttributeError", "IndexError", "drifts"})
    [] c = "BGP4MPMessage" -> Whole(16, {})
    [] c = "VRRP" -> Over(8, 16, {"uneven", "drifts"})
    [] c = "TopologyBuild" -> Sizeless({})

RoutingClasses ==
  {"BGP", "BGPOpen", "BGPParameter", "BGPAuthentication", "BGPCapability", "BGPUpdate",
   "BGPAttribute", "BGPOrigin", "BGPNextHop", "BGPMultiExitDisc", "BGPLocalPref",
   "BGPAtomicAggregate", "BGPAggregator", "BGPOriginatorID", "BGPASPath", "BGPASPathSegment",
   "BGPASPathSegment4", "BGPCommunities", "BGPCommunity", "BGPReservedCommunity", "BGPClusterList",
   "BGPMPReachNLRI", "BGPSNPA", "BGPMPUnreachNLRI", "BGPNotification", "BGPKeepalive",
   "BGPRouteRefresh", "RouteGeneric", "RouteIPV4", "ExtendedRouteIPV4", "RouteIPV6", "RouteEVPN",
   "OSPF", "OSPFv2", "OSPFv3", "OSPFv2Hello", "OSPFv3Hello", "OSPFv2DBD", "OSPFv3DBD", "OSPFv2LSR",
   "OSPFv3LSR", "OSPFv2LSAck", "OSPFv3LSAck", "OSPFv2LSU", "OSPFv3LSU", "LSAv2Header",
   "LSAv3Header", "LSARouter", "LSANetwork", "LSASummaryIP", "LSAASExternal", "LSARouterV3",
   "LSANetworkV3", "LSAInterAreaPrefix", "LSAInterAreaRouter", "LSAASExternalV3", "LSALink",
   "LSAIntraAreaPrefix", "ISIS", "ISISLANHelloL1", "ISISP2PHello", "ISISLSPL1", "ISISCSNPL1",
   "ISISPSNPL1", "ISISTLV", "ISISNeighborsTLV", "ISISEISReachTLV", "ISISIPIntReachTLV", "EIGRP",
   "EIGRPMessage", "EIGRPTLV", "EIGRPInternalRouteTLV", "EIGRPExternalRouteTLV", "RIP", "RIPRTE",
   "RIPAuth", "MRTHeader", "MRTTableDump", "BGP4MPMessage", "BGP4MPMessage_32", "PIM", "HSRP",
   "VRRP", "TopologyBuild"}
=============================================================================
