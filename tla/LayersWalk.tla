----------------------------- MODULE LayersWalk -----------------------------
(***************************************************************************)
(* The link, internet and transport layers together.                       *)
(***************************************************************************)
EXTENDS Layers

LayersStep(f) ==
  CASE f.cls = "Ethernet"          -> Ethernet(f)
    [] f.cls = "LLC"               -> LLC(f)
    [] f.cls = "SLL"               -> SLL(f)
    [] f.cls = "SLL2"              -> SLL2(f)
    [] f.cls = "Loopback"          -> Loopback(f)
    [] f.cls = "AOE"               -> AOE(f)
    [] f.cls = "PPP"               -> PPP(f)
    [] f.cls = "PPPoEPPP"          -> PPPoEPPP(f)
    [] f.cls = "PPPoE"             -> PPPoE(f)
    [] f.cls = "IP"                -> IP(f)
    [] f.cls = "IP6"               -> IP6(f)
    [] f.cls = "IP6OptsHeader"     -> IP6OptsHeader(f)
    [] f.cls = "IP6RoutingHeader"  -> IP6RoutingHeader(f)
    [] f.cls = "AH"                -> AH(f)
    [] f.cls = "ICMP"              -> ICMP(f)
    [] f.cls = "ICMPQuote"         -> ICMPQuote(f)
    [] f.cls = "ICMP6"             -> ICMP6(f)
    [] f.cls = "ICMP6Error"        -> ICMP6Error(f)
    [] f.cls = "GRE"               -> GRE(f)
    [] f.cls = "SRE"               -> SRE(f)
    [] f.cls = "TCP"               -> TCP(f)
    [] f.cls = "TCPOptions"        -> TCPOptions(f)
    [] f.cls = "Chunk"             -> Chunk(f)
    [] f.cls = "SCTP"              -> SCTP(f)
    [] f.cls = "ARP"               -> ARP(f)
    [] f.cls = "IPX"               -> IPX(f)
    [] f.cls = "AOEATA"            -> AOEATA(f)
    [] f.cls = "AOECFG"            -> AOECFG(f)
    [] f.cls = "ESP"               -> ESP(f)
    [] f.cls = "IGMP"              -> IGMP(f)
    [] f.cls = "UDP"               -> UDP(f)
    [] f.cls = "VXLAN"             -> VXLAN(f)
    [] f.cls = "ICMPEcho"          -> ICMPEcho(f)
    [] f.cls = "IP6AHHeader"       -> IP6AHHeader(f)
    [] f.cls = "IP6ESPHeader"      -> IP6ESPHeader(f)
    [] f.cls = "IP6FragmentHeader" -> IP6FragmentHeader(f)
    [] f.cls \in DOMAIN EthernetTags -> Exact(f, EthernetTags[f.cls])

LayersPromise(c) ==
  CASE c = "Ethernet" -> Twice(14, 24, {"AttributeError", "IndexError", "uneven"})
    [] c \in {"LLC", "PPP"}
           -> Twice(3, 24, {"AttributeError", "IndexError", "uneven", "unsized"})
    [] c = "SLL" -> Twice(16, 24, {"AttributeError", "IndexError", "uneven", "unsized"})
    [] c \in {"SLL2", "IP"}
           -> Twice(20, 24, {"AttributeError", "IndexError", "uneven", "unsized"})
    [] c \in {"Loopback", "ICMP", "ICMPQuote", "ICMP6", "ICMP6Error", "GRE"}
           -> Twice(4, 24, {"AttributeError", "IndexError", "uneven", "unsized"})
    [] c = "AOE" -> Whole(10, {})
    [] c = "PPPoEPPP" -> Twice(1, 24, {"AttributeError", "IndexError", "uneven", "unsized"})
    [] c = "PPPoE" -> Twice(6, 24, {"AttributeError", "IndexError", "uneven", "unsized"})
    [] c = "IP6" -> Twice(40, 24, {"AttributeError", "IndexError", "uneven", "unsized"})
    [] c \in {"IP6OptsHeader", "SRE"}
           -> Upto(4, {})
    [] c = "IP6RoutingHeader" -> Upto(8, {"drifts"})
    [] c = "AH" -> Twice(12, 24, {"AttributeError", "IndexError", "uneven", "unsized"})
    [] c = "TCP" -> Whole(20, {})
    [] c = "TCPOptions" -> Sizeless({})
    [] c = "Chunk" -> Over(0, 2, {"uneven"})
    [] c = "SCTP" -> Over(12, 2, {"uneven"})
    [] c = "ARP" -> Whole(28, {})
    [] c = "IPX" -> Whole(30, {})
    [] c \in {"AOEATA", "IP6AHHeader"}
           -> Whole(12, {})
    [] c \in {"AOECFG", "ESP", "IGMP", "UDP", "VXLAN", "IP6ESPHeader"}
           -> Whole(8, {})
    [] c = "ICMPEcho" -> Whole(4, {})
    [] c = "IP6FragmentHeader" -> Fixed(8, 8, {})
    [] c \in DOMAIN EthernetTags -> Fixed(EthernetTags[c], EthernetTags[c], {})

LayersClasses ==
  {"Ethernet", "LLC", "SLL", "SLL2", "Loopback", "AOE", "PPP", "PPPoEPPP", "PPPoE", "IP", "IP6",
   "IP6OptsHeader", "IP6RoutingHeader", "AH", "ICMP", "ICMPQuote", "ICMP6", "ICMP6Error", "GRE",
   "SRE", "TCP", "TCPOptions", "Chunk", "SCTP", "ARP", "IPX", "AOEATA", "AOECFG", "ESP", "IGMP",
   "UDP", "VXLAN", "ICMPEcho", "IP6AHHeader", "IP6ESPHeader", "IP6FragmentHeader"} \cup DOMAIN EthernetTags
=============================================================================
