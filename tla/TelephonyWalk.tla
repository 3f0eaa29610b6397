---------------------------- MODULE TelephonyWalk ----------------------------
(***************************************************************************)
(* Telephony, tunnels and accounting together.                             *)
(***************************************************************************)
EXTENDS Telephony

TelephonyStep(f) ==
  CASE f.cls = "XReportBlock"   -> XReportBlock(f)
    [] f.cls = "XReport"        -> XReport(f)
    [] f.cls = "RTCP"           -> RTCP(f)
    [] f.cls = "RTP"            -> RTP(f)
    [] f.cls = "STUN"           -> STUN(f)
    [] f.cls = "STUNAttributes" -> STUNAttributes(f)
    [] f.cls = "GTPIE"          -> GTPIE(f)
    [] f.cls = "GTPIEv2"        -> GTPIEv2(f)
    [] f.cls = "GTPv1"          -> GTPv1(f)
    [] f.cls = "GTPv2"          -> GTPv2(f)
    [] f.cls = "GTP"            -> GTP(f)
    [] f.cls = "L2TPAVP"        -> L2TPAVP(f)
    [] f.cls = "L2TP"           -> L2TP(f)
    [] f.cls = "RADIUS"         -> RADIUS(f)
    [] f.cls = "DiameterAVP"    -> DiameterAVP(f)
    [] f.cls = "Diameter"       -> Diameter(f)
    [] f.cls = "Netflow1"       -> Netflow1(f)
    [] f.cls = "Netflow5"       -> Netflow5(f)
    [] f.cls = "Netflow6"       -> Netflow6(f)
    [] f.cls = "Netflow7"       -> Netflow7(f)
    [] f.cls = "SCCP"           -> SCCP(f)
    [] f.cls = "TPKT"           -> TPKT(f)
    [] f.cls = "H225"           -> H225(f)
    [] f.cls = "H225IE"         -> H225IE(f)
    [] f.cls = "ASN1"           -> ASN1(f)
    [] f.cls = "SRInfo"         -> SRInfo(f)
    [] f.cls = "RRInfo"         -> RRInfo(f)
    [] f.cls = "Report"         -> Report(f)
    [] f.cls = "Netflow1Record" -> Netflow1Record(f)
    [] f.cls = "Netflow5Record" -> Netflow5Record(f)
    [] f.cls = "Netflow6Record" -> Netflow6Record(f)
    [] f.cls = "Netflow7Record" -> Netflow7Record(f)
    [] f.cls \in DOMAIN XBlocks -> Plain(f, XBlocks[f.cls])
    [] f.cls \in DOMAIN SCCPMessages -> Plain(f, SCCPMessages[f.cls])

TelephonyPromise(c) ==
  CASE c = "XReportBlock" -> Fixed(4, 4, {"ValueError"})
    [] c = "XReport" -> Over(0, 4, {"ValueError", "uneven"})
    [] c = "RTCP" -> Over(4, 4, {"ValueError", "uneven"})
    [] c = "RTP" -> Whole(12, {})
    [] c = "STUN" -> Whole(20, {})
    [] c = "STUNAttributes" -> Sizeless({"struct.error"})
    [] c = "GTPIE" -> Over(2, 2, {"IndexError"})
    [] c = "GTPIEv2" -> Over(3, 3, {"struct.error"})
    [] c = "GTPv1" -> Over(8, 4, {"IndexError", "drifts"})
    [] c = "GTPv2" -> Upto(12, {})
    [] c = "GTP" -> Over(8, 4, {"AttributeError", "IndexError", "drifts"})
    [] c = "L2TPAVP" -> Over(0, 6, {"struct.error", "uneven"})
    [] c = "L2TP" -> Whole(8, {"AttributeError", "unsized"})
    [] c = "RADIUS" -> Fixed(20, 20, {"IndexError", "drifts"})
    [] c = "DiameterAVP" -> Upto(8, {"drifts"})
    [] c = "Diameter" -> Upto(20, {})
    [] c = "Netflow1" -> Over(16, 200, {"uneven", "unsized"})
    [] c \in {"Netflow5", "Netflow6", "Netflow7"}
           -> Over(24, 200, {"uneven", "unsized"})
    [] c = "SCCP" -> Upto(12, {"drifts"})
    [] c = "TPKT" -> Whole(4, {})
    [] c = "H225" -> Over(6, 3, {"uneven", "drifts"})
    [] c = "H225IE" -> Over(1, 2, {"uneven"})
    [] c = "ASN1" -> Sizeless({"ValueError", "IndexError", "struct.error"})
    [] c \in {"SRInfo", "Report"}
           -> Fixed(24, 24, {})
    [] c = "RRInfo" -> Fixed(4, 4, {})
    [] c \in {"Netflow1Record", "Netflow5Record"}
           -> Fixed(48, 48, {})
    [] c \in {"Netflow6Record", "Netflow7Record"}
           -> Fixed(52, 52, {})
    [] c \in DOMAIN XBlocks -> Whole(XBlocks[c], {})
    [] c \in DOMAIN SCCPMessages -> Whole(SCCPMessages[c], {})

TelephonyClasses ==
  {"XReportBlock", "XReport", "RTCP", "RTP", "STUN", "STUNAttributes", "GTPIE", "GTPIEv2", "GTPv1",
   "GTPv2", "GTP", "L2TPAVP", "L2TP", "RADIUS", "DiameterAVP", "Diameter", "Netflow1", "Netflow5",
   "Netflow6", "Netflow7", "SCCP", "TPKT", "H225", "H225IE", "ASN1", "SRInfo", "RRInfo", "Report",
   "Netflow1Record", "Netflow5Record", "Netflow6Record", "Netflow7Record"} \cup DOMAIN XBlocks
       \cup DOMAIN SCCPMessages
=============================================================================
