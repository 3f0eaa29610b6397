---------------------------- MODULE ServicesWalk ----------------------------
(***************************************************************************)
(* Name, file and management services together.                            *)
(***************************************************************************)
EXTENDS Services

ServicesStep(f) ==
  CASE f.cls = "DNSName"            -> DNSName(f)
    [] f.cls = "DNS"                -> DNS(f)
    [] f.cls = "NS"                 -> NS(f)
    [] f.cls = "DHCP"               -> DHCP(f)
    [] f.cls = "NBSS"               -> NBSS(f)
    [] f.cls = "SMB1Command"        -> SMB1Command(f)
    [] f.cls = "SMB1Negotiate"      -> SMB1Negotiate(f)
    [] f.cls = "SMB"                -> SMB(f)
    [] f.cls = "SMB2"               -> SMB2(f)
    [] f.cls = "SMB2TreeConnect"    -> SMB2TreeConnect(f)
    [] f.cls = "SMB2Create"         -> SMB2Create(f)
    [] f.cls = "SMB2Close"          -> SMB2Close(f)
    [] f.cls = "SMB2Read"           -> SMB2Read(f)
    [] f.cls = "SMB2Write"          -> SMB2Write(f)
    [] f.cls = "SMB2Lock"           -> SMB2Lock(f)
    [] f.cls = "SMB2Ioctl"          -> SMB2Ioctl(f)
    [] f.cls = "SMB2QueryDirectory" -> SMB2QueryDirectory(f)
    [] f.cls = "SMB2QueryInfo"      -> SMB2QueryInfo(f)
    [] f.cls = "SMB2SetInfo"        -> SMB2SetInfo(f)
    [] f.cls = "RPCAuth"            -> RPCAuth(f)
    [] f.cls = "RPCCall"            -> RPCCall(f)
    [] f.cls = "RPCAccept"          -> RPCAccept(f)
    [] f.cls = "RPCReject"          -> RPCReject(f)
    [] f.cls = "RPCReply"           -> RPCReply(f)
    [] f.cls = "RPC"                -> RPC(f)
    [] f.cls = "XDRList"            -> XDRList(f)
    [] f.cls = "Pmap"               -> Pmap(f)
    [] f.cls = "NTP"                -> NTP(f)
    [] f.cls = "EDP"                -> EDP(f)
    [] f.cls = "STP"                -> STP(f)
    [] f.cls = "TFTP"               -> TFTP(f)
    [] f.cls = "CDPTLV"             -> CDPTLV(f)
    [] f.cls = "CDPAddresses"       -> CDPAddresses(f)
    [] f.cls = "CDPAddress"         -> CDPAddress(f)
    [] f.cls = "CDP"                -> CDP(f)
    [] f.cls = "DTP"                -> DTP(f)
    [] f.cls \in DOMAIN NetBIOS -> Plain(f, NetBIOS[f.cls])
    [] f.cls \in DOMAIN SMB2Sessions -> Plain(f, SMB2Sessions[f.cls])
    [] f.cls \in DOMAIN SMB2Ends -> Plain(f, SMB2Ends[f.cls])
    [] f.cls \in DOMAIN SMB2Notices -> Plain(f, SMB2Notices[f.cls])
    [] f.cls \in SMB1Files -> SMB1Command(f)
    [] f.cls \in SMB1Others -> SMB1Command(f)

ServicesPromise(c) ==
  CASE c = "DNSName" -> Upto(1, {"ValueError", "struct.error"})
    [] c = "DNS" -> Upto(12, {"ValueError", "unsized"})
    [] c = "NS" -> Upto(12, {"ValueError", "IndexError", "unsized"})
    [] c = "DHCP" -> Over(241, 1, {"IndexError", "uneven", "drifts"})
    [] c \in {"NBSS", "RPCReply", "CDPTLV"}
           -> Upto(4, {})
    [] c \in {"SMB1Command", "SMB1Negotiate"}
           -> Upto(3, {"AttributeError", "IndexError"})
    [] c = "SMB" -> Fixed(32, 32, {"AttributeError", "drifts"})
    [] c = "SMB2" -> Upto(64, {"AttributeError", "IndexError", "uneven", "unsized"})
    [] c = "SMB2TreeConnect" -> Fixed(8, 8, {"drifts"})
    [] c = "SMB2Create" -> Fixed(56, 56, {"drifts"})
    [] c = "SMB2Close" -> Whole(24, {})
    [] c = "SMB2Read" -> Upto(0, {"AttributeError", "IndexError", "unsized"})
    [] c = "SMB2Write" -> Upto(0, {"AttributeError", "unsized"})
    [] c = "SMB2Lock" -> Fixed(24, 24, {"uneven", "drifts"})
    [] c = "SMB2Ioctl" -> Fixed(24, 52, {"uneven", "drifts"})
    [] c = "SMB2QueryDirectory" -> Fixed(24, 36, {"uneven", "drifts"})
    [] c = "SMB2QueryInfo" -> Fixed(4, 24, {"uneven", "drifts"})
    [] c = "SMB2SetInfo" -> Fixed(4, 16, {"uneven", "drifts"})
    [] c \in {"RPCAuth", "CDPAddresses"}
           -> Upto(8, {})
    [] c = "RPCCall" -> Twice(32, 0, {"drifts"})
    [] c = "RPCAccept" -> Upto(12, {"drifts"})
    [] c \in {"RPCReject", "CDP"}
           -> Whole(4, {})
    [] c = "RPC" -> Twice(8, 0, {})
    [] c = "XDRList" -> Sizeless({})
    [] c \in {"Pmap", "EDP"}
           -> Whole(16, {})
    [] c = "NTP" -> Whole(48, {})
    [] c = "STP" -> Whole(35, {})
    [] c = "TFTP" -> Over(2, 2, {"drifts"})
    [] c = "CDPAddress" -> Upto(5, {})
    [] c = "DTP" -> Upto(1, {"uneven", "drifts"})
    [] c \in DOMAIN NetBIOS -> Whole(NetBIOS[c], {})
    [] c \in DOMAIN SMB2Sessions -> Whole(SMB2Sessions[c], {})
    [] c \in DOMAIN SMB2Ends -> Whole(SMB2Ends[c], {})
    [] c \in DOMAIN SMB2Notices -> Whole(SMB2Notices[c], {})
    [] c \in SMB1Files -> Upto(3, {"AttributeError", "IndexError"})
    [] c \in SMB1Others -> Upto(3, {"AttributeError", "IndexError"})

ServicesClasses ==
  {"DNSName", "DNS", "NS", "DHCP", "NBSS", "SMB1Command", "SMB1Negotiate", "SMB", "SMB2",
   "SMB2TreeConnect", "SMB2Create", "SMB2Close", "SMB2Read", "SMB2Write", "SMB2Lock", "SMB2Ioctl",
   "SMB2QueryDirectory", "SMB2QueryInfo", "SMB2SetInfo", "RPCAuth", "RPCCall", "RPCAccept",
   "RPCReject", "RPCReply", "RPC", "XDRList", "Pmap", "NTP", "EDP", "STP", "TFTP", "CDPTLV",
   "CDPAddresses", "CDPAddress", "CDP", "DTP"} \cup DOMAIN NetBIOS \cup DOMAIN SMB2Sessions
       \cup DOMAIN SMB2Ends \cup DOMAIN SMB2Notices \cup SMB1Files \cup SMB1Others
=============================================================================
