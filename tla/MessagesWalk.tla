---------------------------- MODULE MessagesWalk ----------------------------
(***************************************************************************)
(* The message formats together.                                           *)
(***************************************************************************)
EXTENDS Messages

MessagesStep(f) ==
  CASE f.cls = "HTTPMessage"   -> HTTPMessage(f)
    [] f.cls = "HTTPRequest"   -> HTTPRequest(f)
    [] f.cls = "HTTPResponse"  -> HTTPResponse(f)
    [] f.cls = "IMAPList"      -> IMAPList(f)
    [] f.cls = "TelnetOptions" -> TelnetOptions(f)
    [] f.cls = "FLAP"          -> FLAP(f)
    [] f.cls = "AIMTlv"        -> AIMTlv(f)
    [] f.cls = "TNS"           -> TNS(f)
    [] f.cls = "SIPRequest"    -> SIPRequest(f)
    [] f.cls = "SIPResponse"   -> SIPResponse(f)
    [] f.cls = "SNAC"          -> SNAC(f)
    [] f.cls = "Rx"            -> Rx(f)
    [] f.cls \in DOMAIN QQPackets -> Plain(f, QQPackets[f.cls])
    [] f.cls \in DOMAIN RFBMessages -> Plain(f, RFBMessages[f.cls])
    [] f.cls \in DOMAIN YahooMessages -> Plain(f, YahooMessages[f.cls])

MessagesPromise(c) ==
  CASE c \in {"HTTPMessage", "HTTPRequest", "HTTPResponse", "SIPRequest", "SIPResponse"}
           -> Sizeless({"AttributeError", "TypeError", "ValueError"})
    [] c \in {"IMAPList", "TelnetOptions"}
           -> Sizeless({})
    [] c = "FLAP" -> Whole(6, {"drifts"})
    [] c = "AIMTlv" -> Upto(4, {})
    [] c = "TNS" -> Upto(8, {"drifts"})
    [] c = "SNAC" -> Whole(10, {})
    [] c = "Rx" -> Whole(28, {})
    [] c \in DOMAIN QQPackets -> Whole(QQPackets[c], {})
    [] c \in DOMAIN RFBMessages -> Whole(RFBMessages[c], {})
    [] c \in DOMAIN YahooMessages -> Whole(YahooMessages[c], {})

MessagesClasses ==
  {"HTTPMessage", "HTTPRequest", "HTTPResponse", "IMAPList", "TelnetOptions", "FLAP", "AIMTlv",
   "TNS", "SIPRequest", "SIPResponse", "SNAC", "Rx"} \cup DOMAIN QQPackets
       \cup DOMAIN RFBMessages \cup DOMAIN YahooMessages
=============================================================================
