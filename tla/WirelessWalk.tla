---------------------------- MODULE WirelessWalk ----------------------------
(***************************************************************************)
(* The wireless formats together.                                          *)
(***************************************************************************)
EXTENDS Wireless

WirelessStep(f) ==
  CASE f.cls = "IEEE80211"                   -> IEEE80211(f)
    [] f.cls = "BlockAck"                    -> BlockAck(f)
    [] f.cls = "ProbeReq"                    -> ProbeReq(f)
    [] f.cls = "Action"                      -> Action(f)
    [] f.cls = "IE"                          -> IE(f)
    [] f.cls = "TIM"                         -> TIM(f)
    [] f.cls = "IEEE80211IE"                 -> IEEE80211IE(f)
    [] f.cls = "IEEE80211IEExtCap"           -> IEEE80211IEExtCap(f)
    [] f.cls = "IEEE80211IEHECapability"     -> IEEE80211IEHECapability(f)
    [] f.cls = "IEEE80211IEHEOperation"      -> IEEE80211IEHEOperation(f)
    [] f.cls = "IEEE80211IEHESpatialReuse"   -> IEEE80211IEHESpatialReuse(f)
    [] f.cls = "IEEE80211IEHEBSSColorChange" -> IEEE80211IEHEBSSColorChange(f)
    [] f.cls = "IEEE80211IEHETWT"            -> IEEE80211IEHETWT(f)
    [] f.cls = "IEEE80211IEHE6GHzBand"       -> IEEE80211IEHE6GHzBand(f)
    [] f.cls = "IEEE80211IEHEMCSNSS"         -> IEEE80211IEHEMCSNSS(f)
    [] f.cls = "IEEE80211IEEHTCapability"    -> IEEE80211IEEHTCapability(f)
    [] f.cls = "IEEE80211IEEHTOperation"     -> IEEE80211IEEHTOperation(f)
    [] f.cls = "IEEE80211IEEHTTIDLink"       -> IEEE80211IEEHTTIDLink(f)
    [] f.cls = "IEEE80211IEMLElement"        -> IEEE80211IEMLElement(f)
    [] f.cls = "IEEE80211IEHTCapability"     -> IEEE80211IEHTCapability(f)
    [] f.cls = "IEEE80211IEHTInfo"           -> IEEE80211IEHTInfo(f)
    [] f.cls = "IEEE80211IEVHTCapability"    -> IEEE80211IEVHTCapability(f)
    [] f.cls = "IEEE80211IEVHTOperation"     -> IEEE80211IEVHTOperation(f)
    [] f.cls = "IEEE80211IEERP"              -> IEEE80211IEERP(f)
    [] f.cls = "IEEE80211IERSN"              -> IEEE80211IERSN(f)
    [] f.cls = "IEEE80211IECountry"          -> IEEE80211IECountry(f)
    [] f.cls = "IEEE80211IEWMM"              -> IEEE80211IEWMM(f)
    [] f.cls = "Radiotap"                    -> Radiotap(f)
    [] f.cls = "BlockAckReq"                 -> BlockAckReq(f)
    [] f.cls \in DOMAIN ControlFrames -> Plain(f, ControlFrames[f.cls])
    [] f.cls \in DOMAIN ManagementFrames -> Plain(f, ManagementFrames[f.cls])
    [] f.cls \in DOMAIN BlockAckActions -> Plain(f, BlockAckActions[f.cls])
    [] f.cls \in DOMAIN DataFrames -> Plain(f, DataFrames[f.cls])
    [] f.cls \in DOMAIN Elements80211 -> Plain(f, Elements80211[f.cls])
    [] f.cls \in DOMAIN RadiotapHeaders -> Plain(f, RadiotapHeaders[f.cls])

WirelessPromise(c) ==
  CASE c = "IEEE80211" -> Upto(4, {"drifts"})
    [] c = "BlockAck" -> Upto(16, {})
    [] c = "ProbeReq" -> Upto(0, {"unsized"})
    [] c = "Action" -> Upto(2, {})
    [] c = "IE" -> Whole(2, {})
    [] c = "TIM" -> Whole(6, {})
    [] c \in {"IEEE80211IE", "IEEE80211IEExtCap", "IEEE80211IEHECapability", "IEEE80211IEHEOperation",
               "IEEE80211IEHESpatialReuse", "IEEE80211IEHEBSSColorChange", "IEEE80211IEHETWT",
               "IEEE80211IEHE6GHzBand", "IEEE80211IEHEMCSNSS", "IEEE80211IEEHTCapability",
               "IEEE80211IEEHTOperation", "IEEE80211IEEHTTIDLink", "IEEE80211IEMLElement",
               "IEEE80211IEHTCapability", "IEEE80211IEHTInfo", "IEEE80211IEVHTCapability",
               "IEEE80211IEVHTOperation", "IEEE80211IEERP", "IEEE80211IERSN", "IEEE80211IECountry",
               "IEEE80211IEWMM"}
           -> Fixed(2, 2, {"drifts"})
    [] c = "Radiotap" -> Over(4, 4, {"IndexError", "drifts"})
    [] c = "BlockAckReq" -> Whole(16, {})
    [] c \in DOMAIN ControlFrames -> Whole(ControlFrames[c], {})
    [] c \in DOMAIN ManagementFrames -> Whole(ManagementFrames[c], {})
    [] c \in DOMAIN BlockAckActions -> Whole(BlockAckActions[c], {})
    [] c \in DOMAIN DataFrames -> Whole(DataFrames[c], {})
    [] c \in DOMAIN Elements80211 -> Whole(Elements80211[c], {})
    [] c \in DOMAIN RadiotapHeaders -> Whole(RadiotapHeaders[c], {})

WirelessClasses ==
  {"IEEE80211", "BlockAck", "ProbeReq", "Action", "IE", "TIM", "IEEE80211IE", "IEEE80211IEExtCap",
   "IEEE80211IEHECapability", "IEEE80211IEHEOperation", "IEEE80211IEHESpatialReuse",
   "IEEE80211IEHEBSSColorChange", "IEEE80211IEHETWT", "IEEE80211IEHE6GHzBand",
   "IEEE80211IEHEMCSNSS", "IEEE80211IEEHTCapability", "IEEE80211IEEHTOperation",
   "IEEE80211IEEHTTIDLink", "IEEE80211IEMLElement", "IEEE80211IEHTCapability", "IEEE80211IEHTInfo",
   "IEEE80211IEVHTCapability", "IEEE80211IEVHTOperation", "IEEE80211IEERP", "IEEE80211IERSN",
   "IEEE80211IECountry", "IEEE80211IEWMM", "Radiotap", "BlockAckReq"} \cup DOMAIN ControlFrames
       \cup DOMAIN ManagementFrames \cup DOMAIN BlockAckActions \cup DOMAIN DataFrames
       \cup DOMAIN Elements80211 \cup DOMAIN RadiotapHeaders
=============================================================================
