------------------------------- MODULE WebWalk -------------------------------
(***************************************************************************)
(* The web protocols together.                                             *)
(***************************************************************************)
EXTENDS Web

WebStep(f) ==
  CASE f.cls = "SSL2"                     -> SSL2(f)
    [] f.cls = "TLSRecord"                -> TLSRecord(f)
    [] f.cls = "TLS"                      -> TLS(f)
    [] f.cls = "TLSClientHello"           -> TLSClientHello(f)
    [] f.cls = "TLSServerHello"           -> TLSServerHello(f)
    [] f.cls = "TLSCertificate"           -> TLSCertificate(f)
    [] f.cls = "TLSHandshake"             -> TLSHandshake(f)
    [] f.cls = "SSLFactory"               -> SSLFactory(f)
    [] f.cls = "TLSMultiFactory"          -> TLSMultiFactory(f)
    [] f.cls = "ContinuationFrame"        -> ContinuationFrame(f)
    [] f.cls = "RSTStreamFrame"           -> RSTStreamFrame(f)
    [] f.cls = "WindowUpdateFrame"        -> WindowUpdateFrame(f)
    [] f.cls = "PingFrame"                -> PingFrame(f)
    [] f.cls = "GoAwayFrame"              -> GoAwayFrame(f)
    [] f.cls = "PriorityFrame"            -> PriorityFrame(f)
    [] f.cls = "SettingsFrame"            -> SettingsFrame(f)
    [] f.cls = "DataFrame"                -> DataFrame(f)
    [] f.cls = "HeadersFrame"             -> HeadersFrame(f)
    [] f.cls = "PushPromiseFrame"         -> PushPromiseFrame(f)
    [] f.cls = "Frame"                    -> Frame(f)
    [] f.cls = "Priority"                 -> Priority(f)
    [] f.cls = "Setting"                  -> Setting(f)
    [] f.cls = "Preface"                  -> Preface(f)
    [] f.cls = "FrameFactory"             -> FrameFactory(f)
    [] f.cls = "FrameMultiFactory"        -> FrameMultiFactory(f)
    [] f.cls = "QUICFrame"                -> QUICFrame(f)
    [] f.cls = "QUICStreamFrame"          -> QUICStreamFrame(f)
    [] f.cls = "QUICCryptoFrame"          -> QUICCryptoFrame(f)
    [] f.cls = "QUICAckFrame"             -> QUICAckFrame(f)
    [] f.cls = "QUICMaxDataFrame"         -> QUICMaxDataFrame(f)
    [] f.cls = "QUICMaxStreamDataFrame"   -> QUICMaxStreamDataFrame(f)
    [] f.cls = "QUICConnectionCloseFrame" -> QUICConnectionCloseFrame(f)
    [] f.cls = "QUICParseFrames"          -> QUICParseFrames(f)
    [] f.cls = "QUICLongHeader"           -> QUICLongHeader(f)
    [] f.cls = "QUICShortHeader"          -> QUICShortHeader(f)
    [] f.cls = "QUIC"                     -> QUIC(f)
    [] f.cls = "Http3Frame"               -> Http3Frame(f)
    [] f.cls = "Http3SettingsFrame"       -> Http3SettingsFrame(f)
    [] f.cls = "Http3ParseFrames"         -> Http3ParseFrames(f)
    [] f.cls = "QPACKEncoder"             -> QPACKEncoder(f)
    [] f.cls = "QPACKRequest"             -> QPACKRequest(f)
    [] f.cls = "GzipExtra"                -> GzipExtra(f)
    [] f.cls = "Gzip"                     -> Gzip(f)
    [] f.cls \in DOMAIN TLSHeaders -> Plain(f, TLSHeaders[f.cls])
    [] f.cls \in Http3Payloads -> Http3Payload(f)
    [] f.cls \in Http3Numbered -> Http3Number(f)
    [] f.cls \in QPACKIntegers -> QPACKInteger(f)
    [] f.cls \in QPACKRefs -> QPACKRefAndValue(f)
    [] f.cls \in QPACKLiterals -> QPACKNameAndValue(f)

WebPromise(c) ==
  CASE c = "SSL2" -> Upto(2, {"IndexError", "drifts"})
    [] c = "TLSRecord" -> Upto(5, {})
    [] c \in {"TLS", "QUICParseFrames", "Http3Frame", "Http3SettingsFrame", "Http3ParseFrames",
               "QPACKEncoder", "QPACKRequest"}
           -> Sizeless({})
    [] c \in {"TLSClientHello", "TLSServerHello"}
           -> Whole(35, {})
    [] c = "TLSCertificate" -> Whole(3, {})
    [] c = "TLSHandshake" -> Upto(4, {"SSL3Exception"})
    [] c = "SSLFactory" -> Upto(2, {"IndexError"})
    [] c = "TLSMultiFactory" -> Upto(0, {"SSL3Exception"})
    [] c \in {"ContinuationFrame", "RSTStreamFrame", "WindowUpdateFrame", "PingFrame", "GoAwayFrame",
               "PriorityFrame", "SettingsFrame", "DataFrame", "HeadersFrame", "PushPromiseFrame",
               "FrameFactory"}
           -> Upto(9, {"HTTP2Exception"})
    [] c = "Frame" -> Upto(9, {})
    [] c = "Priority" -> Whole(5, {"HTTP2Exception", "uneven"})
    [] c = "Setting" -> Whole(6, {})
    [] c = "Preface" -> Fixed(24, 24, {"HTTP2Exception", "uneven"})
    [] c = "FrameMultiFactory" -> Upto(0, {"HTTP2Exception"})
    [] c = "QUICFrame" -> Fixed(1, 0, {})
    [] c = "QUICStreamFrame" -> Upto(2, {"uneven", "drifts"})
    [] c = "QUICCryptoFrame" -> Over(3, 2, {"uneven", "drifts"})
    [] c = "QUICAckFrame" -> Upto(5, {"uneven", "drifts"})
    [] c \in {"QUICMaxDataFrame", "QUICMaxStreamDataFrame", "QUICConnectionCloseFrame"}
           -> Upto(1, {"drifts"})
    [] c \in {"QUICLongHeader", "QUIC"}
           -> Twice(8, 8, {"AttributeError", "struct.error", "IndexError", "uneven", "unsized"})
    [] c = "QUICShortHeader" -> Sizeless({"IndexError"})
    [] c = "GzipExtra" -> Whole(4, {})
    [] c = "Gzip" -> Upto(10, {"ValueError", "uneven", "drifts"})
    [] c \in DOMAIN TLSHeaders -> Whole(TLSHeaders[c], {})
    [] c \in Http3Payloads -> Sizeless({})
    [] c \in Http3Numbered -> Sizeless({})
    [] c \in QPACKIntegers -> Upto(1, {"IndexError"})
    [] c \in QPACKRefs -> Over(2, 2, {"IndexError"})
    [] c \in QPACKLiterals -> Over(2, 4, {"IndexError"})

WebClasses ==
  {"SSL2", "TLSRecord", "TLS", "TLSClientHello", "TLSServerHello", "TLSCertificate",
   "TLSHandshake", "SSLFactory", "TLSMultiFactory", "ContinuationFrame", "RSTStreamFrame",
   "WindowUpdateFrame", "PingFrame", "GoAwayFrame", "PriorityFrame", "SettingsFrame", "DataFrame",
   "HeadersFrame", "PushPromiseFrame", "Frame", "Priority", "Setting", "Preface", "FrameFactory",
   "FrameMultiFactory", "QUICFrame", "QUICStreamFrame", "QUICCryptoFrame", "QUICAckFrame",
   "QUICMaxDataFrame", "QUICMaxStreamDataFrame", "QUICConnectionCloseFrame", "QUICParseFrames",
   "QUICLongHeader", "QUICShortHeader", "QUIC", "Http3Frame", "Http3SettingsFrame",
   "Http3ParseFrames", "QPACKEncoder", "QPACKRequest", "GzipExtra", "Gzip"}
       \cup DOMAIN TLSHeaders \cup Http3Payloads \cup Http3Numbered \cup QPACKIntegers
       \cup QPACKRefs \cup QPACKLiterals
=============================================================================
