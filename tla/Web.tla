--------------------------------- MODULE Web ---------------------------------
(***************************************************************************)
(* dpkt/ssl.py, http2.py, quic.py, http3.py, qpack.py and gzip.py.          *)
(***************************************************************************)
EXTENDS Frames

\* SSL and TLS.
TLSHeaders == [TLSChangeCipherSpec |-> 1, TLSAlert |-> 2, TLSHelloRequest |-> 0, TLSUnknownHandshake |-> 0]

\* The message is taken off the data, and its padding.
SSL2(f) == IF f.n < 2 THEN Short(f) ELSE LET g == Take(Declare(f, f.n), 2) IN
    {IF g.n = 0 THEN Raise(g, "IndexError") ELSE Return(g)}
    \cup UNION {Keep([g EXCEPT !.n = Monus(@, m)]) : m \in Claims(g)}

TLSRecord(f) == Short(f) \cup UNION {Keep(g) : g \in Complete(f, 5)}
TLS(f) == IF f.n = 0 THEN Unsized(f, -1) ELSE Element(f, "TLSRecord")

\* parse_variable_array: a length of k bytes, then as much of it as there is.
\* Only n moves: the packet keeps all of its data.
Array(f, k) == {[f EXCEPT !.n = Monus(@, k + m)] : m \in 0 .. (f.n - k + 2)}
Arrays(f, k, label) == IF f.n < k THEN Short(f) ELSE {Loop(g, label, 0) : g \in Array(f, k)}
AllKept(f) == {Return([f EXCEPT !.len = f.n0, !.out = f.n0])}
\* parse_extensions: while pointer < extensions_length, which is lim.
Extensions(f) == IF f.lim <= 2 THEN AllKept(f)
                 ELSE IF f.n < 4 THEN {Raise(f, "UnpackError")}
                 ELSE {[f EXCEPT !.n = Monus(@, 4 + m), !.lim = @ - 4 - m] : m \in 0 .. f.lim}
Extended(g) == IF g.n < 6 THEN AllKept(g) ELSE {Loop([g EXCEPT !.n = @ - 2], "extensions", l) : l \in Claims(g)}
TLSClientHello(f) ==
    CASE f.at = "start"      -> IF f.n < 34 THEN Short(f) ELSE Arrays(Take(f, 34), 1, "ciphersuites")
      [] f.at = "ciphersuites" -> {Raise(f, "UnpackError")} \cup Arrays(f, 2, "compression")
      [] f.at = "compression"  -> IF f.n < 1 THEN Short(f) ELSE UNION {Extended(g) : g \in Array(f, 1)}
      [] f.at = "extensions"   -> Extensions(f)
TLSServerHello(f) ==
    CASE f.at = "start"       -> IF f.n < 34 THEN Short(f) ELSE Arrays(Take(f, 34), 1, "ciphersuite")
      [] f.at = "ciphersuite" -> IF f.n < 3 THEN {Raise(f, "UnpackError")} ELSE Extended([f EXCEPT !.n = @ - 3])
      [] f.at = "extensions"  -> Extensions(f)
TLSCertificate(f) ==
    IF f.at = "start" THEN IF f.n < 3 THEN {Raise(f, "UnpackError")}
                           ELSE {Loop([f EXCEPT !.n = @ - 3], "certificates", l) : l \in Claims(f)}
    ELSE IF f.lim <= 0 THEN AllKept(f)
    ELSE IF f.n < 3 THEN {Raise(f, "UnpackError")}
    ELSE {[f EXCEPT !.n = Monus(@, 3 + m), !.lim = @ - 3 - m] : m \in Claims(f)}
Handshakes == {"TLSHelloRequest", "TLSClientHello", "TLSServerHello", "TLSCertificate", "TLSUnknownHandshake"}
TLSHandshake(f) == Short(f) \cup (IF f.n < 4 THEN {} ELSE {Raise(f, "SSL3Exception")})
    \cup UNION {Inner(g, Handshakes) : g \in Complete(f, 4)}
SSLFactory(f) == Inner(f, {"TLSRecord", "SSL2"})

\* tls_multi_factory returns what it read and how far it got: it stops before
\* a record that is not all there.
TLSMultiFactory(f) ==
    IF f.n < 5 THEN {Return(f)}
    ELSE {Raise(f, "SSL3Exception")}
        \cup {IF g.at = "UnpackError" THEN Return(f) ELSE g : g \in Element(f, "TLSRecord")}

\* HTTP/2.  A frame's body must be there in full and have the size its type
\* demands; data stays raw.
HTTP2Sized(f, sizes) == Short(f) \cup UNION {
    IF g.n \in sizes THEN Keep(g) ELSE {Raise(g, "HTTP2Exception")} : g \in Complete(f, 9)}
Frame(f)             == HTTP2Sized(f, Nat)
ContinuationFrame(f) == Frame(f)
RSTStreamFrame(f)    == HTTP2Sized(f, {4})
WindowUpdateFrame(f) == HTTP2Sized(f, {4})
PingFrame(f)         == HTTP2Sized(f, {8})
GoAwayFrame(f)       == HTTP2Sized(f, Nat \ (0 .. 7))
PriorityFrame(f)     == Short(f) \cup UNION {
    IF g.n < 5 THEN Short(g) ELSE IF g.n > 5 THEN {Raise(g, "HTTP2Exception")}
        ELSE Keep(g) : g \in Complete(f, 9)}
\* A setting has six bytes.
SettingsFrame(f) ==
    IF f.at = "start"
    THEN Short(f) \cup {IF g.n % 6 # 0 THEN Raise(g, "HTTP2Exception")
        ELSE Loop(g, "settings", 0) : g \in Complete(f, 9)}
    ELSE WhileData(f, "Setting", {Return(f)})
\* The padding must leave room for its length byte.  What is left without it,
\* nothing if the padding has length 0, must hold need bytes.
PaddedFrame(f, need) == Short(f) \cup UNION {UNION {
    LET left == IF pad = -1 THEN g.n ELSE IF pad = 0 THEN 0 ELSE Monus(g.n, 1 + pad)
    IN IF g.n <= pad \/ left < need THEN {Raise(g, "HTTP2Exception")} ELSE Keep(g) :
       pad \in -1 .. g.n} : g \in Complete(f, 9)}
DataFrame(f)        == PaddedFrame(f, 0)
HeadersFrame(f)     == PaddedFrame(f, 0) \cup PaddedFrame(f, 5)
PushPromiseFrame(f) == PaddedFrame(f, 4)
\* The weight counts from one in the object, and no longer fits its byte at 256.
Priority(f) == IF f.n < 5 THEN Short(f) ELSE LET g == Take(f, 5)
    IN IF g.n > 0 THEN {Raise(g, "HTTP2Exception")}
    ELSE {Return(g), Return([g EXCEPT !.out = -1])}
Setting(f)  == Plain(f, 6)
\* The data left after the preface is a string, which bytes() cannot take.
Preface(f)  == IF f.n < 24 THEN Short(f) ELSE LET g == Take(f, 24)
    IN {Raise(g, "HTTP2Exception"), Return([g EXCEPT !.out = -1])}

HTTP2Frames == {"DataFrame", "HeadersFrame", "PriorityFrame", "RSTStreamFrame", "SettingsFrame", "PushPromiseFrame",
                "PingFrame", "GoAwayFrame", "WindowUpdateFrame", "ContinuationFrame"}
FrameFactory(f) == IF f.n < 4 THEN {Raise(f, "UnpackError")} ELSE {Raise(f, "HTTP2Exception")}
    \cup Inner(f, HTTP2Frames)
\* Stops before a frame that is not all there.
FrameMultiFactory(f) ==
    IF f.at = "start" THEN {Loop(f, "frames", 0)} \cup
        {CASE g.at = "UnpackError" -> Return(f)
            [] g.at = "returned" -> Loop(Take(f, 24), "frames", 0) [] OTHER -> g
            : g \in Preface(f)}
    ELSE IF f.n = 0 THEN {Return(f)}
    ELSE {IF g.at = "UnpackError" THEN Return(f) ELSE g : g \in Element(f, "FrameFactory")}

\* QUIC.  A variable-length integer takes s bytes; the frame's size counts the
\* e bytes its value needs at least.
VarSizes == {1, 2, 4, 8}
Varint(f) == UNION {{[f EXCEPT !.n = @ - s, !.len = @ + e] : e \in {x \in VarSizes : x <= s}} :
                    s \in {x \in VarSizes : x <= f.n}}
\* lim of them, one step each, and what is done after them.
Varints(f, done) == IF f.lim = 0 THEN done ELSE Lacking(f, 8) \cup {[g EXCEPT !.lim = @ - 1] : g \in Varint(f)}
\* The frame's size is what parse_frames advances by, its declared size what it
\* took; bytes() writes the type.
Sized(f, k) == {Declare(Return([f EXCEPT !.n = Monus(@, k), !.len = @ + k]), f.n0 - Monus(f.n, k))}

QUICFrame(f)       == {Return([f EXCEPT !.len = 1, !.out = 1])}
QUICStreamFrame(f) ==
    CASE f.at = "start"  -> {Loop(Take(f, 1), "ids", k) : k \in {1, 2}}
      [] f.at = "ids"    -> Varints(f, Sized(f, f.n) \cup {Loop(f, "length", 1)})
      [] f.at = "length" -> Varints(f, UNION {Sized(f, k) : k \in 0 .. f.n})
\* The length counts in full, the data as far as there is.
QUICCryptoFrame(f) ==
    CASE f.at = "start"   -> {Loop(Take(f, 1), "numbers", 2)}
      [] f.at = "numbers" -> Varints(f, UNION {
             {[h EXCEPT !.len = f.len + k, !.out = h.len] : h \in Sized(f, Least(k, f.n))} : k \in Claims(f)})
QUICAckFrame(f) ==
    CASE f.at = "start"  -> {Loop(Take(f, 1), "ranges", 4)}
      [] f.at = "ranges" -> Varints(f, {Loop(f, "blocks", 2 * k) : k \in 0 .. (f.n \div 2 + 1)})
      [] f.at = "blocks" -> Varints(f, Sized(f, 0))
\* These report one byte whatever they took.
QUICNumbers(f, first) ==
    IF f.at = "start" THEN {Loop(Take(f, 1), "numbers", first)}
    ELSE Varints(f, {[h EXCEPT !.len = 1, !.out = 1] : h \in Sized(f, 0)})
QUICMaxDataFrame(f)         == QUICNumbers(f, 1)
QUICMaxStreamDataFrame(f)   == QUICNumbers(f, 2)
QUICConnectionCloseFrame(f) == QUICNumbers(f, 2) \cup (IF f.at = "start" THEN QUICNumbers(f, 3) ELSE {})
QUICFrames == {"QUICFrame", "QUICStreamFrame", "QUICCryptoFrame", "QUICAckFrame", "QUICMaxDataFrame",
               "QUICMaxStreamDataFrame", "QUICConnectionCloseFrame"}
\* parse_frames: padding is skipped, a frame that cannot be read ends the list.
QUICParseFrames(f) ==
    IF f.n = 0 THEN Unsized(f, -1)
    ELSE {[f EXCEPT !.n = @ - 1]} \cup UNION {
         {IF Finished(g) THEN Return([f EXCEPT !.len = -1])
             ELSE [f EXCEPT !.n = g.n] : g \in Element(f, c)} : c \in QUICFrames}
\* Connection identifiers; a retry has no size.  len() counts the packet number
\* on top of the whole packet and the payload again.
QUICLongHeader(f) ==
    CASE f.at = "start"  -> IF f.n < 5
             THEN {Raise(f, "struct.error"), Raise(f, "AttributeError")}
             ELSE {Loop([f EXCEPT !.n = @ - 5], "ids", 2)}
      [] f.at = "ids" /\ f.lim > 0 -> IF f.n = 0 THEN {Raise(f, "IndexError")}
                             ELSE {[f EXCEPT !.n = Monus(@, 1 + k), !.lim = @ - 1] : k \in Claims(f)}
      [] f.at = "ids" /\ f.lim = 0 -> Unsized(f, -1) \cup {Loop(f, "length", 0)}
                             \cup Lacking(f, 8)
                             \cup UNION {{Loop([f EXCEPT !.n = Monus(g.n, k)], "length", 0)
                                 : k \in Claims(g)} : g \in Varint(f)}
      [] f.at = "length" -> Lacking(f, 8) \cup {
             Return([f EXCEPT !.len = f.n0 - g.n + k + p + Monus(Least(k, g.n), p), !.out = -1]) :
             p \in 1 .. 4, <<g, k>> \in UNION {{g} \X Claims(g) : g \in Varint(f)}}
QUICShortHeader(f) == IF f.n = 0 THEN {Raise(f, "IndexError")} ELSE Unsized(f, -1)
QUIC(f) == IF f.n = 0 THEN {Raise(f, "AttributeError")} ELSE Inner(f, {"QUICLongHeader", "QUICShortHeader"})

\* HTTP/3.  Type and length, then what the type says; frames have no len().
HTTP3Numbers(f, k, done) == IF f.at = "start" THEN {Loop(f, "numbers", k)}
    \cup (IF f.n = 0 THEN Unsized(f, -1) ELSE {})
                               ELSE Varints(f, done)
Http3Frame(f)    == HTTP3Numbers(f, 2, Unsized(f, 0))
Http3Payload(f)  == HTTP3Numbers(f, 2, Unsized(f, -1))
Http3Number(f)   == HTTP3Numbers(f, 3, Unsized(f, 0))
\* Pairs of numbers while the declared length has room for two bytes.
Http3SettingsFrame(f) ==
    IF f.at # "settings" THEN HTTP3Numbers(f, 2, Loops(f, "settings"))
    ELSE IF f.lim < 2 THEN Unsized(f, 0)
    ELSE Lacking(f, 16) \cup {[h EXCEPT !.lim = @ - (f.n - h.n)] : h \in UNION {Varint(g) : g \in Varint(f)}}
Http3Payloads == {"Http3DataFrame", "Http3HeadersFrame"}
Http3Numbered == {"Http3GoawayFrame", "Http3PushPromiseFrame", "Http3CancelPushFrame", "Http3MaxPushIdFrame"}
\* parse_http3_frames: each frame is given what it declares.
Http3ParseFrames(f) ==
    CASE f.n = 0 -> Unsized(f, -1)
      [] f.n > 0 /\ f.at = "start" -> Lacking(f, 8) \cup {Loop(g, "length", 0) : g \in Varint(f)}
      [] f.n > 0 /\ f.at = "length" -> Short(f) \cup UNION {
             {Loop([g EXCEPT !.n = Monus(@, k), !.len = 0], "start", 0) : k \in Claims(g)} : g \in Varint(f)}

\* QPACK.  _decode_int takes bytes up to one without the continuation bit;
\* the size of an instruction is _consumed.
NoInt(f)       == IF f.n = 0 THEN {Raise(f, "IndexError")} ELSE {}
PrefixInt(f)   == {Take(f, k) : k \in 1 .. f.n}
QPACKString(f) == UNION {{Take(g, k) : k \in Claims(g)} : g \in PrefixInt(f)}
QPACKInteger(f) == NoInt(f) \cup {Return(g) : g \in PrefixInt(f)}
QPACKValue(f)   == NoInt(f) \cup {Return(g) : g \in QPACKString(f)}
QPACKRefAndValue(f)  == IF f.at = "start" THEN NoInt(f)
    \cup {Loop(g, "value", 0) : g \in PrefixInt(f)} ELSE QPACKValue(f)
QPACKNameAndValue(f) == IF f.at = "start" THEN NoInt(f)
    \cup {Loop(g, "value", 0) : g \in QPACKString(f)} ELSE QPACKValue(f)
QPACKIntegers == {"QPACKIndexedField", "QPACKPostBase", "QPACKDuplicate", "QPACKDynamicCapacity", "QPACKSectionAck", "QPACKStreamCancel"}
QPACKRefs     == {"QPACKLiteralNameRef", "QPACKEncoderInsertRef"}
QPACKLiterals == {"QPACKLiteralLiteral", "QPACKEncoderInsertNoRef"}
\* parse_qpack_encoder and parse_qpack_request: an unknown or a cut instruction
\* ends the list.
QPACKParse(f, Cs) ==
    IF f.n = 0 THEN Unsized(f, -1)
    ELSE Unsized(f, -1) \cup UNION {{IF Finished(g) THEN Return([f EXCEPT !.len = -1])
        ELSE [f EXCEPT !.n = g.n] : g \in Element(f, c)} : c \in Cs}
QPACKEncoder(f) == QPACKParse(f, {"QPACKDynamicCapacity", "QPACKDuplicate", "QPACKEncoderInsertRef", "QPACKEncoderInsertNoRef"})
QPACKRequest(f) == QPACKParse(f, {"QPACKIndexedField", "QPACKLiteralNameRef", "QPACKLiteralLiteral", "QPACKPostBase"})

\* Gzip.  The optional fields leave the data; bytes() writes extra, name and
\* comment again and leaves out the others, len() counts none of them.
GzipExtra(f) == Plain(f, 4)
Gzip(f) ==
    LET Skip(g, k, e, label) == IF g.n < k THEN Raise(g, e) ELSE Loop([g EXCEPT !.n = @ - k], label, 0)
        Text(g, label) == {Raise(g, "UnpackError")}
            \cup {Loop([g EXCEPT !.n = @ - k, !.out = @ + (IF k = 1 THEN 0 ELSE k)], label, 0)
            : k \in 1 .. g.n}
    IN CASE f.at = "start"   -> IF f.n < 10 THEN Short(f) ELSE LET g == Take(Declare(f, f.n), 10)
        IN {Loop(g, "name", 0)} \cup
                {IF g.n < 2 + Least(m, g.n) \/ m < 4 THEN Raise(g, "UnpackError")
                 ELSE Loop([g EXCEPT !.n = Monus(@, 2 + m), !.out = @ + 2 + m], "name", 0)
                     : m \in 0 .. Monus(g.n, 1)}
         [] f.at = "name"    -> {Loop(f, "comment", 0), Raise(f, "ValueError")} \cup Text(f, "comment")
         [] f.at = "comment" -> {Loop(f, "encrypt", 0)} \cup Text(f, "encrypt")
         [] f.at = "encrypt" -> {Loop(f, "hcrc", 0), Skip(f, 12, "UnpackError", "hcrc")}
         [] f.at = "hcrc"    -> Keep(f)
                  \cup {IF f.n < 2 THEN Raise(f, "UnpackError")
                  ELSE g : g \in Keep([f EXCEPT !.n = Monus(@, 2)])}
=============================================================================
