------------------------------ MODULE Messages ------------------------------
(***************************************************************************)
(* Message formats read whole: dpkt/http.py, sip.py, the lists of imap.py,  *)
(* telnet.py, aim.py, qq.py, rfb.py, rx.py, tns.py and yahoo.py.            *)
(***************************************************************************)
EXTENDS Frames

\* HTTP.  A line takes some bytes off the buffer; at its end there is none.
Line(f) == IF f.n = 0 THEN {f} ELSE {[f EXCEPT !.n = @ - k] : k \in 1 .. f.n}

\* parse_headers up to an empty line.  A repeated header is a list, which has no
\* lower() and no int().
HTTPHeaders(f) == {Loop(g, "body", 0) : g \in Line(f)}
    \cup (IF f.n = 0 THEN {} ELSE Short(f) \cup Line(f))
\* parse_body: in chunks, of a declared length, up to the end, or none.
HTTPBody(f) ==
    {Raise(f, e) : e \in {"AttributeError", "TypeError", "ValueError", "UnpackError"}}
    \cup {Loop(f, "chunks", 0)} \cup Unsized(f, -1)
\* A chunk's size, its bytes and the rest of its line.  The chunk of size zero
\* or one that is cut ends the body, which is an error unless the size is zero.
HTTPChunks(f) == Short(f) \cup (IF f.n = 0 THEN {} ELSE UNION {
    UNION {Unsized(h, -1) : h \in Line(g)}
    \cup UNION {Line([g EXCEPT !.n = @ - size]) : size \in 1 .. g.n} : g \in Line(f)})
HTTPMessage(f) ==
    CASE f.at = "start"  -> {Loop(f, "headers", 0)}
      [] f.at = "headers" -> HTTPHeaders(f)
      [] f.at = "body"    -> HTTPBody(f)
      [] f.at = "chunks"  -> HTTPChunks(f)
\* A first line of the right words; a response may have no body.
HTTPRequest(f)  == IF f.at = "start" THEN Short(f) \cup
                       (IF f.n = 0 THEN {} ELSE {Loop(g, "headers", 0) : g \in Line(f)}) ELSE HTTPMessage(f)
HTTPResponse(f) == HTTPRequest(f) \cup (IF f.at = "body" THEN Unsized(f, -1) ELSE {})
\* SIP has the same messages with other methods and another protocol word.
SIPRequest(f)  == HTTPRequest(f)
SIPResponse(f) == HTTPResponse(f)

\* imap._parse_imap_list and its sublists, lim the depth.  A string or a literal
\* may claim to go on beyond the data.
IMAPList(f) ==
    LET Skip(k) == [f EXCEPT !.n = Monus(@, k)]
    IN CASE f.at = "start" -> {Loop([f EXCEPT !.n = Monus(@, 1)], "items", 0)}
         [] f.at = "items" /\ f.n = 0 -> IF f.lim = 0 THEN Unsized(f, -1) ELSE {[f EXCEPT !.lim = @ - 1]}
         [] f.at = "items" /\ f.n > 0 ->
              (IF f.lim = 0 THEN Unsized(f, -1) \cup {Skip(k) : k \in 1 .. (f.n + 2)}
                            ELSE {[Skip(1) EXCEPT !.lim = @ - 1]} \cup {Skip(k) : k \in 1 .. (f.n + 1)})
              \cup {[Skip(1) EXCEPT !.lim = @ + 1]}

\* telnet.strip_options: one part after another, lim 1 inside a suboption.
TelnetOptions(f) == IF f.n = 0 THEN Unsized(f, -1) ELSE {[f EXCEPT !.n = @ - 1, !.lim = s] : s \in {0, 1}}

\* AIM.  The declared length is checked and the data kept whole.
FLAP(f)   == IF f.n < 6 THEN Short(f) ELSE LET g == Take(f, 6) IN {Raise(g, "UnpackError")}
    \cup UNION {Keep(Declare(g, 6 + m)) : m \in 0 .. g.n}
AIMTlv(f) == Short(f) \cup UNION {Keep(g) : g \in Complete(f, 4)}
\* The message is a field of no bytes in the header, len() and bytes() have the
\* rest; a length below the header's splits the data from its end.
TNS(f) == IF f.n < 8 THEN Short(f) ELSE LET g == Take(f, 8) IN {
    IF l - 8 > g.n THEN Raise(g, "UnpackError")
    ELSE Declare(Return(Take(g, IF l < 8 THEN Least(8 - l, g.n) ELSE g.n - (l - 8))), l) : l \in 0 .. (f.n + 2)}

\* Headers with raw data after them.
SNAC(f) == Plain(f, 10)
Rx(f)   == Plain(f, 28)
QQPackets == [QQBasicPacket |-> 11, QQ3Packet |-> 46, QQ5Packet |-> 13]
RFBMessages == [RFB |-> 1, SetPixelFormat |-> 19, SetEncodings |-> 3,
    FramebufferUpdateRequest |-> 9, KeyEvent |-> 7,
    PointerEvent |-> 5, FramebufferUpdate |-> 3, SetColourMapEntries |-> 5, CutText |-> 7]
YahooMessages == [YHOO |-> 104, YMSG |-> 20]
=============================================================================
