------------------------------ MODULE Telephony ------------------------------
(***************************************************************************)
(* dpkt/rtcp.py, rtp.py, stun.py, gtp.py, l2tp.py, radius.py, diameter.py,  *)
(* netflow.py, sccp.py, h225.py, tpkt.py and asn1.py.                       *)
(***************************************************************************)
EXTENDS Frames

\* RTCP.  Parts that keep their header only, and the extended report's blocks.
SRInfo(f) == Exact(f, 24)
RRInfo(f) == Exact(f, 4)
ReportKeepsData(f) == Plain(f, 24)
Report(f) == Exact(f, 24)
XBlocks == [XBlockLoss |-> 4, XBlockDupl |-> 4, XBlockRcvt |-> 4, XBlockRcvr |-> 8,
            XBlockDlrr |-> 0, XBlockStat |-> 36, XBlockVoip |-> 32]

\* len() is the block's header, whatever the block holds.
XReportBlock(f) == IF f.n < 4 THEN Short(f) ELSE LET g == Take(f, 4) IN
    {Raise(g, "ValueError"), Raise(g, "UnpackError"), Return(g)}

\* A block of k words is skipped by the length it declares.  A block type that
\* is not known ends the report, unless it is the first.
XReport(f) ==
    CASE f.at = "start" -> {Loop(f, "blocks", 0)}
      [] f.at = "blocks" /\ f.n = 0 -> {Return(f)}
      [] f.at = "blocks" /\ f.n > 0 ->
             {g \in XReportBlock(f) : g.at = "UnpackError"}
             \cup (IF f.n < 4 THEN {} ELSE
                   {IF f.lim = 0 THEN Raise(f, "ValueError") ELSE Return(f)}
                   \cup {[f EXCEPT !.lim = 1, !.n = Monus(@, 4 + 4 * k), !.len = @ + 4 + 4 * k,
                                   !.out = @ + Least(4 + 4 * k, f.n)] : k \in 0 .. (f.n \div 4)})

\* len() is the declared length.  A sender report's data is cut to what the
\* declared length leaves, from the end if it leaves less than nothing.
RTCP(f) ==
    LET Sized(g)   == {Return([g EXCEPT !.len = g.claim])}
        Reports24(g, label) == {Loop(g, label, cc) : cc \in 0 .. (g.n \div 24 + 1)}
    IN CASE f.at = "start"    -> IF f.n < 4 THEN Short(f) ELSE LET g == Take(f, 4) IN
                {Raise(g, "UnpackError")}
                    \cup {Loop(Declare(g, 4 + 4 * k), "body", 0) : k \in 0 .. (g.n \div 4 + 1)}
         [] f.at = "body"     -> {Raise(f, "UnpackError")}
                \cup (IF f.n < 24 THEN Short(f) ELSE Reports24(Take(f, 24), "sender"))
                \cup (IF f.n < 4 THEN Short(f) ELSE LET g == Take(f, 4)
                    IN Reports24(g, "receiver") \cup {Loop(Cut(g, g.claim - 4), "extended", 0)})
                \cup Sized(Take(f, UpTo(f.n, f.claim - 4)))
         [] f.at = "sender"   -> Repeat(f, "Report", Sized(Take(f, UpTo(f.n, f.claim - f.len))))
         [] f.at = "receiver" -> Repeat(f, "Report", Sized(f))
         [] f.at = "extended" -> UNION {IF g.at = "returned" THEN Sized([g EXCEPT !.out = f.out])
                  \cup Sized(g) ELSE {g} :
                                        g \in Inner(f, {"XReport"})}

RTPUncounted(f) == IF f.n < 12 THEN Short(f) ELSE LET g == Take(f, 12)
    IN UNION {Keep([g EXCEPT !.n = @ - 4 * k, !.out = @ + 4 * k]) : k \in 0 .. (g.n \div 4)}
RTP(f)  == IF f.n < 12 THEN Short(f) ELSE LET g == Take(f, 12)
    IN UNION {Keep(Take(g, Least(4 * cc, g.n))) : cc \in 0 .. 15}
STUN(f) == Plain(f, 20)
\* stun.parse_attrs: attributes padded to four bytes.
STUNAttributes(f) ==
    IF f.n = 0 THEN Unsized(f, -1)
    ELSE IF f.n < 4 THEN {Raise(f, "struct.error")}
    ELSE {[f EXCEPT !.n = Monus(@, 4 + l + ((4 - (l % 4)) % 4))] : l \in 0 .. f.n}

\* GTP.  An element keeps the part of its value that is there; its loop skips
\* it by the length it declares.  Its classes differ in fields they read when
\* the value is long enough.
GTPElement(f, h, e) ==
    IF f.n = 0 THEN {Return([f EXCEPT !.len = h, !.out = h])}
    ELSE (IF f.n < h THEN {Raise(f, e)} ELSE LET g == Take(f, h)
        IN {Declare(Return(Take(g, Least(k, g.n))), h + k) : k \in Claims(g)})
GTPIE(f)   == GTPElement(f, 2, "IndexError")
GTPIEv2(f) == GTPElement(f, 3, "struct.error")

\* Sequence number, N-PDU number, extension type: the optional bytes stay in
\* the data of a control message, which counts them twice.
GTPv1(f) ==
    LET Optional(g) == UNION {UNION {
            IF g.n < s THEN {Raise(g, "UnpackError")} ELSE
            IF g.n < s + b THEN {Raise(g, "IndexError")}
                ELSE {[g EXCEPT !.lim = s + b]} : b \in 0 .. 2} : s \in {0, 2}}
    IN IF f.at = "start"
       THEN (IF f.n < 8 THEN Short(f) ELSE UNION {
                IF Finished(h) THEN {h} ELSE Keep(h)
                    \cup {[h EXCEPT !.at = "ies", !.n = @ - h.lim, !.len = @ + h.lim + h.n,
                        !.out = @ + h.lim + h.n]} :
                h \in Optional(Take(Declare(f, f.n), 8))})
       ELSE IF f.n = 0 THEN {Return(f)}
       ELSE IF f.n = 1 THEN {Raise(f, "IndexError")}
       ELSE {[f EXCEPT !.n = Monus(@, 2 + k)] : k \in 0 .. f.n}
GTPv2(f) ==
    IF f.at = "start" THEN (IF f.n < 12 THEN Short(f) ELSE {Loop(Take(f, 12), "ies", 0)})
    ELSE IF f.n = 0 THEN {Return(f)}
    ELSE (IF f.n < 3 THEN Short(f) ELSE LET g == Take(f, 3) IN {Take(g, Least(k, g.n)) : k \in Claims(g)})
\* The version picks the class; without one that is known there is no header.
GTP(f) == {Raise(f, "AttributeError")} \cup Inner(f, {"GTPv1", "GTPv2"})

\* L2TP.  len() of an attribute is the length it declares.
L2TPAVP(f) ==
    IF f.n = 0 THEN {Return([f EXCEPT !.len = 6, !.out = 6])}
    ELSE (IF f.n < 6 THEN {Raise(f, "struct.error")} ELSE {
        Declare(Return([Take(f, 6) EXCEPT !.len = k, !.out = 6 + Monus(Least(k, f.n), 6)]), k)
            : k \in Claims(f)})

\* parse_avps ends at an attribute that is too short or does not fit.  Then the
\* first message type is looked at, which its attribute has if it fit in.
L2TP(f) ==
    IF f.at = "start"
    THEN (IF f.n < 8 THEN Short(f) ELSE LET g == Take(f, 8) IN Keep(g) \cup
             (IF g.n < 4 THEN {Raise(g, "UnpackError")} ELSE {Loop([g EXCEPT !.n = @ - 4], "avps", 0)}))
    ELSE (IF f.lim = 2 THEN {Raise(f, "AttributeError")} ELSE Unsized(f, -1))
         \cup UNION {{[f EXCEPT !.n = @ - k], [f EXCEPT !.n = @ - k, !.lim = IF @ # 0 THEN @
             ELSE IF k < 8 THEN 2 ELSE 1]} :
                     k \in 6 .. f.n}

\* The attributes are in attrs and no longer part of the packet.
RADIUS(f) ==
    CASE f.at = "start" -> IF f.n < 20 THEN Short(f) ELSE {Loop(Take(Declare(f, f.n), 20), "attrs", 0)}
      [] f.at = "attrs" /\ f.n = 0 -> {Return(f)}
      [] f.at = "attrs" /\ f.n = 1 -> {Raise(f, "IndexError")}
      [] f.at = "attrs" /\ f.n > 1 -> {Return(f)} \cup {[f EXCEPT !.n = Monus(@, k)] : k \in 2 .. (f.n + 2)}

\* A length below the header's cuts the data from its end.
DiameterAVP(f) == IF f.n < 8 THEN Short(f) ELSE LET g == Take(f, 8) IN UNION {
    {Declare(Return(Take(g, UpTo(g.n, l - 8))), l),
     IF g.n < 4 THEN Raise(g, "UnpackError")
     ELSE Declare(Return(Take(g, 4 + Monus(UpTo(g.n, l - 8), 4))), l)} : l \in 0 .. (f.n + 2)}
Diameter(f) ==
    IF f.at = "start"
    THEN (IF f.n < 20 THEN Short(f)
        ELSE {Loop(Declare([Take(f, 20) EXCEPT !.n = UpTo(@, l - 20)], l), "avps", 0)
        : l \in 0 .. (f.n + 2)})
    ELSE WhileData(f, "DiameterAVP", {Return(f)})

\* NetFlow.  len() is the records' size times the header's count, if there is
\* a record; bytes() counts them itself.
NetflowBase(f, h, record, size) ==
    LET done == IF f.len = h THEN Unsized(f, h)
                ELSE {Return([f EXCEPT !.len = h + k * size]) : k \in 0 .. 3}
    IN IF f.at = "start" THEN ListData(f, h, record) ELSE WhileData(f, record, done)
Netflow1(f) == NetflowBase(f, 16, "Netflow1Record", 48)
Netflow5(f) == NetflowBase(f, 24, "Netflow5Record", 48)
Netflow6(f) == NetflowBase(f, 24, "Netflow6Record", 52)
Netflow7(f) == NetflowBase(f, 24, "Netflow7Record", 52)
Netflow1Record(f) == Exact(f, 48)
Netflow5Record(f) == Exact(f, 48)
Netflow6Record(f) == Exact(f, 52)
Netflow7Record(f) == Exact(f, 52)

\* SCCP.  The message has a field of no bytes in the header, so len() and
\* bytes() have only what comes after it; one that does not parse stays raw.
SCCPMessages == [ActivateCallPlane |-> 4, CallInfo |-> 204, CallState |-> 12, ClearPromptStatus |-> 8,
    CloseReceiveChannel |-> 8, DisplayPromptStatus |-> 44, DisplayText |-> 36, KeypadButton |-> 4,
    OpenReceiveChannel |-> 24, OpenReceiveChannelAck |-> 16, SelectStartKeys |-> 16, SetLamp |-> 12,
    SetSpeakerMode |-> 4, StartMediaTransmission |-> 60, StartTone |-> 4, StopMediaTransmission |-> 8]
SCCP(f) == IF f.n < 12 THEN Short(f) ELSE LET g == Take(f, 12) IN {
    IF l - 4 > g.n THEN Raise(g, "UnpackError")
    ELSE Declare(Return(Take(g, IF l < 4 THEN Least(4 - l, g.n) ELSE g.n - (l - 4))), l + 8)
        : l \in 0 .. (g.n + 5)}

TPKT(f) == Plain(f, 4)
\* The declared length is checked and then not used.  The reference and the
\* message type are written by bytes() and not counted by len().
H225(f) ==
    IF f.at = "start"
    THEN (IF f.n < 4 THEN Short(f) ELSE LET g == Take(f, 4) IN {Raise(g, "UnpackError")}
        \cup (IF g.n < 2 THEN Short(g) ELSE LET h == Take(g, 2) IN UNION {
             IF h.n <= k THEN {Raise(h, "UnpackError")}
             ELSE {Declare(Loop([h EXCEPT !.n = @ - k - 1, !.out = @ + k + 1], "list", 0), l)
                 : l \in 4 .. f.n} : k \in Claims(h)}))
    ELSE WhileData(f, "H225IE", {Return(f)})
\* One byte, or a length of one or two bytes and as much of it as there is.
H225IE(f) == IF f.n < 1 THEN Short(f) ELSE LET g == Take(f, 1) IN {Return(g)} \cup UNION {
    (IF g.n < h THEN Short(g) ELSE LET x == Take(g, h) IN {
        Declare(Return([x EXCEPT !.len = @ + k, !.out = @ + Least(k, x.n)]), 1 + h + k)
            : k \in Claims(x)}) : h \in {1, 2}}

\* asn1.decode.  A constructed element decodes all that is left and is then
\* skipped by its length; one of indefinite length does so twice.
ASN1(f) ==
    LET Nested(g) == {Raise(g, e) : e \in Errors("ASN1")} \cup {[g EXCEPT !.n = Monus(@, k)] : k \in Claims(g)}
        Value(g)  == {Raise(g, e) : e \in {"ValueError", "IndexError", "UnpackError"}}
                     \cup (IF g.n < 4 THEN {Raise(g, "struct.error")} ELSE {})
                     \cup {[g EXCEPT !.n = Monus(@, k)] : k \in Claims(g)}
        Long(g)   == {Raise(g, "UnpackError"), IF g.n = 2 THEN Raise(g, "IndexError")
            ELSE [g EXCEPT !.n = @ - 3]}
                     \cup {IF g.n < 2 + c THEN Raise(g, "struct.error")
                         ELSE [g EXCEPT !.n = @ - 2 - c] : c \in {2, 4}}
    IN IF f.n = 0 THEN Unsized(f, -1)
       ELSE IF f.n = 1 THEN {Raise(f, "IndexError")}
       ELSE UNION {IF Finished(g) THEN {g} ELSE Nested(g) \cup Value(g) :
                   g \in {[f EXCEPT !.n = @ - 2]} \cup Long(f)}
=============================================================================
