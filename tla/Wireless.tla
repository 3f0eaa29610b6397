------------------------------ MODULE Wireless ------------------------------
(***************************************************************************)
(* dpkt/ieee80211.py, ieee80211_ie.py and radiotap.py.                      *)
(***************************************************************************)
EXTENDS Frames

\* Classes that are a header and the data after it: the header's bytes.
ControlFrames == [RTS |-> 12, CTS |-> 6, ACK |-> 6, CFEnd |-> 12]
ManagementFrames == [MGMT_Frame |-> 20, Beacon |-> 12, Disassoc |-> 2, Assoc_Req |-> 4,
    Assoc_Resp |-> 6, Reassoc_Req |-> 10,
    Auth |-> 4, Deauth |-> 2]
BlockAckActions == [BlockAckActionRequest |-> 7, BlockAckActionResponse |-> 7, BlockAckActionDelba |-> 4]
DataFrames == [Data |-> 20, DataFromDS |-> 20, DataToDS |-> 20, DataInterDS |-> 26, QoS_Data |-> 2]
Elements80211 == [FH |-> 7, DS |-> 3, CF |-> 8, IBSS |-> 4]

\* field = C(self.data); self.data = field.data: the fields' h bytes are in
\* an attribute and no longer part of the packet.  h is one of hs.
Strip(f, hs) == {[f EXCEPT !.n = @ - h] : h \in {x \in hs : x <= f.n}}

\* self.unpack_ies: each element is parsed by its own class on all that is
\* left, and skipped by the length it declares; the data stays as it was.
UnpackIEs(f) ==
    IF f.n < 2 THEN {Return([f EXCEPT !.len = @ + f.lim, !.out = @ + f.lim])}
    ELSE {[f EXCEPT !.n = Monus(@, k)] : k \in 2 .. (f.n + 2)}
             \cup (IF f.n < 8 THEN {Raise(f, "UnpackError")} ELSE {})

\* Frame control, the checksum at the end if there is one, the addresses and
\* fields of the frame type, the elements of management frames.  Types and
\* subtypes that no table holds are an UnpackError.
IEEE80211(f) ==
    LET Checked(g) == {g} \cup (IF g.n < 4 THEN {Raise(g, "UnpackError")} ELSE {[g EXCEPT !.n = @ - 4]})
        Management(g) == UNION {Keep(h) \cup
            {Loop(x, "ies", x.n) : x \in Strip(h, {12, 4, 2, 6, 10, 9, h.n})} : h \in Strip(g, {20})}
        Control(g) == UNION {Keep(h) : h \in Strip(g, {12, 6, 16, 24, 144})}
        DataFrame(g) == UNION {Keep(h) : h \in Strip(g, {20, 22, 26, 28})}
    IN IF f.at = "start"
       THEN (IF f.n < 4 THEN Short(f) ELSE LET h == Take(Declare(f, f.n), 4) IN {Raise(h, "UnpackError")} \cup
                UNION {IF Finished(g) THEN {g} ELSE Management(g) \cup Control(g)
                    \cup DataFrame(g) : g \in Checked(h)})
       ELSE UnpackIEs(f)
\* ieee80211_ie.unpack_ies: up to the first element that does not fit.
UnpackElements(f) == {Return([f EXCEPT !.len = -1, !.out = -1])} \cup {[f EXCEPT !.n = @ - k] : k \in 2 .. f.n}

BlockAckReq(f) == Plain(f, 16)
BlockAck(f) == IF f.n < 16 THEN Short(f) ELSE LET g == Take(f, 16) IN Lacking(g, 128)
    \cup UNION {Keep(h) : h \in Strip(g, {8, 128})}
ProbeReq(f) == IF f.at = "start" THEN {Loop(f, "ies", 0)} ELSE UnpackElements(f)
Action(f) == IF f.n < 2 THEN Short(f) ELSE LET g == Take(f, 2) IN {Raise(g, "UnpackError")}
    \cup UNION {Keep(h) : h \in Strip(g, {7, 4})}
IE(f)  == Plain(f, 2)
TIM(f) == Plain(f, 6)

\* An element keeps its value in info and no data: len() and bytes() have the
\* two bytes before it only.  A subclass reads r[2] bytes of info once it has
\* seen that there are r[1].
Element80211(f, reads) == IF f.n < 2 THEN Short(f) ELSE LET g == Take(f, 2) IN
    {LET info == Least(k, g.n)
     IN IF \E r \in reads : info \in r[1] .. (r[2] - 1) THEN Raise(g, "IndexError")
        ELSE Declare(Return(g), 2 + k) : k \in 0 .. (g.n + 1)}
IEEE80211IE(f)                 == Element80211(f, {})
IEEE80211IEExtCap(f)           == Element80211(f, {})
IEEE80211IEHECapability(f)     == Element80211(f, {<<1, 1>>, <<7, 7>>, <<18, 18>>})
IEEE80211IEHEOperation(f)      == Element80211(f, {<<1, 1>>, <<7, 7>>})
IEEE80211IEHESpatialReuse(f)   == Element80211(f, {<<1, 1>>})
IEEE80211IEHEBSSColorChange(f) == Element80211(f, {<<3, 3>>})
IEEE80211IEHETWT(f)            == Element80211(f, {<<3, 3>>})
IEEE80211IEHE6GHzBand(f)       == Element80211(f, {<<1, 1>>, <<6, 6>>})
IEEE80211IEHEMCSNSS(f)         == Element80211(f, {<<1, 1>>})
IEEE80211IEEHTCapability(f)    == Element80211(f, {<<1, 1>>, <<3, 3>>, <<12, 12>>})
IEEE80211IEEHTOperation(f)     == Element80211(f, {<<1, 1>>, <<4, 4>>})
IEEE80211IEEHTTIDLink(f)       == Element80211(f, {<<1, 1>>})
IEEE80211IEMLElement(f)        == Element80211(f, {<<1, 1>>, <<3, 3>>})
IEEE80211IEHTCapability(f)     == Element80211(f, {<<26, 26>>})
IEEE80211IEHTInfo(f)           == Element80211(f, {<<22, 22>>})
IEEE80211IEVHTCapability(f)    == Element80211(f, {<<12, 8>>})
IEEE80211IEVHTOperation(f)     == Element80211(f, {<<5, 5>>})
IEEE80211IEERP(f)              == Element80211(f, {<<1, 1>>})

\* Cipher suites: counts are taken as they come and each suite is checked to
\* be there; the count of the second list is read where the first one ended.
IEEE80211IERSNUnchecked(f) ==
    IF f.at = "start" THEN (IF f.n < 2 THEN Short(f)
        ELSE {Loop([Take(f, 2) EXCEPT !.n = Monus(@, 8)], "pairwise", 0)})
    ELSE {Return([f EXCEPT !.n = @ - 2])}
IEEE80211IERSN(f) ==
    LET Suites(next) == IF f.lim > 0 /\ f.n >= 4 THEN {[f EXCEPT !.n = @ - 4, !.lim = @ - 1]} ELSE next
    IN CASE f.at = "start" -> IF f.n < 2 THEN Short(f) ELSE LET g == Take(f, 2) IN UNION {
              LET h == Declare(Cut(g, k), 2 + k)
              IN IF h.n < 8 THEN {Return(h)} ELSE {Loop([h EXCEPT !.n = @ - 8], "pairwise", p) : p \in 0 .. 3} :
              k \in 0 .. (g.n + 1)}
         [] f.at = "pairwise" -> Suites(IF f.n < 2 THEN {Return(f)}
                  ELSE {Loop([f EXCEPT !.n = @ - 2], "akm", p) : p \in 0 .. 3})
         [] f.at = "akm" -> Suites({Return(f)})
\* Entries of a fixed size after the first bytes of info.
ElementList(f, skip, size) ==
    IF f.at = "start" THEN (IF f.n < 2 THEN Short(f) ELSE LET g == Take(f, 2) IN
        {LET h == Declare(Cut(g, k), 2 + k)
            IN Loop([h EXCEPT !.n = Monus(@, skip)], "list", 0) : k \in 0 .. (g.n + 1)})
    ELSE IF f.n >= size THEN {[f EXCEPT !.n = @ - size]} ELSE {Return(f)}
IEEE80211IECountry(f) == ElementList(f, 3, 3)
IEEE80211IEWMM(f)     == ElementList(f, 7, 4)

\* Radiotap fields in the order of their bits: size and alignment.
RadiotapFields == << <<8, 8>>, <<1, 1>>, <<1, 1>>, <<4, 2>>, <<2, 1>>, <<1, 1>>, <<1, 1>>, <<2, 2>>, <<2, 2>>,
                     <<2, 2>>, <<1, 1>>, <<1, 1>>, <<1, 1>>, <<1, 1>>, <<2, 2>>, <<8, 4>> >>
RadiotapHeaders == [Antenna |-> 1, AntennaNoise |-> 1, AntennaSignal |-> 1, Channel |-> 4,
    FHSS |-> 2, RadiotapFlags |-> 1,
    LockQuality |-> 2, RxFlags |-> 2, Rate |-> 1, TSFT |-> 8, TxAttenuation |-> 2, DbTxAttenuation |-> 2,
    DbAntennaNoise |-> 1, DbAntennaSignal |-> 1, DbmTxPower |-> 1, ChannelPlus |-> 8]

\* Presence words, indexed as they come, as long as each announces another;
\* the fields they name, each at its alignment; then the frame, which starts
\* where the header's own length field says.
Radiotap(f) ==
    CASE f.at = "start"   -> IF f.n < 4 THEN Short(f) ELSE LET g == Take(Declare(f, f.n), 4) IN
             IF g.n < 4 THEN {Raise(g, "IndexError")} ELSE {Loop([g EXCEPT !.n = @ - 4], "present", 0)}
      [] f.at = "present" -> {Loop(f, "fields", 1), IF f.n < 4 THEN Raise(f, "IndexError")
               ELSE [f EXCEPT !.n = @ - 4]}
      [] f.at = "fields" /\ f.lim <= 16 ->
             LET size == RadiotapFields[f.lim][1]
                 ali  == RadiotapFields[f.lim][2]
                 padding == (ali - ((f.n0 - f.n) % ali)) % ali
             IN {[f EXCEPT !.lim = @ + 1],
                 IF f.n < padding + size THEN Raise(f, "UnpackError")
                 ELSE [f EXCEPT !.lim = @ + 1, !.n = @ - padding - size]}
      [] f.at = "fields" /\ f.lim > 16 -> {Loop([f EXCEPT !.n = m], "frame", 0) : m \in 0 .. f.n0}
      [] f.at = "frame"   -> IF f.n = 0 THEN {Return(f)} ELSE Inner(f, {"IEEE80211"})
=============================================================================
