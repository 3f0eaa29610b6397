------------------------------- MODULE Layers -------------------------------
(***************************************************************************)
(* The link, internet and transport layers: dpkt/ethernet.py, llc.py,       *)
(* sll.py, sll2.py, loopback.py, ppp.py, pppoe.py, arp.py, ipx.py, aoe*.py, *)
(* ip.py, ip6.py, ah.py, esp.py, icmp.py, icmp6.py, igmp.py, gre.py,        *)
(* vxlan.py, udp.py, tcp.py and sctp.py.                                    *)
(***************************************************************************)
EXTENDS Frames

\* What __load_types and __load_protos register.
EtherTypes == {"EDP", "IP", "ARP", "AOE", "CDP", "DTP", "IPX", "IP6", "PPP", "PPPoE", "ISIS", "Ethernet"}
IPProtos   == {"IP", "ICMP", "IGMP", "TCP", "UDP", "IP6", "GRE", "ESP", "AH", "ICMP6", "EIGRP", "OSPF",
               "PIM", "VRRP", "L2TP", "STP", "ISIS", "SCTP"}

\* A payload of a registered class; raw if it is not registered or does not parse.
Payload(f, Cs) == TryInner(f, Cs \cup {"bytes"}, {"UnpackError", "KeyError"})

\* Classes with a header and no unpack() of their own.
ARP(f)      == Plain(f, 28)
IPX(f)      == Plain(f, 30)
AOEATA(f)   == Plain(f, 12)
AOECFG(f)   == Plain(f, 8)
ESP(f)      == Plain(f, 8)
IGMP(f)     == Plain(f, 8)
UDP(f)      == Plain(f, 8)
VXLAN(f)    == Plain(f, 8)
ICMPEcho(f) == Plain(f, 4)
\* Those that keep no data.
EthernetTags == [MPLSlabel |-> 4, VLANtag8021Q |-> 4, VLANtagISL |-> 26]

\* VLAN tags replace those found before.
Tagged(f, k) == [Take(f, k) EXCEPT !.len = @ - f.lim, !.out = @ - f.lim, !.lim = k]
\* Labels too; bytes() writes no VLAN tags beside labels, len() counts both.
Labelled(f, k) == [Take(f, k) EXCEPT !.len = IF f.at = "labelled" THEN @ - f.lim ELSE @,
                                     !.out = @ - f.lim, !.lim = k]

\* What no class parsed stays raw; __init__ tries it once more, with the type
\* the last tag or label gave.
Raw(f, g, label) ==
    Keep(g) \cup (IF f.at = "typed" /\ (label = "tagged" \/ g.n \in 1 .. 13) THEN {Loop(g, label, g.lim)} ELSE {})

\* _unpack_data with the next type a VLAN's or a label's.
UnpackTags(f) == UNION {
    IF f.n < 4 * k THEN {Raise(f, "UnpackError")}
    ELSE UNION {{h \in Inner(g, EtherTypes) : h.at \notin {"UnpackError", "KeyError"}}
        \cup Raw(f, g, "tagged") :
                g \in {Tagged(f, 4 * k)}} : k \in 1 .. 2}
UnpackLabels(f) == {Raise(f, "UnpackError")} \cup UNION {
    IF f.n = 4 * k THEN {Raise(f, "IndexError")}
    ELSE UNION {{h \in Inner(g, {"IP", "IP6", "Ethernet"}) : h.at # "UnpackError"} \cup Raw(f, g, "labelled") :
                g \in LET x == Labelled(f, 4 * k)
                      IN {x} \cup IF x.n >= 14 THEN {[x EXCEPT !.n = @ - 4]} ELSE {}} : k \in 1 .. (f.n \div 4)}

\* 802.3: the payload is cut to the length; padding, checksum and trailer are
\* kept beside it.
Unpack8023(f) == UNION {{IF g.len < 0 THEN g
    ELSE Take(g, Monus(f.n, e)) : g \in Inner([f EXCEPT !.n = Least(@, e)], {"LLC"})}
    : e \in Claims(f)}

\* The type or the length, an ISL header, or IPX without either.
EthernetStart(f) == IF f.n < 14 THEN Short(f) ELSE LET g == Take(f, 14) IN
    {Loop(g, "typed", g.lim), Loop(g, "8023", g.lim),
     IF f.n < 26 THEN Raise(g, "UnpackError") ELSE Tagged(f, 26)}
    \cup (IF g.n >= 2 THEN Inner([g EXCEPT !.n = @ - 2], {"IPX"}) ELSE {})

\* __init__ asks whether there is data, which is the payload's len().
Ethernet(f) ==
    {IF g.at = "returned" /\ g.len < 0 THEN Raise(g, "AttributeError") ELSE g :
     g \in CASE f.at = "start"    -> EthernetStart(f)
             [] f.at = "typed"    -> Payload(f, EtherTypes) \cup UnpackTags(f) \cup UnpackLabels(f)
             [] f.at = "8023"     -> Unpack8023(f)
             [] f.at = "tagged"   -> UnpackTags(f) \cup UnpackLabels(f)
             [] f.at = "labelled" -> UnpackLabels(f)}

LLC(f) == IF f.n < 3 THEN Short(f) ELSE LET g == Take(f, 3)
    IN (IF g.n < 5 THEN Short(g) ELSE Payload(Take(g, 5), EtherTypes))
              \cup Inner(g, {"IP", "IPX", "STP", "ISIS", "bytes"})
SLL(f)  == IF f.n < 16 THEN Short(f) ELSE Payload(Take(f, 16), EtherTypes)
SLL2(f) == IF f.n < 20 THEN Short(f) ELSE Payload(Take(f, 20), EtherTypes)
Loopback(f) == IF f.n < 4 THEN Short(f) ELSE Inner(Take(f, 4), {"IP", "IP6", "Ethernet"})
AOE(f)  == IF f.n < 10 THEN Short(f) ELSE Payload(Take(f, 10), {"AOEATA", "AOECFG"})

\* A protocol of two bytes is not counted by len(), and written by bytes() as
\* one byte if it is below 256.
PPPHeader(f, h) == IF f.n < h THEN Short(f) ELSE LET g == Take(f, h) IN Payload(g, {"IP", "IP6"}) \cup
    (IF g.n = 0 THEN {Raise(g, "UnpackError")}
     ELSE UNION {Payload([g EXCEPT !.n = @ - 1, !.out = @ + o], {"IP", "IP6"}) : o \in {0, 1}})
PPP(f)      == PPPHeader(f, 3)
PPPoEPPP(f) == PPPHeader(f, 1)
PPPoE(f)    == IF f.n < 6 THEN Short(f) ELSE Payload(Take(f, 6), {"PPPoEPPP"})

\* Options as the header length says, then the payload cut to the total length
\* unless that is zero.
IP(f) ==
    CASE f.at = "start"   -> IF f.n < 20 THEN Short(f) ELSE LET g == Take(f, 20) IN {Raise(g, "UnpackError")}
                                 \cup {Loop(Take(g, Least(4 * o, g.n)), "options", 4 * o)
                                     : o \in 0 .. Least(10, g.n \div 4 + 1)}
      [] f.at = "options" -> {Loop(f, "payload", 0)}
                             \cup {Loop(Cut(f, Monus(l, 20 + f.lim)), "payload", 0) : l \in 1 .. (f.n0 + 2)}
      [] f.at = "payload" -> Payload(f, IPProtos)

\* An extension header h is kept as h[1] bytes and skipped by its length h[2].
IP6Extensions(f) ==
    (IF f.n < 4  THEN {} ELSE {<<l, l, "options">> : l \in 4 .. f.n})
    \cup (IF f.n < 8 THEN {} ELSE {<<8, 8, "fragment">>, <<f.n, f.n, "esp">>}
            \cup {<<8 + Least(16 * (l \div 2), f.n - 8), 8 * l + 8, "routing">> : l \in 0 .. (f.n \div 8)})
    \cup (IF f.n < 12 THEN {} ELSE {<<f.n, 4 * l + 8, "ah">> : l \in 0 .. (f.n \div 4)})

\* lim: 0 no extension header yet, 1 and 2 the first one was a fragment header
\* and the last one was too (1) or not (2), 3 the first one was another.
\* Then frag_off is asked of the last one if the first was a fragment header.
IP6(f) ==
    LET After(l, kind) == IF l = 3 \/ (l = 0 /\ kind # "fragment") THEN 3 ELSE IF kind = "fragment" THEN 1 ELSE 2
        End(g) == IF g.lim = 2 THEN {Raise(g, "AttributeError")} ELSE Payload(g, IPProtos)
        Ext(h) == [f EXCEPT !.n = Monus(@, h[2]), !.len = @ + h[1], !.out = @ + h[1], !.lim = After(@, h[3])]
    IN CASE f.at = "start" -> IF f.n < 40 THEN Short(f) ELSE LET g == Take(f, 40)
        IN {Loop(Cut(g, p), "headers", 0) : p \in 1 .. g.n}
                                                    \cup {Loop(g, "headers", 0)}
         [] f.at = "headers" -> {Loop(f, "payload", f.lim), Raise(f, "UnpackError")} \cup
                {IF h[3] # "esp" THEN Ext(h)
                 ELSE IF Ext(h).lim = 2 THEN Raise(f, "AttributeError")
                 ELSE Return([Ext(h) EXCEPT !.out = -1]) : h \in IP6Extensions(f)}
         [] f.at = "payload" -> End(f)

\* Options in units of eight bytes.  An option that claims to go beyond the
\* buffer ends the loop.
IP6OptsHeader(f) ==
    CASE f.at = "start" -> IF f.n < 2 THEN Short(f)
             ELSE {Loop(Declare(Take(f, 2), 8 * k), "options", 8 * k - 2)
             : k \in 1 .. (f.n \div 8 + 1)}
      [] f.at = "options" /\ f.lim <= 0 -> {Return([f EXCEPT !.len = Least(f.claim, f.n0), !.out = Least(f.claim, f.n0)])}
      [] f.at = "options" /\ f.lim > 0  ->
             IF f.n = 0 THEN {Raise(f, "UnpackError")}
             ELSE {[f EXCEPT !.n = @ - 1, !.lim = @ - 1]}
                  \cup (IF f.n = 1 THEN {Raise(f, "UnpackError")}
                        ELSE {[f EXCEPT !.n = Monus(@, k + 2), !.lim = @ - k - 2] : k \in 0 .. f.lim})
\* Addresses of 16 bytes in a header counted in units of 8.
IP6RoutingHeader(f) == IF f.n < 8 THEN Short(f) ELSE LET g == Take(f, 8) IN
    {Declare(Return(Take(g, Least(16 * (l \div 2), g.n))), 8 * l + 8) : l \in 0 .. (g.n \div 8 + 1)}
IP6FragmentHeader(f) == Exact(f, 8)
IP6AHHeader(f)       == Plain(f, 12)
IP6ESPHeader(f)      == Plain(f, 8)

AH(f) == IF f.n < 12 THEN Short(f) ELSE LET g == Take(f, 12)
    IN UNION {Payload(Take(g, Least(4 * l, g.n)), IPProtos) : l \in 0 .. (g.n \div 4 + 1)}
ICMP(f)       == IF f.n < 4 THEN Short(f) ELSE Payload(Take(f, 4), {"ICMPEcho", "ICMPQuote"})
ICMPQuote(f)  == IF f.n < 4 THEN Short(f) ELSE Inner(Take(f, 4), {"IP"})
ICMP6(f)      == IF f.n < 4 THEN Short(f) ELSE Payload(Take(f, 4), {"ICMPEcho", "ICMP6Error"})
ICMP6Error(f) == IF f.n < 4 THEN Short(f) ELSE Inner(Take(f, 4), {"IP6"})

\* Optional fields as the flags say, source routes up to one of no length.
GRE(f) ==
    CASE f.at = "start"  -> IF f.n < 4 THEN Short(f) ELSE LET g == Take(f, 4)
             IN UNION {(IF g.n < 4 * k THEN Short(g) ELSE LET h == Take(g, 4 * k) IN
                                {Loop(h, "payload", 0)}
                                    \cup (IF k > 0 THEN {Loop(h, "routes", 0)} ELSE {}))
                                    : k \in 0 .. 4}
      [] f.at = "routes" -> UNION {IF Finished(g) THEN {g}
                                   ELSE (IF g.len = f.len + 4 THEN {Loop(g, "payload", 0)} ELSE {})
                                        \cup (IF g.len > f.len + 4 \/ g.n = 0 THEN {g} ELSE {}) :
                                   g \in Element(f, "SRE")}
      [] f.at = "payload" -> Payload(f, EtherTypes)
SRE(f) == IF f.n < 4 THEN Short(f) ELSE UNION {Keep(x) : x \in Cuts(Take(f, 4))}

TCP(f) == IF f.n < 20 THEN Short(f) ELSE LET g == Take(Declare(f, f.n), 20)
    IN {Raise(g, "UnpackError")} \cup Keep(g)
\* tcp.parse_opts: the end and no-operation options have one byte.
TCPOptionsUnguarded(f) ==
    IF f.n = 0 THEN Unsized(f, -1)
    ELSE {[f EXCEPT !.n = @ - 1], IF f.n = 1 THEN Raise(f, "IndexError") ELSE [f EXCEPT !.n = @ - 2]}
TCPOptions(f) ==
    IF f.n = 0 THEN Unsized(f, -1)
    ELSE {[f EXCEPT !.n = @ - 1]} \cup
         (IF f.n = 1 THEN Unsized(f, -1)
             ELSE {[f EXCEPT !.n = Monus(@, IF l > 2 THEN l ELSE 2)] : l \in Claims(f)})

\* len() of a chunk is the length it claims, and padding it may have.
Chunk(f) == IF f.n < 4 THEN Short(f) ELSE LET g == Take(f, 4) IN UNION {
    LET data == UpTo(g.n, l - 4)
        Kept(pad) == Declare(Return([g EXCEPT !.len = l + pad, !.out = 4 + data + pad]), l + pad)
    IN {Kept(0)} \cup (IF l % 4 = 0 THEN {} ELSE {Kept(Least(4 - (l % 4), g.n - data))}) : l \in 0 .. (f.n + 2)}
\* A chunk that claims no length ends the loop.
SCTP(f) ==
    IF f.at = "start" THEN (IF f.n < 12 THEN Short(f) ELSE {Loop(Take(f, 12), "chunks", 0)})
    ELSE IF f.n = 0 THEN {Return(f)}
    ELSE {IF g.n = f.n /\ ~Finished(g) THEN Return(g) ELSE g : g \in Element(f, "Chunk")}
=============================================================================
