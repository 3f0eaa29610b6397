-------------------------------- MODULE OSPF --------------------------------
(***************************************************************************)
(* dpkt/ospf.py: versions 2 and 3, their messages and advertisements.       *)
(***************************************************************************)
EXTENDS Frames

\* The first byte chooses the class the packet is made of.
OSPF(f) == Plain(f, 14) \cup (IF f.n > 0 THEN Inner(f, {"OSPFv2", "OSPFv3"}) ELSE {})

\* The data goes to the class of the message type, if there is any.
Message(f, h, Cs) == IF f.n < h THEN Short(f) ELSE LET g == Take(f, h) IN
    Keep(g) \cup (IF g.n > 0 THEN Inner(g, Cs) ELSE {})
OSPFv2(f) == Message(f, 24, {"OSPFv2Hello", "OSPFv2DBD", "OSPFv2LSR", "OSPFv2LSU", "OSPFv2LSAck"})
OSPFv3(f) == Message(f, 16, {"OSPFv3Hello", "OSPFv3DBD", "OSPFv3LSR", "OSPFv3LSU", "OSPFv3LSAck"})

Hello(f, h) == IF f.n < h THEN Short(f) ELSE Items(Take(f, h), 4)
OSPFv2Hello(f) == Hello(f, 20)
OSPFv3Hello(f) == Hello(f, 20)
OSPFv2DBD(f)   == Plain(f, 8)
OSPFv3DBD(f)   == Plain(f, 8)
OSPFv2LSR(f)   == Items(f, 12)
OSPFv3LSR(f)   == Items(f, 10)
OSPFv2LSAck(f) == Items(f, 20)
OSPFv3LSAck(f) == Items(f, 20)

\* The loop over advertisements: each is cut to its own length, tried as the
\* class of its type and then as a bare header, and the loop goes on where
\* the declared length ends.  typed: bytes needed to read the type.
Advertisement(f, typed, header, Cs) == UNION {
    LET m == Least(k, f.n)
        Kept(l) == [f EXCEPT !.n = Monus(@, k), !.lim = @ - 1, !.len = @ + l, !.out = @ + l]
        lens == UNION {Reports(c, m) : c \in Cs \cup {header}}
        errs == (IF m < 20 THEN {"UnpackError"} ELSE {}) \cup UNION {Errors(c) \ {"UnpackError"} : c \in Cs}
    IN IF m < typed THEN {Raise(f, "AttributeError")}
       ELSE {Kept(l) : l \in lens} \cup {Raise(f, e) : e \in errs} :
    k \in {0, 3, 4, 19, 20, f.n - 24, f.n - 20, f.n, f.n + 2}}
Advertisements(f, typed, header, Cs) ==
    IF f.at = "start" THEN (IF f.n < 4 THEN {Raise(f, "AttributeError")}
        ELSE {Loop(Take(f, 4), "lsas", k) : k \in 0 .. 3})
    ELSE IF f.lim > 0 /\ f.n >= 20 THEN Advertisement(f, typed, header, Cs) ELSE {Return(f)}
OSPFv2LSU(f) == Advertisements(f, 3, "LSAv2Header",
    {"LSARouter", "LSANetwork", "LSASummaryIP", "LSAASExternal"})
OSPFv3LSU(f) == Advertisements(f, 4, "LSAv3Header", {"LSARouterV3", "LSANetworkV3", "LSAInterAreaPrefix",
                    "LSAInterAreaRouter", "LSAASExternalV3", "LSALink", "LSAIntraAreaPrefix"})

LSAv2Header(f) == Plain(f, 20)
LSAv3Header(f) == Plain(f, 20)

\* Links as counted, as far as the data goes.
LSARouter(f) == IF f.n < 24 THEN Short(f) ELSE LET g == Take(f, 24)
    IN {Return(Take(g, 12 * Least(k, g.n \div 12))) : k \in Claims(g)}
LSANetwork(f) == IF f.n < 24 THEN Short(f) ELSE Items(Take(f, 24), 4)
\* Three of the four bytes after the mask are read, and seven written back.
LSASummaryIP(f) == IF f.n < 27 THEN Short(f) ELSE {Return(Take(f, 27))}
\* len() always counts the forwarding address and the tag.
LSAASExternal(f) == IF f.n < 24 THEN Short(f) ELSE LET g == Take(f, 24) IN
    IF g.n = 0 THEN {Raise(g, "IndexError")} ELSE (IF g.n < 4 THEN Short(g) ELSE {Return(Take(Take(g, 4), 8))})

\* A header and four bytes of flags and options, not checked to be there.
LSARouterV3(f) == IF f.n < 20 THEN Short(f) ELSE LET g == Take(f, 20) IN
    IF g.n = 0 THEN {Raise(g, "IndexError")}
    ELSE LET links == 16 * (Monus(g.n, 4) \div 16)
         IN {Return([g EXCEPT !.len = 24 + links, !.out = 20 + Least(g.n, 4) + links])}
LSANetworkV3(f) == IF f.n < 20 THEN Short(f) ELSE LET g == Take(f, 20) IN
    LET routers == 4 * (Monus(g.n, 4) \div 4)
    IN {Return([g EXCEPT !.len = 24 + routers, !.out = 21 + Least(g.n, 3) + routers])}

\* A metric or options, an indexed prefix length, a prefix cut to the data.
LSAInterAreaPrefix(f) == IF f.n < 23 THEN Short(f) ELSE LET g == Take(f, 23) IN
    (IF g.n < 1 THEN {Raise(g, "IndexError")} ELSE LET h == Take(g, 1)
        IN {Return(Take(h, Least(k, h.n))) : k \in Claims(h)})
LSAInterAreaRouter(f) == IF f.n < 20 THEN Short(f) ELSE LET g == Take(f, 20) IN
    IF g.n < 4 THEN {Raise(g, "IndexError")}
    ELSE (IF g.n < 11 THEN Short(g) ELSE {Return(Take(g, 11))})
LSAASExternalV3(f) == IF f.n < 20 THEN Short(f) ELSE LET g == Take(f, 20) IN
    IF g.n \in {0, 4} THEN {Raise(g, "IndexError")}
    ELSE (IF g.n < 5 THEN Short(g) ELSE LET h == Take(g, 5)
        IN {Return(Take(Take(h, Least(k, h.n)), 8)) : k \in Claims(h)})
LSALink(f) == IF f.n < 20 THEN Short(f) ELSE LET g == Take(f, 20) IN
    (IF g.n < 5 THEN {Raise(g, "IndexError")} ELSE LET h == Take(g, 5)
        IN {Return(Take(h, Least(k, h.n))) : k \in Claims(h)})
LSAIntraAreaPrefix(f) ==
    IF f.at = "start" THEN (IF f.n < 32 THEN Short(f) ELSE LET g == Take(f, 32)
        IN {Loop(g, "prefixes", k) : k \in Claims(g)})
    ELSE IF f.lim > 0 /\ f.n > 0
         THEN {[Take(f, 1 + Least(k, f.n - 1)) EXCEPT !.lim = @ - 1] : k \in 0 .. f.n}
         ELSE {Return(f)}
=============================================================================
