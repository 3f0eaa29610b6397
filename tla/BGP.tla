--------------------------------- MODULE BGP ---------------------------------
(***************************************************************************)
(* dpkt/bgp.py: messages, path attributes and routes.  Bit lengths of      *)
(* prefixes are counted in the bytes they take.                            *)
(***************************************************************************)
EXTENDS Frames

\* The data is cut to len - 19; a smaller len cuts from its end instead.
BGP(f) == IF f.n < 19 THEN Short(f) ELSE LET g == Take(f, 19) IN
    LET TooSmall == {Declare(Cut(g, m), 18) : m \in Monus(g.n, 19) .. (g.n - 1)}
    IN UNION {Inner(x, {"BGPOpen", "BGPUpdate", "BGPNotification", "BGPKeepalive", "BGPRouteRefresh", "bytes"}) :
                  x \in Cuts(g) \cup TooSmall}

BGPOpen(f)      == ListLeft(f, 10, "BGPParameter")
BGPParameter(f) == Tlv(f, 2, {"BGPAuthentication", "BGPCapability", "bytes"})
BGPAuthentication(f) == Plain(f, 1)
BGPCapabilityUncut(f) == IF f.n < 2 THEN Short(f) ELSE LET g == Take(f, 2)
    IN UNION {Keep(Declare(g, 2 + m)) : m \in Claims(g)}
BGPCapability(f)     == Tlv(f, 2, {"bytes"})

\* Update has no header of its own: a struct.error finds no __hdr_len__.
BGPUpdate(f) ==
    LET Length(label) == (IF f.n < 2 THEN {Raise(f, "AttributeError")} ELSE Loops(Take(f, 2), label))
    IN CASE f.at = "start"      -> Length("withdrawn")
         [] f.at = "withdrawn"  -> WhileLeft(f, "RouteIPV4", Length("attributes"))
         [] f.at = "attributes" -> WhileLeft(f, "BGPAttribute", {Loop(f, "announced", 0)})
         [] f.at = "announced"  -> WhileData(f, IF f.n % 9 = 0 THEN "ExtendedRouteIPV4"
                  ELSE "RouteIPV4", {Return(f)})

\* Header, one or two bytes of length, the data cut to it, a class by type.
BGPAttribute(f) == IF f.n < 2 THEN Short(f) ELSE LET g == Take(f, 2) IN UNION {
    (IF g.n < k THEN Short(g) ELSE UNION {Inner(x,
        {"BGPOrigin", "BGPASPath", "BGPNextHop", "BGPMultiExitDisc", "BGPLocalPref", "BGPAtomicAggregate",
         "BGPAggregator", "BGPCommunities", "BGPOriginatorID", "BGPClusterList", "BGPMPReachNLRI",
         "BGPMPUnreachNLRI", "bytes"}) : x \in Cuts(Take(g, k))}) : k \in {1, 2}}

BGPOrigin(f)          == Plain(f, 1)
BGPNextHop(f)         == Plain(f, 4)
BGPMultiExitDisc(f)   == Plain(f, 4)
BGPLocalPref(f)       == Plain(f, 4)
BGPAtomicAggregate(f) == {Return(f)}
BGPAggregator(f)      == Plain(f, 6)
BGPOriginatorID(f)    == Plain(f, 4)

BGPASPath(f) == IF f.at = "start" THEN {Loop(f, IF f.n = 6 THEN "BGPASPathSegment4" ELSE "BGPASPathSegment", 0)}
                ELSE WhileData(f, f.at, {Return(f)})
BGPASPathSegment(f) == IF f.n < 2 THEN Short(f) ELSE LET g == Take(f, 2) IN
    UNION {(IF g.n < 2 * k THEN Short(g) ELSE {Return(Take(Declare(g, 2 + 2 * k), 2 * k))}) : k \in Claims(g)}
\* As many of the announced AS numbers as the data holds.
BGPASPathSegment4(f) == IF f.n < 2 THEN Short(f) ELSE LET g == Take(f, 2) IN
    {Return(Take(Declare(g, 2 + 4 * k), 4 * Least(k, g.n \div 4))) : k \in Claims(g)}

FourByteValues(f) == IF f.n = 0 THEN {Return(f)}
                     ELSE (IF f.n < 4 THEN {Raise(f, "AttributeError")} ELSE {Loop(Take(f, 4), "list", 0)})
BGPCommunities(f)       == FourByteValues(f)
BGPCommunity(f)         == Plain(f, 4)
BGPReservedCommunity(f) == Plain(f, 4)
BGPClusterList(f)       == FourByteValues(f)

Routes == {"RouteIPV4", "RouteIPV6", "RouteEVPN", "RouteGeneric"}

\* Next hops of 16 bytes for IPv6, else 4, then SNPAs, then routes.
BGPMPReachNLRI(f) ==
    LET Counted(label) == (IF f.n < 1 THEN Short(f) ELSE Loops(Take(f, 1), label))
        Hop(k) == [Take(f, Least(k, f.n)) EXCEPT !.lim = @ - k]
    IN CASE f.at = "start"  -> IF f.n < 3 THEN Short(f) ELSE LET g == Take(f, 3)
        IN UNION {(IF g.n < 1 THEN Short(g) ELSE Loops(Take(g, 1), l))
        : l \in {"hops4", "hops16"}}
         [] f.at = "hops4"  -> IF f.lim > 0 THEN {Hop(4)} ELSE Counted("snpas4")
         [] f.at = "hops16" -> IF f.lim > 0 THEN {Hop(16)} ELSE Counted("snpas16")
         [] f.at = "snpas4" -> Repeat(f, "BGPSNPA", {Loop(f, r, 0) : r \in Routes \ {"RouteIPV6"}})
         [] f.at = "snpas16" -> Repeat(f, "BGPSNPA", {Loop(f, "RouteIPV6", 0)})
         [] f.at \in Routes -> WhileData(f, f.at, {Return(f)})
BGPSNPA(f) == Tlv(f, 1, {"bytes"})
BGPMPUnreachNLRI(f) == IF f.at = "start"
    THEN (IF f.n < 3 THEN Short(f) ELSE {Loop(Take(f, 3), r, 0) : r \in Routes})
                       ELSE WhileData(f, f.at, {Return(f)})

BGPNotification(f) == Plain(f, 2)
BGPKeepalive(f)    == {Return(f)}
BGPRouteRefresh(f) == Plain(f, 4)

\* A prefix of k bytes, filled up to the width of an address; len() counts
\* the k bytes, bytes() has those the filled prefix holds.
Prefix(f, h, width) == IF f.n < h THEN Short(f) ELSE LET g == Take(f, h) IN
    {Declare(Return([g EXCEPT !.len = h + k,
        !.out = h + (IF k > width THEN Least(k, IF g.n > width THEN g.n ELSE width) ELSE k)]),
             h + k) : k \in Claims(g)}
RouteGeneric(f)      == Tlv(f, 1, {"bytes"})
RouteIPV4(f)         == Prefix(f, 1, 4)
ExtendedRouteIPV4(f) == Prefix(f, 5, 4)
RouteIPV6(f)         == Prefix(f, 1, 16)

\* The route data is split at fixed places; the one-byte lengths in it are
\* indexed without a check.  len() is the declared size.
RouteEVPN(f) == IF f.n < 2 THEN Short(f) ELSE LET g == Take(f, 2) IN UNION {
    LET m == Least(k, g.n)
        kept == Declare(Return([g EXCEPT !.len = 2 + k, !.out = 2 + m]), 2 + k)
        AfterIds(t) == m - 8 - (IF t # 3 THEN 10 ELSE 0) - (IF t # 4 THEN 4 ELSE 0)
        AfterMac(t) == IF t = 2 THEN {AfterIds(t) - 1, AfterIds(t) - 7} ELSE {AfterIds(t)}
    IN {IF (t = 2 /\ AfterIds(t) < 1) \/ (t # 1 /\ b < 1) THEN Raise(g, "IndexError") ELSE kept :
            t \in 1 .. 4, b \in UNION {AfterMac(x) : x \in 1 .. 4}} : k \in Claims(g)}
=============================================================================
