------------------------------- MODULE Routing -------------------------------
(***************************************************************************)
(* dpkt/isis.py, eigrp.py, rip.py, mrt.py, pim.py, vrrp.py, hsrp.py.        *)
(***************************************************************************)
EXTENDS Frames

ISIS(f) == IF f.n < 8 THEN Short(f) ELSE LET g == Take(f, 8) IN Keep(g) \cup
    (IF g.n > 0 THEN {[h EXCEPT !.len = -1, !.out = -1] :
        h \in Inner(g, {"ISISLANHelloL1", "ISISP2PHello", "ISISLSPL1", "ISISCSNPL1", "ISISPSNPL1"})}
     ELSE {})

\* TLVs cut out at their declared length, until one does not fit.
ISISTLVs(f) == Unsized(f, -1) \cup {[f EXCEPT !.n = @ - k] : k \in 2 .. f.n}
\* Fields read up to byte `packed` by struct, one byte indexed after them
\* where there is one, TLVs from byte h on.
PDU(f, packed, indexed, h) ==
    IF f.at # "start" THEN ISISTLVs(f)
    ELSE IF f.n < packed THEN {Raise(f, "AttributeError")}
    ELSE IF indexed /\ f.n = packed THEN {Raise(f, "IndexError")}
    ELSE {Loop([f EXCEPT !.n = Monus(@, h)], "tlvs", 0)}
ISISLANHelloL1(f) == IF f.n0 = 0 THEN {Raise(f, "IndexError")} ELSE PDU(f, 11, TRUE, 19)
ISISP2PHello(f)   == IF f.n0 = 0 THEN {Raise(f, "IndexError")} ELSE PDU(f, 11, TRUE, 12)
ISISLSPL1(f)      == PDU(f, 18, TRUE, 19)
ISISCSNPL1(f)     == PDU(f, 2, FALSE, 26)
ISISPSNPL1(f)     == PDU(f, 2, FALSE, 10)

\* A TLV keeps the part of its value that is there; an empty buffer leaves
\* the defaults.  The value is then cut into entries of k bytes and more.
ISISValue(f, k, Extra) ==
    CASE f.at = "start" /\ f.n = 0 -> {Return([f EXCEPT !.len = 2, !.out = 2])}
      [] f.at = "start" /\ f.n = 1 -> {Raise(f, "IndexError")}
      [] f.at = "start" /\ f.n > 1 -> {LET v == Least(l, f.n - 2)
          IN Declare([f EXCEPT !.at = "value", !.n = v, !.len = 2 + v, !.out = 2 + v], 2 + l) : l \in 0 .. f.n}
      [] f.at = "value" -> IF f.n < k THEN {Return(f)} ELSE {[f EXCEPT !.n = Monus(@, k + x)] : x \in Extra}
ISISTLV(f)           == ISISValue(f, 1, 1 .. f.n)
ISISNeighborsTLV(f)  == ISISValue(f, 6, {0})
ISISEISReachTLV(f)   == ISISValue(f, 11, 0 .. (f.n - 9))
ISISIPIntReachTLV(f) == ISISValue(f, 12, {0})

\* The opcodes' classes are given the data even when it is empty.
EIGRP(f) == IF f.n < 20 THEN Short(f) ELSE LET g == Take(f, 20) IN Keep(g) \cup
    {[h EXCEPT !.len = -1, !.out = f.n0] : h \in Inner(g, {"EIGRPMessage"})}

\* Hello, Update, Query, Reply, SIAQuery and SIAReply: TLVs up to the first
\* that is below four bytes or does not fit; bytes() gives the buffer back.
EIGRPMessage(f) == Unsized(f, f.n0)
    \cup {[f EXCEPT !.n = @ - k] : k \in 4 .. f.n}
    \cup (IF f.n >= 38 THEN {Raise(f, "IndexError")} ELSE {})

\* Not a Packet: struct.error leaves the constructor as it is.  len() is the
\* declared length, whatever the buffer holds.
EIGRPNoValue(f) == CASE f.n = 0       -> {Return([f EXCEPT !.len = 4, !.out = 4])}
                     [] f.n \in 1 .. 3 -> {Raise(f, "struct.error")}
                     [] OTHER          -> {}
EIGRPValue(f) == IF f.n < 4 THEN {} ELSE {
    LET v == Least(Monus(k, 4), f.n - 4)
    IN [f EXCEPT !.at = "value", !.n = v, !.len = k, !.out = 4 + v, !.claim = k] : k \in 0 .. (f.n + 2)}
EIGRPTLV(f) == EIGRPNoValue(f) \cup {Return(g) : g \in EIGRPValue(f)}

\* 21 bytes and a prefix, then metrics up to one that is short or does not fit.
EIGRPInternalRouteTLV(f) ==
    IF f.at = "start"
    THEN EIGRPNoValue(f) \cup UNION {
             IF g.n < 26 THEN {Return(g)} ELSE {[g EXCEPT !.n = Monus(@, 21 + p)] : p \in 0 .. (f.n - 19)} :
             g \in EIGRPValue(f)}
    ELSE {Return(f)} \cup {[f EXCEPT !.n = @ - k] : k \in 4 .. f.n}
\* The extension after the prefix: 13 bytes are asked for and 14 are read.
EIGRPExternalRouteTLV(f) == EIGRPNoValue(f) \cup UNION {
    {IF g.n = 34 + p THEN Raise(g, "IndexError") ELSE Return(g) : p \in IF g.n < 26 THEN {0}
        ELSE 0 .. (g.n - 19)} :
    g \in EIGRPValue(f)}

\* One authentication entry is kept: a second one replaces the first.
RIP(f) == CASE f.at = "start" -> IF f.n < 4 THEN Short(f) ELSE {Loop(Take(Declare(f, f.n), 4), "rtes", 0)}
            [] f.at = "rtes" /\ f.n = 0 -> {Return(f)}
            [] f.at = "rtes" /\ f.n > 0 -> IF f.n < 20 THEN Short(f) ELSE LET g == Take(f, 20) IN
                   {g, IF f.lim = 0 THEN [g EXCEPT !.lim = 1] ELSE [f EXCEPT !.n = @ - 20]}
RIPRTE(f)  == Plain(f, 20)
RIPAuth(f) == Plain(f, 20)

MRTHeader(f) == Plain(f, 12)
\* The attributes are counted neither by len() nor by bytes().
MRTTableDump(f) ==
    IF f.at = "start" THEN (IF f.n < 22 THEN Short(f) ELSE Loops(Take(Declare(f, f.n), 22), "attributes"))
    ELSE WhileLeft([f EXCEPT !.len = 22, !.out = 22], "BGPAttribute",
        {Return([f EXCEPT !.len = 22 + f.n, !.out = 22 + f.n])})
BGP4MPMessage(f)    == Plain(f, 16)
BGP4MPMessage_32(f) == Plain(f, 20)

PIM(f)  == Plain(f, 4)
HSRP(f) == Plain(f, 20)

\* TopologyBuilder.build: the messages found in the bytes of one direction, up
\* to one that cannot be read.  Each is skipped by the length it declares, or by
\* its len() if it declares none.
TopologyBuild(f) ==
    IF f.n < 19 THEN Unsized(f, -1)
    ELSE Unsized(f, -1) \cup {[f EXCEPT !.n = Monus(@, l)] : l \in (1 .. (f.n + 2)) \cup Reports("BGP", f.n)}

\* count addresses of four bytes, then the authentication data; with no
\* address the loop variable stays 0 and four bytes are skipped.
VRRP(f) == IF f.n < 8 THEN Short(f) ELSE LET g == Take(f, 8) IN {
    LET auth == Monus(g.n, IF k = 0 THEN 4 ELSE 4 * k)
    IN Declare(Return([g EXCEPT !.len = 8 + 4 * k + auth, !.out = 8 + Least(4 * k, g.n) + auth]),
        f.n) : k \in 0 .. 4}
=============================================================================
