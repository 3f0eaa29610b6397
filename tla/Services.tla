------------------------------ MODULE Services ------------------------------
(***************************************************************************)
(* dpkt/dns.py, dhcp.py, smb.py, smb2.py, nbss.py, netbios.py, rpc.py,      *)
(* pmap.py, ntp.py, tftp.py, cdp.py, dtp.py, edp.py and stp.py.             *)
(***************************************************************************)
EXTENDS Frames

\* dns.unpack_name from any offset.  A pointer leads to before the place the
\* labels now read began at, which lim holds; the bytes a caller skips are
\* those up to the first pointer.
DNSNameAnyPointer(f) ==
    LET Skip(k) == [f EXCEPT !.n = Monus(@, k)]
    IN CASE f.at = "start" -> {Loop([f EXCEPT !.n = f.n0 - off], "labels", off) : off \in 0 .. f.n0}
         [] f.at # "start" /\ f.n = 0 -> {Raise(f, "UnpackError")}
         [] f.at # "start" /\ f.n > 0 ->
                {Raise(f, "UnpackError")} \cup {Skip(1 + k) : k \in 1 .. f.n}
                \cup {Loop([f EXCEPT !.n = f.n0 - ptr], "pointed", ptr) : ptr \in 0 .. (f.n0 - 1)}
DNSName(f) ==
    LET Skip(k) == [f EXCEPT !.n = Monus(@, k), !.len = IF f.at = "labels" THEN @ + k ELSE @]
        End(g)  == {Raise(g, "ValueError"), Return([g EXCEPT !.out = g.len])}
    IN CASE f.at = "start" -> {Loop([f EXCEPT !.n = f.n0 - off], "labels", off) : off \in 0 .. f.n0}
         [] f.at # "start" /\ f.n = 0 -> {Raise(f, "UnpackError")}
         [] f.at # "start" /\ f.n > 0 ->
                {Raise(f, "UnpackError")} \cup End(Skip(1)) \cup {Skip(1 + k) : k \in 1 .. f.n}
                \cup (IF f.n < 2 THEN {Raise(f, "struct.error")}
                      ELSE {Loop([Skip(2) EXCEPT !.n = f.n0 - ptr], "pointed", ptr) : ptr \in 0 .. (f.lim - 1)})

\* Questions and records, each a name and fixed fields; a record is skipped by
\* the length it declares for its data, whatever was read from them.  len()
\* packs the message again, compressed anew.
BadName(f)  == {Raise(f, "UnpackError"), Raise(f, "ValueError")}
Named(f, k) == {[f EXCEPT !.n = @ - l - k, !.lim = @ - 1] : l \in 1 .. (f.n - k)}
DNSQuestion(f) == BadName(f) \cup Named(f, 4)
Record(f) == BadName(f) \cup UNION {{[g EXCEPT !.n = Monus(@, k)] : k \in Claims(g)} : g \in Named(f, 10)}
DNSRecord(f) == Record(f)
NSRecord(f)  == Record(f) \cup {Raise(g, "IndexError") : g \in Named(f, 10)}
DNSMessage(f, record) ==
    CASE f.at = "start" -> IF f.n < 12 THEN Short(f) ELSE {Loop(Take(f, 12), "questions", k) : k \in 0 .. 2}
      [] f.at = "questions" /\ f.lim > 0 -> DNSQuestion(f)
      [] f.at = "questions" /\ f.lim = 0 -> {Loop(f, "records", k) : k \in 0 .. 3}
      [] f.at = "records" /\ f.lim > 0 -> record
      [] f.at = "records" /\ f.lim = 0 -> Unsized(f, -1)
DNS(f) == DNSMessage(f, DNSRecord(f))
NS(f)  == DNSMessage(f, NSRecord(f))

\* Options up to the end marker.  Padding is not written again, the marker is
\* counted whether it was there or not and written if there is an option.
DHCP(f) ==
    LET Marked(k) == {Return([g EXCEPT !.len = @ + 1, !.out = @ + (IF f.lim = 0 THEN 0 ELSE 1)]) :
                      g \in {Take([f EXCEPT !.n = @ - k], f.n - k)}}
    IN CASE f.at = "start" -> IF f.n < 240 THEN Short(f) ELSE {Loop(Take(Declare(f, f.n), 240), "opts", 0)}
         [] f.at = "opts" /\ f.n = 0 -> Marked(0)
         [] f.at = "opts" /\ f.n > 0 -> Marked(1) \cup {[f EXCEPT !.n = @ - 1]}
                \cup (IF f.n < 2 THEN {Raise(f, "IndexError")}
                    ELSE LET g == Take([f EXCEPT !.lim = 1], 2)
                    IN {Take(g, Least(k, g.n)) : k \in Claims(g)})

NBSS(f) == Tlv(f, 4, {"bytes"})
NetBIOS == [Session |-> 4, Datagram |-> 14]

\* SMB.  A command's class has no header: struct.error becomes AttributeError.
SMB1Command(f) == IF f.n < 1 THEN {Raise(f, "IndexError")} ELSE LET g == Take(f, 1) IN UNION {
    IF g.n < 2 * w + 2 THEN {Raise(g, "AttributeError")}
    ELSE UNION {Keep(x) : x \in Cuts(Take(g, 2 * w + 2))} : w \in 0 .. (g.n \div 2)}
SMB1Negotiate(f) == SMB1Command(f)
SMB1Files == {"SMB1SessionSetupAndX", "SMB1TreeConnectAndX", "SMB1NTCreateAndX", "SMB1Close", "SMB1ReadAndX",
              "SMB1WriteAndX"}
SMB1Others == {"SMB1Open", "SMB1OpenAndX", "SMB1LogoffAndX", "SMB1Echo", "SMB1TreeDisconnect", "SMB1Trans2", "SMB1Trans",
               "SMB1NTTrans", "SMB1NTTransSecondary"}
\* Chained commands, each at an offset from the one before, until there is no
\* next one or one does not parse.
SMB(f) ==
    IF f.at = "start" THEN (IF f.n < 32 THEN Short(f) ELSE {Loop(Take(Declare(f, f.n), 32), "commands", 0)})
    ELSE {Return(f)} \cup {Raise(f, e) : e \in Errors("SMB1Command") \ {"UnpackError", "IndexError"}}
         \cup (IF f.n < 3 THEN {} ELSE {[f EXCEPT !.n = Monus(@, off)] : off \in 1 .. (f.n + 1)})

\* SMB2.  What a command's class cannot parse stays raw.
SMB2(f) == IF f.n < 64 THEN Short(f)
    ELSE TryInner(Take(f, 64), {"bytes", "SMB2Negotiate", "SMB2TreeConnect", "SMB2Create", "SMB2Close",
    "SMB2Read", "SMB2Write", "SMB2Logoff", "SMB2Lock", "SMB2Ioctl", "SMB2Cancel", "SMB2ChangeNotify", "SMB2QueryDirectory",
    "SMB2QueryInfo", "SMB2SetInfo"}, {"UnpackError", "KeyError"})
SMB2Sessions == [SMB2Negotiate |-> 32, SMB2SessionSetup |-> 24]
SMB2TreeConnect(f) == Drops(f, 8)
SMB2Create(f)      == Drops(f, 56)
SMB2Close(f)       == Plain(f, 24)
SMB2Ends           == [SMB2Logoff |-> 4, SMB2TreeDisconnect |-> 4, SMB2Flush |-> 24]
SMB2Notices        == [SMB2Cancel |-> 2, SMB2Echo |-> 2, SMB2ChangeNotify |-> 32, SMB2OplockBreak |-> 24]

\* Classes without a header: what struct cannot read is an AttributeError,
\* a byte that is not there an IndexError, and there is no len().
Headless(f, need, indexed) ==
    IF f.n \in indexed THEN {Raise(f, "IndexError")}
    ELSE IF f.n < need THEN {Raise(f, "AttributeError")} ELSE Unsized(f, -1)
SMB2Read(f)  == {Raise(f, "UnpackError")}
    \cup (IF f.n < 2 THEN {} ELSE Headless(f, 12, {3}) \cup Headless(f, 48, {2, 3}))
SMB2Write(f) == Headless(f, 16, {}) \cup Headless(f, 44, {})

\* A header of h bytes that len() counts, `more` bytes that have to be there,
\* and buffers found by offset; bytes() writes w bytes and the buffers.
SMB2Buffers(f, h, more, w) == IF f.n < h THEN Short(f) ELSE LET g == Take(Declare(f, f.n), h) IN
    IF g.n < more THEN {Raise(g, "UnpackError")} ELSE {Return([g EXCEPT !.out = w + k]) : k \in 0 .. g.n}
SMB2Lock(f) == IF f.n < 24 THEN Short(f) ELSE LET g == Take(Declare(f, f.n), 24) IN {
    Return([g EXCEPT !.out = 24 + 24 * Least(k, g.n \div 24)]) : k \in 0 .. (g.n \div 24 + 1)}
SMB2Ioctl(f)          == SMB2Buffers(f, 24, 28, 96)
SMB2QueryDirectory(f) == SMB2Buffers(f, 24, 12, 36)
SMB2QueryInfo(f)      == SMB2Buffers(f, 4, 20, 40)
SMB2SetInfo(f)        == SMB2Buffers(f, 4, 12, 36)

\* RPC.  A call writes its data twice, and so counts them twice.
RPCAuth(f) == Tlv(f, 8, {"bytes"})
RPCCall(f) ==
    CASE f.at = "start" -> IF f.n < 16 THEN Short(f) ELSE {Loop(Take(Declare(f, f.n), 16), "cred", 0)}
      [] f.at = "cred"  -> {IF Finished(g) THEN g ELSE Loop(g, "verf", 0) : g \in Element(f, "RPCAuth")}
      [] f.at = "verf"  -> {IF Finished(g) THEN g
               ELSE Return(Take(Take(g, g.n), g.n)) : g \in Element(f, "RPCAuth")}
\* With a status that is neither success nor a mismatch the rest is dropped.
RPCAccept(f) ==
    IF f.at = "start" THEN {IF Finished(g) THEN g
        ELSE Loop(g, "stat", 0) : g \in Element(Declare(f, f.n), "RPCAuth")}
    ELSE (IF f.n < 4 THEN Short(f) ELSE LET g == Take(f, 4) IN {Return(g)} \cup Keep(g)
        \cup (IF g.n < 8 THEN Short(g) ELSE Keep(Take(g, 8))))
RPCReject(f) == IF f.n < 4 THEN Short(f) ELSE LET g == Take(f, 4) IN Keep(g)
    \cup (IF g.n < 4 THEN Short(g) ELSE Keep(Take(g, 4)))
    \cup (IF g.n < 8 THEN Short(g) ELSE Keep(Take(g, 8)))
RPCReply(f)  == IF f.n < 4 THEN Short(f) ELSE Inner(Take(f, 4), {"RPCAccept", "RPCReject", "bytes"})
RPC(f)       == IF f.n < 8 THEN Short(f) ELSE Inner(Take(f, 8), {"RPCCall", "RPCReply", "bytes"})
\* Each item is what its class leaves of the data after a mark of four bytes.
XDRList(f) == IF f.n = 0 THEN Unsized(f, -1)
              ELSE {Raise(f, "UnpackError")}
                  \cup (IF f.n < 4 THEN {} ELSE Unsized(f, -1)
                  \cup {[f EXCEPT !.n = m] : m \in 0 .. (f.n - 4)})

Pmap(f) == Plain(f, 16)
NTP(f)  == Plain(f, 48)
EDP(f)  == Plain(f, 16)
STP(f)  == Plain(f, 35)

\* bytes() joins the strings and options again: two bytes more at most, less
\* if an option comes twice or has no name.
TFTP(f) ==
    LET Joined(g, least, most) == {Return([g EXCEPT !.len = @ + k, !.out = @ + k]) : k \in least .. most}
    IN IF f.n < 2 THEN Short(f) ELSE LET g == Take(Declare(f, f.n), 2) IN Keep(g)
           \cup Joined(g, 2, g.n + 2) \cup Joined(g, 0, g.n + 1)
           \cup (IF g.n < 2 THEN Short(g) ELSE LET h == Take(g, 2) IN Keep(h) \cup Joined(h, 1, h.n + 1))

\* The length of an element has its header in it and 0 stands for all that is
\* left; below the header's size it cuts from the end.
CDPTLV(f)       == IF f.n < 4 THEN Short(f) ELSE LET g == Take(f, 4) IN Keep(g)
    \cup {Return(Take(Declare(g, l), UpTo(g.n, l - 4))) : l \in 1 .. (f.n + 2)}
CDPAddresses(f) == IF f.n < 8 THEN Short(f) ELSE LET g == Take(f, 8) IN Keep(g)
    \cup {Return(Take(Declare(g, l), UpTo(g.n, l - 8))) : l \in 1 .. (f.n + 2)}
CDPAddress(f)   == Tlv(f, 5, {"bytes"})
CDP(f) == IF f.at = "start" THEN (IF f.n < 4 THEN Short(f) ELSE {Loop(Take(f, 4), "tlvs", 0)})
          ELSE WhileData(f, "CDPTLV", {Return(f)}) \cup WhileData(f, "CDPAddresses", {Return(f)})

\* data is a list: len() counts its items, and bytes() leaves out the version.
DTP(f) ==
    CASE f.at = "start" -> IF f.n < 1 THEN Short(f)
             ELSE {Loop([Take(Declare(f, f.n), 1) EXCEPT !.out = 0], "tvs", 0)}
      [] f.at = "tvs" /\ f.n = 0 -> {Return(f)}
      [] f.at = "tvs" /\ f.n > 0 -> IF f.n < 4 THEN Short(f) ELSE LET g == Take(f, 4) IN {
             [Take(g, Least(k, g.n)) EXCEPT !.len = f.len + 1] : k \in Claims(g)}
=============================================================================
