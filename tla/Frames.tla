------------------------------- MODULE Frames -------------------------------
(***************************************************************************)
(* Building blocks for walks of dpkt's parsers over a buffer.  Every       *)
(* protocol class is a subclass of dpkt.Packet whose unpack() takes fixed  *)
(* header fields off the front of a buffer, cuts the rest to lengths read  *)
(* from it, hands slices to other classes and advances by what those       *)
(* report as their len().  A frame is one call of such an unpack():        *)
(*   cls    the class,            n0   bytes of the buffer it was given,    *)
(*   n      len(self.data) now,   lim  what a counter or length still asks, *)
(*   len    what len() of the packet will be,                               *)
(*   out    how many bytes bytes() of the packet will give,                 *)
(*   claim  the size the element declares for itself on the wire (-1: none),*)
(*   at     "start", a loop of the class, "returned", or what it raised.    *)
(* Bytes have no contents: a field read from the buffer is any value it    *)
(* can have, up to two beyond what the buffer holds.                       *)
(***************************************************************************)
EXTENDS Integers, FiniteSets, Sequences

CONSTANT Promise(_)    \* what callers may rely on of a class, see Over below

Exceptions == {"AttributeError", "IndexError", "KeyError", "TypeError", "ValueError", "struct.error",
               "SSL3Exception", "HTTP2Exception"}

(* Promises.  least is the smallest len() a class reports; on m bytes it     *)
(* reports all of them (Whole), at most m (Upto), up to slack more (Over) or *)
(* the same for every buffer of the bytes it needs (Fixed).  Caveats: the exceptions other than             *)
(* dpkt.UnpackError that leave the class, "uneven" if bytes() and len() may  *)
(* differ, "drifts" if len() may differ from the size the element declares.  *)
Over(least, slack, caveats) == [least |-> least, kind |-> "over", slack |-> slack, caveats |-> caveats]
Upto(least, caveats)        == Over(least, 0, caveats)
Whole(least, caveats)       == [Upto(least, caveats) EXCEPT !.kind = "whole"]
Twice(least, slack, caveats) == [Over(least, slack, caveats) EXCEPT !.kind = "twice"]
Fixed(size, need, caveats)  == [Over(size, need, caveats) EXCEPT !.kind = "fixed"]
Sizeless(caveats)           == [Upto(0, caveats \cup {"unsized"}) EXCEPT !.kind = "none"]

(* Raw bytes report what they are and raise nothing.                        *)
Of(c) == IF c = "bytes" THEN Whole(0, {}) ELSE Promise(c)

(* The lengths class c may report for m bytes.                              *)
Lengths(p, m) == CASE p.kind = "none"  -> {}
                   [] p.kind = "whole" -> {m} \cap (p.least .. m)
                   [] p.kind = "fixed" -> IF m >= p.slack THEN {p.least} ELSE {}
                   [] p.kind = "twice" -> IF m >= p.least THEN p.least .. (2 * m + p.slack) ELSE {}
                   [] p.kind = "over"  -> p.least .. (m + p.slack)
Reports(c, m) == Lengths(Of(c), m)

(* The same with what bytes() gives, which is one off where it is uneven.   *)
Odd(p)      == IF "uneven" \in p.caveats THEN {0, 1} ELSE {0}
Gives(c, m) == {<<l, l + o>> : l \in Reports(c, m), o \in Odd(Of(c))}

(* What may leave class c by exception.                                     *)
Errors(c) == (IF c = "bytes" THEN {} ELSE {"UnpackError"}) \cup (Of(c).caveats \cap Exceptions)

Monus(a, b) == IF a > b THEN a - b ELSE 0
Least(a, b) == IF a < b THEN a ELSE b

Start(c, m) == [cls |-> c, at |-> "start", n0 |-> m, n |-> m,
                lim |-> 0, len |-> 0, out |-> 0, claim |-> -1]
Return(f)   == [f EXCEPT !.at = "returned"]
Raise(f, e) == [f EXCEPT !.at = e]
Finished(f) == f.at \in {"returned", "UnpackError"} \cup Exceptions

(* Values of a length field: everything that fits, and two more.            *)
Claims(f) == 0 .. (f.n + 2)

(* Take k bytes that the packet keeps.  self.data = self.data[k:]           *)
Take(f, k) == [f EXCEPT !.n = Monus(@, k), !.len = @ + k, !.out = @ + k]
(* Keep a child that reports r[1] and writes r[2] bytes.                    *)
Hold(f, r) == [f EXCEPT !.n = Monus(@, r[1]), !.len = @ + r[1], !.out = @ + r[2]]
(* self.data = self.data[:m]                                                *)
Cut(f, m) == [f EXCEPT !.n = Least(@, m)]
Declare(f, c) == [f EXCEPT !.claim = c]
Loop(f, label, limit) == [f EXCEPT !.at = label, !.lim = limit]
(* A loop whose length or count was read from the buffer.                   *)
Loops(f, label) == {Loop(f, label, k) : k \in Claims(f)}

(* A buffer shorter than the fixed header: struct.unpack raises, which       *)
(* Packet.__init__ turns into NeedData, an UnpackError.                      *)
Short(f) == {Raise(f, "UnpackError")}
Lacking(f, k) == IF f.n < k THEN Short(f) ELSE {}

(* The packet keeps what is left in self.data as raw bytes.                 *)
Keep(f) == {Return(Take(f, f.n))}

(* A class with a header and no unpack() of its own.                        *)
Plain(f, h) == IF f.n < h THEN Short(f) ELSE Keep(Take(f, h))

(* A class that keeps none of the data after its header; one that has moved  *)
(* them to attributes that len() and bytes() leave out.                     *)
Exact(f, h) == IF f.n < h THEN Short(f) ELSE {Return(Take(f, h))}
Drops(f, h) == Exact(Declare(f, f.n), h)

(* How many bytes data[:e] has of n: a negative e counts from the end.       *)
UpTo(n, e) == IF e >= 0 THEN Least(n, e) ELSE Monus(n, -e)

(* Packet.__init__ turns struct.error into an UnpackError.                  *)
Packed(S) == {IF g.at = "struct.error" THEN Raise(g, "UnpackError") ELSE g : g \in S}

(* len() raises AttributeError (no header) or IndexError: the size of f is   *)
(* unknown to its callers; a function that returns a list has none either.  *)
Unsized(f, bytes) == {Return([f EXCEPT !.len = -1, !.out = bytes])}

(* An array of k-byte items filling the rest; a shorter tail is dropped.    *)
Items(f, k) == {Return(Take(f, k * (f.n \div k)))}

(* self.data = C(self.data) with C one of the classes Cs: the packet keeps    *)
(* what C reports.                                                          *)
Inner(f, Cs) ==
    {Return([Hold(f, r) EXCEPT !.n = 0]) : r \in UNION {Gives(c, f.n) : c \in Cs}}
    \cup {Raise(f, e) : e \in UNION {Errors(c) : c \in Cs}}
    \cup (IF \E c \in Cs : "unsized" \in Of(c).caveats THEN Unsized(f, -1) ELSE {})

(* The same with the raw data kept when C raises one of the caught errors.  *)
Caught(tried, f, errors) ==
    {g \in tried : g.at \notin errors} \cup (IF \E g \in tried : g.at \in errors THEN Keep(f) ELSE {})
TryInner(f, Cs, errors) == Caught(Inner(f, Cs), f, errors)

(* The rest cut to the declared length; the same after a header of h bytes,  *)
(* and the cut handed on to a class.                                        *)
Cuts(f) == {Declare(Cut(f, m), f.len + m) : m \in Claims(f)}
Tlv(f, h, Cs) == IF f.n < h THEN Short(f) ELSE UNION {Inner(x, Cs) : x \in Cuts(Take(f, h))}

(* The frames after a header of h bytes that declares the length of the rest, *)
(* which must be there.                                                      *)
Complete(f, h) == {Declare(Cut(Take(f, h), m), h + m) : m \in 0 .. (f.n - h)}

(* e = C(self.data); self.data = self.data[len(e):]                         *)
Element(f, c) == {[Hold(f, r) EXCEPT !.lim = @ - r[1]] : r \in Gives(c, f.n)}
                     \cup {Raise(f, e) : e \in Errors(c)}

(* while self.data: / while left > 0: / for i in range(count):              *)
WhileData(f, c, done) == IF f.n > 0 THEN Element(f, c) ELSE done
WhileLeft(f, c, done) == IF f.lim > 0 THEN Element(f, c) ELSE done
Repeat(f, c, done)    == IF f.lim > 0 THEN {[g EXCEPT !.lim = f.lim - 1] : g \in Element(f, c)}
                                      ELSE done

(* A header, then elements c: as many as fit, as many bytes as declared, or  *)
(* as many as counted.                                                      *)
ListData(f, h, c)  == IF f.at = "start" THEN IF f.n < h THEN Short(f) ELSE {Loop(Take(f, h), "list", 0)}
                      ELSE WhileData(f, c, {Return(f)})
ListLeft(f, h, c)  == IF f.at = "start" THEN IF f.n < h THEN Short(f) ELSE Loops(Take(f, h), "list")
                      ELSE WhileLeft(f, c, {Return(f)})
ListCount(f, h, c) == IF f.at = "start" THEN IF f.n < h THEN Short(f) ELSE Loops(Take(f, h), "list")
                      ELSE Repeat(f, c, {Return(f)})
=============================================================================
