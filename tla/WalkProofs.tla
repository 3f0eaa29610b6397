----------------------------- MODULE WalkProofs -----------------------------
(***************************************************************************)
(* Proofs about the walks of the routing protocols (BGP, OSPF, IS-IS,      *)
(* EIGRP, RIP, MRT, PIM, HSRP, VRRP and what TopologyBuilder does with      *)
(* them) on buffers of every size.  A class is taken on its own: the       *)
(* classes it hands data to are known by their promises, and its own       *)
(* promise is what is proved.                                              *)
(***************************************************************************)
EXTENDS Walk, RoutingWalk, TLAPS

(* A frame has these fields and no others.                                 *)
Shaped(g) ==
  g = [cls |-> g.cls, at |-> g.at, n0 |-> g.n0, n |-> g.n, lim |-> g.lim, len |-> g.len, out |-> g.out,
       claim |-> g.claim]
IsFrame(g) ==
  /\ g = [cls |-> g.cls, at |-> g.at, n0 |-> g.n0, n |-> g.n, lim |-> g.lim, len |-> g.len, out |-> g.out,
          claim |-> g.claim]
  /\ g.n0 \in Nat /\ g.n \in Nat
  /\ g.lim \in Int /\ g.len \in Int /\ g.out \in Int /\ g.claim \in Int

(* The promises and the steps of the routing classes are those of          *)
(* RoutingWalk.  Other classes may be walked beside them: all that is      *)
(* asked of those is that a step leaves a frame of the same class.         *)
RoutingTable == \A c \in RoutingClasses : Promise(c) = RoutingPromise(c)
RoutingWalked ==
  /\ RoutingTable
  /\ \A c \in DOMAIN Sizes \cap RoutingClasses : Sizes[c] \subseteq Nat
  /\ \A g : g.cls \in RoutingClasses => Walks(g) = RoutingStep(g)
  /\ \A g : Shaped(g) /\ g.cls \in DOMAIN Sizes \ RoutingClasses
              => \A h \in Walks(g) : Shaped(h) /\ h.cls = g.cls

(* h is frame g with these fields.                                         *)
Is(h, g, at, n, lim, len, out, claim) ==
  /\ IsFrame(h)
  /\ h.cls = g.cls /\ h.n0 = g.n0 /\ h.at = at /\ h.n = n /\ h.lim = lim
  /\ h.len = len /\ h.out = out /\ h.claim = claim

From(g, h) == IsFrame(h) /\ h.cls = g.cls /\ h.n0 = g.n0 /\ h.n <= h.n0

Caveats(g) == Promise(g.cls).caveats

(* What a frame that returns is to satisfy, and one that has ended.        *)
Kept(g) ==
  /\ IF g.len = -1 THEN "unsized" \in Caveats(g) ELSE g.len \in Reports(g.cls, g.n0)
  /\ g.len # -1 => g.out = g.len \/ "uneven" \in Caveats(g)
  /\ g.claim \in Promise(g.cls).least .. g.n0 => g.len = g.claim \/ "drifts" \in Caveats(g)
Declared(g, e) == e = "UnpackError" \/ (e \in Exceptions /\ e \in Caveats(g))
Ended(g) == IF g.at = "returned" THEN Kept(g) ELSE Declared(g, g.at)

(* What has been taken and what is left lie within the buffer, until an    *)
(* element reports more than there is: then nothing is left.               *)
Past(g, low) ==
  /\ g.len >= low
  /\ g.n > 0 => g.len + g.n <= g.n0
  /\ g.claim = -1 \/ "drifts" \in Caveats(g)
  /\ g.out = g.len \/ "uneven" \in Caveats(g)
Within(g, low) == Past(g, low) /\ g.len <= g.n0 + Promise(g.cls).slack

(* A frame that has just been made; two classes start anew on a shorter    *)
(* buffer after each element.                                              *)
First(g) == /\ IsFrame(g) /\ g.at = "start" /\ g.n = g.n0
            /\ g.len = 0 /\ g.out = 0 /\ g.lim = 0 /\ g.claim = -1
Restart == {"EIGRPMessage", "TopologyBuild"}
Restarted(g) == /\ g.cls \in Restart /\ g.at = "start"
                /\ g.len = 0 /\ g.out = 0 /\ g.claim = -1

(* The loops, one by one.                                                  *)
PDUs   == {"ISISLANHelloL1", "ISISP2PHello", "ISISLSPL1", "ISISCSNPL1", "ISISPSNPL1"}
Values == {"ISISTLV", "ISISNeighborsTLV", "ISISEISReachTLV", "ISISIPIntReachTLV", "EIGRPInternalRouteTLV"}
BGPLoop(g) ==
  \/ g.cls = "BGPOpen" /\ g.at = "list" /\ Within(g, 10)
  \/ g.cls = "BGPUpdate" /\ g.at = "withdrawn" /\ Past(g, 2)
  \/ g.cls = "BGPUpdate" /\ g.at \in {"attributes", "announced"} /\ Within(g, 4)
  \/ g.cls = "BGPASPath" /\ g.at \in {"BGPASPathSegment", "BGPASPathSegment4"} /\ Within(g, 0)
  \/ /\ g.cls \in {"BGPCommunities", "BGPClusterList"} /\ g.at = "list"
     /\ g.len = g.out /\ g.len + g.n = g.n0 /\ g.claim = -1
  \/ g.cls = "BGPMPReachNLRI" /\ g.at \in {"hops4", "hops16"} /\ Within(g, 4)
  \/ g.cls = "BGPMPReachNLRI" /\ g.at \in {"snpas4", "snpas16"} \cup Routes /\ Within(g, 5)
  \/ g.cls = "BGPMPUnreachNLRI" /\ g.at \in Routes /\ Within(g, 3)
OSPFLoop(g) ==
  \/ /\ g.cls \in {"OSPFv2LSU", "OSPFv3LSU"} /\ g.at = "lsas"
     /\ g.len >= 4 /\ g.out = g.len /\ g.claim = -1
     /\ g.lim \in 0 .. 3 /\ g.len + g.n <= g.n0 + 8 * (3 - g.lim)
  \/ g.cls = "LSAIntraAreaPrefix" /\ g.at = "prefixes" /\ Within(g, 32)
OtherLoop(g) ==
  \/ g.cls \in PDUs /\ g.at = "tlvs" /\ g.len = 0 /\ g.out = 0 /\ g.claim = -1
  \/ g.cls \in Values /\ g.at = "value" /\ Kept(g)
  \/ g.cls = "RIP" /\ g.at = "rtes" /\ Within(g, 4)
  \/ g.cls = "MRTTableDump" /\ g.at = "attributes" /\ g.claim = g.n0 /\ g.n + 22 <= g.n0
Going(g) == /\ First(g) \/ Restarted(g) \/ BGPLoop(g) \/ OSPFLoop(g) \/ OtherLoop(g)
            /\ g.len >= 0 /\ g.out >= 0

(* A frame in the middle of its walk; what it may become in a step; and    *)
(* the invariant of the whole walk, which has no case for other classes.   *)
Ready(g) == IsFrame(g) /\ g.n <= g.n0 /\ Going(g)
Result(g, h) == From(g, h) /\ IF Finished(h) THEN Ended(h) ELSE h.at # "endless" /\ Going(h)
Right(g) == /\ IsFrame(g) /\ g.n <= g.n0
            /\ CASE Finished(g)      -> Ended(g)
                 [] g.at = "endless" -> g.len >= 0 /\ g.out >= 0
                 [] OTHER            -> Going(g)
WalkInv == Shaped(f) /\ f.cls \in DOMAIN Sizes /\ (f.cls \in RoutingClasses => Right(f))
-----------------------------------------------------------------------------
(* What is left of a when b is taken, and the smaller of two numbers.      *)
LEMMA MonusIs ==
  ASSUME NEW a \in Int, NEW b \in Int
  PROVE  /\ Monus(a, b) \in Nat
         /\ a > b => Monus(a, b) = a - b
         /\ a <= b => Monus(a, b) = 0
BY DEF Monus

LEMMA LeastIs ==
  ASSUME NEW a \in Int, NEW b \in Int
  PROVE  /\ Least(a, b) \in Int
         /\ a < b => Least(a, b) = a
         /\ a >= b => Least(a, b) = b
BY DEF Least

(* The updates of a frame, field by field.                                 *)
LEMMA Sized ==
  ASSUME NEW g, IsFrame(g), NEW n \in Nat, NEW len \in Int, NEW out \in Int
  PROVE  Is([g EXCEPT !.n = n, !.len = len, !.out = out], g, g.at, n, g.lim, len, out, g.claim)
<1> SUFFICES ASSUME NEW h, h = [g EXCEPT !.n = n, !.len = len, !.out = out]
             PROVE  Is(h, g, g.at, n, g.lim, len, out, g.claim)
  OBVIOUS
<1>1. IsFrame(h)
  BY DEF IsFrame
<1> QED BY <1>1 DEF IsFrame, Is

LEMMA Measured ==
  ASSUME NEW g, IsFrame(g), NEW len \in Int, NEW out \in Int
  PROVE  Is([g EXCEPT !.len = len, !.out = out], g, g.at, g.n, g.lim, len, out, g.claim)
<1> SUFFICES ASSUME NEW h, h = [g EXCEPT !.len = len, !.out = out]
             PROVE  Is(h, g, g.at, g.n, g.lim, len, out, g.claim)
  OBVIOUS
<1>1. IsFrame(h)
  BY DEF IsFrame
<1> QED BY <1>1 DEF IsFrame, Is

LEMMA Moved ==
  ASSUME NEW g, IsFrame(g), NEW n \in Nat
  PROVE  Is([g EXCEPT !.n = n], g, g.at, n, g.lim, g.len, g.out, g.claim)
<1> SUFFICES ASSUME NEW h, h = [g EXCEPT !.n = n]
             PROVE  Is(h, g, g.at, n, g.lim, g.len, g.out, g.claim)
  OBVIOUS
<1>1. IsFrame(h)
  BY DEF IsFrame
<1> QED BY <1>1 DEF IsFrame, Is

LEMMA Limited ==
  ASSUME NEW g, IsFrame(g), NEW lim \in Int
  PROVE  Is([g EXCEPT !.lim = lim], g, g.at, g.n, lim, g.len, g.out, g.claim)
<1> SUFFICES ASSUME NEW h, h = [g EXCEPT !.lim = lim]
             PROVE  Is(h, g, g.at, g.n, lim, g.len, g.out, g.claim)
  OBVIOUS
<1>1. IsFrame(h)
  BY DEF IsFrame
<1> QED BY <1>1 DEF IsFrame, Is

LEMMA Placed ==
  ASSUME NEW g, IsFrame(g), NEW at
  PROVE  Is([g EXCEPT !.at = at], g, at, g.n, g.lim, g.len, g.out, g.claim)
<1> SUFFICES ASSUME NEW h, h = [g EXCEPT !.at = at]
             PROVE  Is(h, g, at, g.n, g.lim, g.len, g.out, g.claim)
  OBVIOUS
<1>1. IsFrame(h)
  BY DEF IsFrame
<1> QED BY <1>1 DEF IsFrame, Is

LEMMA DeclareIs ==
  ASSUME NEW g, IsFrame(g), NEW c \in Int
  PROVE  Is(Declare(g, c), g, g.at, g.n, g.lim, g.len, g.out, c)
<1> SUFFICES ASSUME NEW h, h = Declare(g, c)
             PROVE  Is(h, g, g.at, g.n, g.lim, g.len, g.out, c)
  OBVIOUS
<1>1. IsFrame(h)
  BY DEF IsFrame, Declare
<1> QED BY <1>1 DEF IsFrame, Is, Declare

LEMMA LoopIs ==
  ASSUME NEW g, IsFrame(g), NEW label, NEW lim \in Int
  PROVE  Is(Loop(g, label, lim), g, label, g.n, lim, g.len, g.out, g.claim)
<1> SUFFICES ASSUME NEW h, h = Loop(g, label, lim)
             PROVE  Is(h, g, label, g.n, lim, g.len, g.out, g.claim)
  OBVIOUS
<1>1. IsFrame(h)
  BY DEF IsFrame, Loop
<1> QED BY <1>1 DEF IsFrame, Is, Loop

(* A frame that returns or raises differs in where it is only.             *)
LEMMA ReturnIs ==
  ASSUME NEW g, IsFrame(g)
  PROVE  Is(Return(g), g, "returned", g.n, g.lim, g.len, g.out, g.claim)
BY Placed DEF Return

LEMMA RaiseIs ==
  ASSUME NEW g, IsFrame(g), NEW e
  PROVE  Is(Raise(g, e), g, e, g.n, g.lim, g.len, g.out, g.claim)
BY Placed DEF Raise

(* Bytes kept, children kept and data cut: sizes grow by what is kept.     *)
LEMMA TakeIs ==
  ASSUME NEW g, IsFrame(g), NEW k \in Nat
  PROVE  Is(Take(g, k), g, g.at, Monus(g.n, k), g.lim, g.len + k, g.out + k, g.claim)
<1>1. g.n \in Int /\ k \in Int /\ g.len + k \in Int /\ g.out + k \in Int
  BY DEF IsFrame
<1>2. Monus(g.n, k) \in Nat
  BY <1>1, MonusIs
<1> QED BY <1>1, <1>2, Sized DEF Take

LEMMA HoldIs ==
  ASSUME NEW g, IsFrame(g), NEW r \in Nat \X Nat
  PROVE  Is(Hold(g, r), g, g.at, Monus(g.n, r[1]), g.lim, g.len + r[1], g.out + r[2], g.claim)
<1>1. g.n \in Int /\ g.len + r[1] \in Int /\ g.out + r[2] \in Int /\ r[1] \in Int
  BY DEF IsFrame
<1>2. Monus(g.n, r[1]) \in Nat
  BY <1>1, MonusIs
<1> QED BY <1>1, <1>2, Sized DEF Hold

LEMMA CutIs ==
  ASSUME NEW g, IsFrame(g), NEW m \in Nat
  PROVE  Is(Cut(g, m), g, g.at, Least(g.n, m), g.lim, g.len, g.out, g.claim)
<1>1. Least(g.n, m) \in Nat
  BY DEF IsFrame, Least
<1> QED BY <1>1, Moved DEF Cut

(* Bytes that are there are taken off the front.                           *)
LEMMA TakeHere ==
  ASSUME NEW g, IsFrame(g), NEW k \in Nat, k <= g.n
  PROVE  Is(Take(g, k), g, g.at, g.n - k, g.lim, g.len + k, g.out + k, g.claim)
<1>1. Is(Take(g, k), g, g.at, Monus(g.n, k), g.lim, g.len + k, g.out + k, g.claim)
  BY TakeIs
<1>2. Monus(g.n, k) = g.n - k
  BY MonusIs DEF IsFrame, Monus
<1> QED BY <1>1, <1>2

(* A header of h bytes at the front of a frame that has just been made.    *)
LEMMA Header ==
  ASSUME NEW g, First(g), NEW h \in Nat, h <= g.n
  PROVE  Is(Take(g, h), g, "start", g.n - h, 0, h, h, -1)
<1>1. Is(Take(g, h), g, g.at, g.n - h, g.lim, g.len + h, g.out + h, g.claim)
  BY TakeHere DEF First
<1> QED BY <1>1 DEF First
-----------------------------------------------------------------------------
(* What the promises allow.                                                *)
LEMMA OverLengths ==
  ASSUME NEW least, NEW slack, NEW caveats
  PROVE  LET p == Over(least, slack, caveats)
         IN /\ p.least = least /\ p.slack = slack /\ p.caveats = caveats
            /\ \A m : Lengths(p, m) = least .. (m + slack)
BY DEF Over, Lengths

LEMMA WholeLengths ==
  ASSUME NEW least, NEW caveats
  PROVE  LET p == Whole(least, caveats)
         IN /\ p.least = least /\ p.slack = 0 /\ p.caveats = caveats
            /\ \A m : Lengths(p, m) = {m} \cap (least .. m)
BY DEF Whole, Upto, Over, Lengths

LEMMA FixedLengths ==
  ASSUME NEW size, NEW need, NEW caveats
  PROVE  LET p == Fixed(size, need, caveats)
         IN /\ p.least = size /\ p.slack = need /\ p.caveats = caveats
            /\ \A m : Lengths(p, m) = IF m >= need THEN {size} ELSE {}
BY DEF Fixed, Over, Lengths

(* A class that callers can rely on: it reports what least and slack say,  *)
(* always has a size, and has no other caveats but drifting.               *)
Relied(c, least, slack, caveats) ==
  /\ \A m \in Nat : \A l \in Reports(c, m) : l \in Nat /\ least <= l /\ l <= m + slack
  /\ Of(c).caveats \subseteq caveats \cup {"drifts"}
  /\ "unsized" \notin Of(c).caveats

LEMMA RawRelied == Relied("bytes", 0, 0, {})
<1>1. Of("bytes") = Whole(0, {})
  BY DEF Of
<1> QED BY <1>1, WholeLengths DEF Relied, Reports

(* What the promises of each kind let a caller rely on.                    *)
LEMMA OverRelied ==
  ASSUME NEW c, NEW least \in Nat, NEW slack \in Nat, NEW caveats,
         Of(c) = Over(least, slack, caveats), "unsized" \notin caveats
  PROVE  Relied(c, least, slack, caveats)
<1>1. /\ Of(c).caveats = caveats
      /\ \A m : Reports(c, m) = least .. (m + slack)
  BY OverLengths DEF Reports
<1> QED BY <1>1 DEF Relied

LEMMA WholeRelied ==
  ASSUME NEW c, NEW least \in Nat, NEW caveats,
         Of(c) = Whole(least, caveats), "unsized" \notin caveats
  PROVE  Relied(c, least, 0, caveats)
<1>1. /\ Of(c).caveats = caveats
      /\ \A m : Reports(c, m) = {m} \cap (least .. m)
  BY WholeLengths DEF Reports
<1> QED BY <1>1 DEF Relied

LEMMA FixedRelied ==
  ASSUME NEW c, NEW size \in Nat, NEW need \in Nat, NEW slack \in Nat, NEW caveats,
         Of(c) = Fixed(size, need, caveats), "unsized" \notin caveats, size <= need + slack
  PROVE  Relied(c, size, slack, caveats)
<1>1. /\ Of(c).caveats = caveats
      /\ \A m : Reports(c, m) = IF m >= need THEN {size} ELSE {}
  BY FixedLengths DEF Reports
<1> QED BY <1>1 DEF Relied

(* A caller may rely on less.                                              *)
LEMMA ReliedMore ==
  ASSUME NEW c, NEW least \in Nat, NEW slack \in Nat, NEW caveats, Relied(c, least, slack, caveats),
         NEW less \in Nat, less <= least, NEW more \in Nat, slack <= more,
         NEW wider, caveats \subseteq wider
  PROVE  Relied(c, less, more, wider)
BY DEF Relied

(* What a class gives its caller, and what it raises.                      *)
LEMMA GivesIs ==
  ASSUME NEW c, NEW least \in Nat, NEW slack \in Nat, NEW caveats, Relied(c, least, slack, caveats),
         NEW m \in Nat, NEW r \in Gives(c, m)
  PROVE  /\ r \in Nat \X Nat
         /\ least <= r[1] /\ r[1] <= m + slack
         /\ r[2] = r[1] \/ "uneven" \in caveats
<1>1. PICK l \in Reports(c, m), o \in Odd(Of(c)) : r = <<l, l + o>>
  BY DEF Gives
<1>2. l \in Nat /\ least <= l /\ l <= m + slack
  BY <1>1 DEF Relied
<1>3. o \in {0, 1} /\ (o = 0 \/ "uneven" \in caveats)
  BY <1>1 DEF Odd, Relied
<1> QED BY <1>1, <1>2, <1>3

(* What a child raises is UnpackError or one of its caveats.               *)
LEMMA ErrorsAre ==
  ASSUME NEW c, NEW least, NEW slack, NEW caveats, Relied(c, least, slack, caveats), NEW e \in Errors(c)
  PROVE  e = "UnpackError" \/ (e \in Exceptions /\ e \in caveats)
BY DEF Errors, Relied, Exceptions
-----------------------------------------------------------------------------
(* What a class owes its caller, by the kind of its promise.               *)
Owes(g, least, slack, caveats) ==
  /\ g.cls # "bytes" /\ Promise(g.cls) = Over(least, slack, caveats)
  /\ least \in Nat /\ slack \in Nat
OwesAll(g, least, caveats) ==
  g.cls # "bytes" /\ Promise(g.cls) = Whole(least, caveats) /\ least \in Nat
OwesFixed(g, size, need, caveats) ==
  g.cls # "bytes" /\ Promise(g.cls) = Fixed(size, need, caveats) /\ size \in Nat /\ need \in Nat

LEMMA OwesIs ==
  ASSUME NEW g, NEW least, NEW slack, NEW caveats, Owes(g, least, slack, caveats)
  PROVE  /\ Caveats(g) = caveats /\ Promise(g.cls).least = least /\ Promise(g.cls).slack = slack
         /\ \A m : Reports(g.cls, m) = least .. (m + slack)
BY OverLengths DEF Owes, Caveats, Reports, Of

LEMMA OwesAllIs ==
  ASSUME NEW g, NEW least, NEW caveats, OwesAll(g, least, caveats)
  PROVE  /\ Caveats(g) = caveats /\ Promise(g.cls).least = least /\ Promise(g.cls).slack = 0
         /\ \A m : Reports(g.cls, m) = {m} \cap (least .. m)
BY WholeLengths DEF OwesAll, Caveats, Reports, Of

LEMMA OwesFixedIs ==
  ASSUME NEW g, NEW size, NEW need, NEW caveats, OwesFixed(g, size, need, caveats)
  PROVE  /\ Caveats(g) = caveats /\ Promise(g.cls).least = size
         /\ \A m : Reports(g.cls, m) = IF m >= need THEN {size} ELSE {}
BY FixedLengths DEF OwesFixed, Caveats, Reports, Of

(* How a walk ends.                                                        *)
LEMMA Returns ==
  ASSUME NEW g, NEW h, From(g, h), h.at = "returned", Kept(h)
  PROVE  Result(g, h)
BY DEF Result, Ended, Finished

(* A walk that ends in an exception the class is known for, or in          *)
(* UnpackError.                                                            *)
LEMMA Raises ==
  ASSUME NEW g, NEW x, From(g, x), NEW e, Declared(g, e)
  PROVE  Result(g, Raise(x, e))
<1>1. Is(Raise(x, e), x, e, x.n, x.lim, x.len, x.out, x.claim)
  BY RaiseIs DEF From
<1>2. From(g, Raise(x, e)) /\ Raise(x, e).at = e
  BY <1>1 DEF From, Is
<1>3. Finished(Raise(x, e))
  BY <1>2 DEF Finished, Declared
<1>4. e # "returned"
  BY DEF Declared, Exceptions
<1>5. Caveats(Raise(x, e)) = Caveats(g)
  BY <1>2 DEF From, Caveats
<1>6. Declared(Raise(x, e), e)
  BY <1>5 DEF Declared
<1> QED BY <1>2, <1>3, <1>4, <1>6 DEF Result, Ended

LEMMA RaisesShort ==
  ASSUME NEW g, NEW x, From(g, x)
  PROVE  \A h \in Short(x) : Result(g, h)
BY Raises DEF Short, Declared

(* A walk that goes on in a loop.                                          *)
LEMMA GoesOn ==
  ASSUME NEW g, NEW h, From(g, h), Going(h),
         h.at \notin {"returned", "UnpackError", "endless"} \cup Exceptions
  PROVE  Result(g, h)
BY DEF Result, Finished

(* A frame keeps the promise of its class when it returns.                 *)
LEMMA OverKept ==
  ASSUME NEW g, NEW least, NEW slack, NEW caveats, Owes(g, least, slack, caveats),
         NEW h, From(g, h), h.len >= least, h.len <= h.n0 + slack,
         h.out = h.len \/ "uneven" \in caveats,
         h.claim \in least .. h.n0 => h.len = h.claim \/ "drifts" \in caveats
  PROVE  Kept(h)
<1>1. /\ Caveats(h) = caveats /\ Promise(h.cls).least = least
      /\ h.len # -1 /\ h.len \in Reports(h.cls, h.n0)
  <2>1. Owes(h, least, slack, caveats)
    BY DEF From, Owes
  <2>2. /\ Caveats(h) = caveats /\ Promise(h.cls).least = least
        /\ Reports(h.cls, h.n0) = least .. (h.n0 + slack)
    BY <2>1, OwesIs
  <2> QED BY <2>1, <2>2 DEF From, IsFrame, Owes
<1> QED BY <1>1 DEF Kept

LEMMA WholeKept ==
  ASSUME NEW g, NEW least, NEW caveats, OwesAll(g, least, caveats),
         NEW h, From(g, h), h.len >= least, h.len = h.n0,
         h.out = h.len \/ "uneven" \in caveats,
         h.claim \in least .. h.n0 => h.len = h.claim \/ "drifts" \in caveats
  PROVE  Kept(h)
<1>1. /\ Caveats(h) = caveats /\ Promise(h.cls).least = least
      /\ h.len # -1 /\ h.len \in Reports(h.cls, h.n0)
  <2>1. OwesAll(h, least, caveats)
    BY DEF From, OwesAll
  <2>2. /\ Caveats(h) = caveats /\ Promise(h.cls).least = least
        /\ Reports(h.cls, h.n0) = {h.n0} \cap (least .. h.n0)
    BY <2>1, OwesAllIs
  <2> QED BY <2>1, <2>2 DEF From, IsFrame, OwesAll
<1> QED BY <1>1 DEF Kept

LEMMA FixedKept ==
  ASSUME NEW g, NEW size, NEW need, NEW caveats, OwesFixed(g, size, need, caveats),
         NEW h, From(g, h), h.len = size, h.n0 >= need,
         h.out = h.len \/ "uneven" \in caveats,
         h.claim = -1 \/ "drifts" \in caveats
  PROVE  Kept(h)
<1>1. /\ Caveats(h) = caveats /\ Promise(h.cls).least = size
      /\ h.len # -1 /\ h.len \in Reports(h.cls, h.n0)
  <2>1. OwesFixed(h, size, need, caveats)
    BY DEF From, OwesFixed
  <2>2. /\ Caveats(h) = caveats /\ Promise(h.cls).least = size
        /\ Reports(h.cls, h.n0) = {size}
    BY <2>1, OwesFixedIs
  <2> QED BY <2>1, <2>2 DEF From, IsFrame, OwesFixed
<1>2. h.claim \in size .. h.n0 => "drifts" \in caveats
  BY DEF OwesFixed
<1> QED BY <1>1, <1>2 DEF Kept

(* The same with the frame that is about to return.                        *)
LEMMA ReturnFrom ==
  ASSUME NEW g, NEW x, From(g, x), Kept(x)
  PROVE  Result(g, Return(x))
<1>1. Is(Return(x), x, "returned", x.n, x.lim, x.len, x.out, x.claim)
  BY ReturnIs DEF From
<1>2. From(g, Return(x)) /\ Return(x).at = "returned"
  BY <1>1 DEF From, Is
<1>3. Kept(Return(x))
  BY <1>1 DEF Kept, Is, Caveats
<1> QED BY <1>2, <1>3, Returns
-----------------------------------------------------------------------------
(* An element that declares a size the buffer has ends where what is left  *)
(* of the buffer ends.                                                     *)
Fits(x, caveats) ==
  x.claim = -1 \/ "drifts" \in caveats \/ (x.claim <= x.n0 => x.claim = x.len + x.n)

(* The rest of the data is kept as it is.                                  *)
LEMMA KeepsOver ==
  ASSUME NEW g, NEW least, NEW slack, NEW caveats, Owes(g, least, slack, caveats),
         NEW x, From(g, x), x.len >= least, x.len + x.n <= x.n0,
         x.out = x.len \/ "uneven" \in caveats, Fits(x, caveats)
  PROVE  \A h \in Keep(x) : Result(g, h)
<1> DEFINE y == Take(x, x.n)
<1>1. Is(y, x, x.at, x.n - x.n, x.lim, x.len + x.n, x.out + x.n, x.claim)
  BY TakeHere DEF From, IsFrame
<1>2. From(g, y)
  BY <1>1 DEF From, Is, IsFrame
<1>3. Kept(y)
  <2>1. least \in Nat /\ slack \in Nat
    BY DEF Owes
  <2>2. /\ y.len = x.len + x.n /\ y.out = x.out + x.n /\ y.claim = x.claim /\ y.n0 = x.n0
        /\ x.len \in Int /\ x.n \in Nat /\ x.n0 \in Nat /\ x.claim \in Int /\ x.out \in Int
    BY <1>1 DEF Is, From, IsFrame
  <2>3. y.len >= least /\ y.len <= y.n0 + slack /\ (y.out = y.len \/ "uneven" \in caveats)
    BY <2>1, <2>2
  <2>4. y.claim \in least .. y.n0 => y.len = y.claim \/ "drifts" \in caveats
    BY <2>1, <2>2 DEF Fits
  <2> HIDE DEF y
  <2> QED BY <1>2, <2>3, <2>4, OverKept
<1> QED BY <1>2, <1>3, ReturnFrom DEF Keep

LEMMA KeepsAll ==
  ASSUME NEW g, NEW least, NEW caveats, OwesAll(g, least, caveats),
         NEW x, From(g, x), x.len >= least, x.len + x.n = x.n0,
         x.out = x.len, Fits(x, caveats)
  PROVE  \A h \in Keep(x) : Result(g, h)
<1> DEFINE y == Take(x, x.n)
<1>1. Is(y, x, x.at, x.n - x.n, x.lim, x.len + x.n, x.out + x.n, x.claim)
  BY TakeHere DEF From, IsFrame
<1>2. From(g, y)
  BY <1>1 DEF From, Is, IsFrame
<1>3. Kept(y)
  <2>1. least \in Nat
    BY DEF OwesAll
  <2>2. /\ y.len = x.len + x.n /\ y.out = x.out + x.n /\ y.claim = x.claim /\ y.n0 = x.n0
        /\ x.len \in Int /\ x.n \in Nat /\ x.n0 \in Nat /\ x.claim \in Int /\ x.out \in Int
    BY <1>1 DEF Is, From, IsFrame
  <2>3. y.len >= least /\ y.len = y.n0 /\ y.out = y.len
    BY <2>1, <2>2
  <2>4. y.claim \in least .. y.n0 => y.len = y.claim \/ "drifts" \in caveats
    BY <2>1, <2>2 DEF Fits
  <2> HIDE DEF y
  <2> QED BY <1>2, <2>3, <2>4, WholeKept
<1> QED BY <1>2, <1>3, ReturnFrom DEF Keep

(* Classes with a header and no unpack() of their own.                     *)
LEMMA PlainRight ==
  ASSUME NEW g, First(g), NEW least, NEW caveats, OwesAll(g, least, caveats)
  PROVE  \A h \in Plain(g, least) : Result(g, h)
<1>0. From(g, g) /\ least \in Nat /\ g.n \in Nat
  BY DEF First, From, IsFrame, OwesAll
<1>1. CASE g.n < least
  BY <1>0, <1>1, RaisesShort DEF Plain
<1>2. CASE ~(g.n < least)
  <2> DEFINE x == Take(g, least)
  <2>1. Is(x, g, "start", g.n - least, 0, least, least, -1)
    BY <1>0, <1>2, Header
  <2>2. /\ From(g, x) /\ x.len >= least /\ x.len + x.n = x.n0 /\ x.out = x.len
        /\ Fits(x, caveats)
    BY <1>0, <1>2, <2>1 DEF Is, From, Fits, First, IsFrame
  <2> HIDE DEF x
  <2>3. \A h \in Keep(x) : Result(g, h)
    BY <2>2, KeepsAll
  <2> QED BY <1>2, <2>3 DEF Plain, x
<1> QED BY <1>1, <1>2

(* The packet keeps one of the classes Cs for all the rest.                *)
LEMMA InnerRight ==
  ASSUME NEW g, NEW least, NEW slack, NEW caveats, Owes(g, least, slack, caveats),
         NEW x, From(g, x), x.len + x.n <= x.n0, x.out = x.len \/ "uneven" \in caveats,
         NEW Cs, NEW low \in Nat, \A c \in Cs : Relied(c, low, slack, caveats), x.len + low >= least,
         x.claim = -1 \/ "drifts" \in caveats \/ (Cs = {"bytes"} /\ Fits(x, caveats))
  PROVE  \A h \in Inner(x, Cs) : Result(g, h)
<1>0. /\ x.len \in Int /\ x.n \in Nat /\ x.n0 \in Nat /\ x.claim \in Int /\ x.out \in Int
      /\ least \in Nat /\ slack \in Nat
  BY DEF From, IsFrame, Owes
<1>1. ASSUME NEW c \in Cs, NEW r \in Gives(c, x.n)
      PROVE  Result(g, Return([Hold(x, r) EXCEPT !.n = 0]))
  <2>1. r \in Nat \X Nat /\ low <= r[1] /\ r[1] <= x.n + slack /\ (r[2] = r[1] \/ "uneven" \in caveats)
    BY <1>0, <1>1, GivesIs
  <2> DEFINE y == Hold(x, r)
             z == [y EXCEPT !.n = 0]
  <2>2. Is(y, x, x.at, Monus(x.n, r[1]), x.lim, x.len + r[1], x.out + r[2], x.claim)
    BY <2>1, HoldIs DEF From
  <2>3. Is(z, y, y.at, 0, y.lim, y.len, y.out, y.claim)
    BY <2>2, Moved DEF Is
  <2>4. /\ From(g, z) /\ z.len = x.len + r[1] /\ z.out = x.out + r[2] /\ z.claim = x.claim /\ z.n0 = x.n0
    BY <2>2, <2>3 DEF Is, From, IsFrame
  <2>5. z.claim \in least .. z.n0 => z.len = z.claim \/ "drifts" \in caveats
    <3>1. CASE x.claim = -1 \/ "drifts" \in caveats
      BY <3>1, <2>4, <1>0
    <3>2. CASE ~(x.claim = -1 \/ "drifts" \in caveats)
      <4>1. c = "bytes" /\ Fits(x, caveats)
        BY <3>2
      <4>2. r[1] = x.n
        <5>1. Relied("bytes", 0, 0, {})
          BY RawRelied
        <5>2. Reports("bytes", x.n) = {x.n} \cap (0 .. x.n)
          BY WholeLengths DEF Reports, Of
        <5> QED BY <4>1, <5>2 DEF Gives
      <4>3. x.claim <= x.n0 => x.claim = x.len + x.n
        BY <3>2, <4>1 DEF Fits
      <4> QED BY <4>2, <4>3, <2>4, <1>0
    <3> QED BY <3>1, <3>2
  <2>6. z.len >= least /\ z.len <= z.n0 + slack /\ (z.out = z.len \/ "uneven" \in caveats)
    BY <1>0, <2>1, <2>4
  <2> HIDE DEF y, z
  <2>7. Kept(z)
    BY <2>4, <2>5, <2>6, OverKept
  <2>8. Result(g, Return(z))
    BY <2>4, <2>7, ReturnFrom
  <2> QED BY <2>8 DEF z, y
<1>2. ASSUME NEW c \in Cs, NEW e \in Errors(c)
      PROVE  Result(g, Raise(x, e))
  <2>1. e = "UnpackError" \/ (e \in Exceptions /\ e \in caveats)
    BY <1>2, ErrorsAre
  <2>2. Declared(g, e)
    BY <2>1, OwesIs DEF Declared
  <2> QED BY <2>2, Raises
<1>3. ~ \E c \in Cs : "unsized" \in Of(c).caveats
  BY DEF Relied
<1> QED BY <1>1, <1>2, <1>3 DEF Inner
(* The rest of the buffer cut to a declared length.                        *)
LEMMA CutsAre ==
  ASSUME NEW g, NEW y, From(g, y), y.len >= 0, y.len + y.n <= y.n0, NEW x \in Cuts(y)
  PROVE  /\ From(g, x) /\ x.at = y.at /\ x.lim = y.lim /\ x.len = y.len /\ x.out = y.out
         /\ x.n <= y.n /\ x.claim >= x.len + x.n
         /\ y.len + y.n = y.n0 => Fits(x, {})
<1>1. PICK m \in Claims(y) : x = Declare(Cut(y, m), y.len + m)
  BY DEF Cuts
<1>2. /\ y.n \in Nat /\ y.n0 \in Nat /\ y.len \in Int /\ m \in Nat /\ m \in Int /\ y.n \in Int
      /\ IsFrame(y) /\ y.n <= y.n0
  BY <1>1 DEF From, IsFrame, Claims
<1>3. Is(Cut(y, m), y, y.at, Least(y.n, m), y.lim, y.len, y.out, y.claim)
  BY <1>2, CutIs
<1>4. Is(x, Cut(y, m), y.at, Least(y.n, m), y.lim, y.len, y.out, y.len + m)
  <2> DEFINE z == Cut(y, m)
             c == y.len + m
  <2>1. IsFrame(z) /\ c \in Int
    BY <1>2, <1>3 DEF Is
  <2> HIDE DEF z, c
  <2>2. Is(Declare(z, c), z, z.at, z.n, z.lim, z.len, z.out, c)
    BY <2>1, DeclareIs
  <2> QED BY <1>1, <1>3, <2>2 DEF Is, z, c
<1>5. Least(y.n, m) <= y.n /\ Least(y.n, m) <= m /\ (m <= y.n => Least(y.n, m) = m)
  BY <1>2 DEF Least
<1>6. From(g, x) /\ x.n <= y.n
  BY <1>2, <1>3, <1>4, <1>5 DEF From, Is, IsFrame
<1>7. x.claim >= x.len + x.n
  BY <1>2, <1>3, <1>4, <1>5 DEF Is, IsFrame
<1>8. y.len + y.n = y.n0 => (x.claim <= x.n0 => x.claim = x.len + x.n)
  BY <1>2, <1>3, <1>4, <1>5 DEF Is, IsFrame
<1> QED BY <1>4, <1>6, <1>7, <1>8 DEF Is, Fits

(* A header, then a value cut to a declared length and handed to a class.  *)
LEMMA TlvRight ==
  ASSUME NEW g, First(g), NEW least, NEW slack, NEW caveats, Owes(g, least, slack, caveats),
         NEW h \in Nat,
         NEW Cs, NEW low \in Nat, \A c \in Cs : Relied(c, low, slack, caveats), h + low >= least,
         "drifts" \in caveats \/ Cs = {"bytes"}
  PROVE  \A r \in Tlv(g, h, Cs) : Result(g, r)
<1>0. From(g, g) /\ g.n \in Nat
  BY DEF First, From, IsFrame
<1>1. CASE g.n < h
  BY <1>0, <1>1, RaisesShort DEF Tlv
<1>2. CASE ~(g.n < h)
  <2> DEFINE y == Take(g, h)
  <2>1. Is(y, g, "start", g.n - h, 0, h, h, -1)
    BY <1>0, <1>2, Header
  <2>2. From(g, y) /\ y.len = h /\ y.out = h /\ y.len + y.n = y.n0
    BY <1>0, <1>2, <2>1 DEF Is, From, First, IsFrame
  <2> HIDE DEF y
  <2>3. ASSUME NEW x \in Cuts(y) PROVE \A r \in Inner(x, Cs) : Result(g, r)
    <3>1. /\ From(g, x) /\ x.len = h /\ x.out = h /\ x.n <= y.n /\ Fits(x, {})
      BY <2>2, CutsAre DEF From, IsFrame
    <3>2. x.len + x.n <= x.n0
      BY <2>2, <3>1 DEF From, IsFrame
    <3>3. Fits(x, caveats)
      BY <3>1 DEF Fits
    <3>4. x.out = x.len /\ x.len + low >= least
      BY <3>1
    <3>5. x.claim = -1 \/ "drifts" \in caveats \/ (Cs = {"bytes"} /\ Fits(x, caveats))
      BY <3>3
    <3> QED BY <3>1, <3>2, <3>4, <3>5, InnerRight
  <2> QED BY <1>2, <2>3 DEF Tlv, y
<1> QED BY <1>1, <1>2

(* What a loop has after one more element.                                 *)
Advanced(x, h, low, slack) ==
  /\ From(x, h) /\ h.at = x.at /\ h.claim = x.claim
  /\ h.n <= x.n /\ h.len >= x.len /\ h.out >= x.out
  /\ Past(h, low)
  /\ h.len <= h.n0 + slack

(* One more element: it raises, or the loop has advanced; on an empty      *)
(* buffer it may run past the end.                                         *)
LEMMA ElementIs ==
  ASSUME NEW x, IsFrame(x), x.n <= x.n0, NEW low \in Nat, Past(x, low),
         NEW c, NEW least \in Nat, NEW slack \in Nat, Relied(c, least, slack, Caveats(x)),
         NEW h \in Element(x, c)
  PROVE  \/ \E e : Declared(x, e) /\ h = Raise(x, e)
         \/ Advanced(x, h, low, slack)
         \/ Advanced(x, h, low, h.len) /\ x.n = 0 /\ least <= slack
<1>0. /\ x.len \in Int /\ x.n \in Nat /\ x.n0 \in Nat /\ x.claim \in Int /\ x.out \in Int /\ x.lim \in Int
  BY DEF IsFrame
<1>1. ASSUME NEW e \in Errors(c), h = Raise(x, e) PROVE Declared(x, e) /\ h = Raise(x, e)
  BY <1>1, ErrorsAre DEF Declared
<1>2. ASSUME NEW r \in Gives(c, x.n), h = [Hold(x, r) EXCEPT !.lim = @ - r[1]]
      PROVE  \/ Advanced(x, h, low, slack)
             \/ Advanced(x, h, low, h.len) /\ x.n = 0 /\ least <= slack
  <2>1. /\ r \in Nat \X Nat /\ least <= r[1] /\ r[1] <= x.n + slack
        /\ r[2] = r[1] \/ "uneven" \in Caveats(x)
    BY <1>0, <1>2, GivesIs
  <2> DEFINE y == Hold(x, r)
  <2>2. Is(y, x, x.at, Monus(x.n, r[1]), x.lim, x.len + r[1], x.out + r[2], x.claim)
    BY <2>1, HoldIs
  <2>3. y.lim \in Int /\ y.lim - r[1] \in Int
    BY <2>1, <2>2, <1>0 DEF Is
  <2>4. Is([y EXCEPT !.lim = y.lim - r[1]], y, y.at, y.n, y.lim - r[1], y.len, y.out, y.claim)
    BY <2>2, <2>3, Limited DEF Is
  <2>5. h = [y EXCEPT !.lim = y.lim - r[1]]
    BY <1>2, <2>2 DEF Is, IsFrame
  <2>6. Monus(x.n, r[1]) \in Nat /\ Monus(x.n, r[1]) <= x.n
        /\ (Monus(x.n, r[1]) > 0 => Monus(x.n, r[1]) = x.n - r[1])
    BY <1>0, <2>1 DEF Monus
  <2>7. /\ From(x, h) /\ h.at = x.at /\ h.claim = x.claim /\ h.n = Monus(x.n, r[1])
        /\ h.len = x.len + r[1] /\ h.out = x.out + r[2] /\ h.n0 = x.n0
    BY <1>0, <2>2, <2>4, <2>5, <2>6 DEF Is, From, IsFrame
  <2>8. h.n <= x.n /\ h.len >= x.len /\ h.out >= x.out
    BY <1>0, <2>1, <2>6, <2>7
  <2>9. Past(h, low)
    <3>1. Caveats(h) = Caveats(x)
      BY <2>7 DEF From, Caveats
    <3>2. h.len >= low /\ (h.n > 0 => h.len + h.n <= h.n0)
      BY <1>0, <2>1, <2>6, <2>7 DEF Past
    <3>3. h.out = h.len \/ "uneven" \in Caveats(h)
      BY <3>1, <2>1, <2>7 DEF Past
    <3> QED BY <3>1, <3>2, <3>3, <2>7 DEF Past
  <2>10. CASE x.n > 0
    <3>1. h.len <= h.n0 + slack
      BY <2>10, <1>0, <2>1, <2>7 DEF Past
    <3> QED BY <3>1, <2>7, <2>8, <2>9 DEF Advanced
  <2>11. CASE ~(x.n > 0)
    <3>1. x.n = 0 /\ least <= slack
      BY <2>11, <1>0, <2>1
    <3>2. h.len <= h.n0 + h.len
      BY <2>7, <1>0, <2>1
    <3> QED BY <3>1, <3>2, <2>7, <2>8, <2>9 DEF Advanced
  <2> QED BY <2>10, <2>11
<1> QED BY <1>1, <1>2 DEF Element

(* An element of a loop that goes on with what it has then.                *)
LEMMA ElementRight ==
  ASSUME NEW x, IsFrame(x), x.n <= x.n0, NEW low \in Nat, Past(x, low),
         NEW c, NEW least \in Nat, NEW slack \in Nat, Relied(c, least, slack, Caveats(x)),
         x.n > 0 \/ slack < least,
         x.at \notin {"returned", "UnpackError", "endless"} \cup Exceptions,
         \A h : Advanced(x, h, low, slack) => Going(h)
  PROVE  \A h \in Element(x, c) : Result(x, h)
<1> SUFFICES ASSUME NEW h \in Element(x, c) PROVE Result(x, h)
  OBVIOUS
<1>1. From(x, x)
  BY DEF From
<1>2. ASSUME NEW e, Declared(x, e), h = Raise(x, e) PROVE Result(x, h)
  BY <1>1, <1>2, Raises
<1>3. ASSUME Advanced(x, h, low, slack) PROVE Result(x, h)
  <2>1. From(x, h) /\ h.at = x.at /\ Going(h)
    BY <1>3 DEF Advanced
  <2> QED BY <2>1, GoesOn
<1>4. ~(x.n = 0 /\ least <= slack)
  BY DEF IsFrame
<1> QED BY <1>2, <1>3, <1>4, ElementIs

(* A loop that is within its buffer may return.                            *)
LEMMA WithinReturns ==
  ASSUME NEW x, IsFrame(x), x.n <= x.n0, NEW least, NEW slack, NEW caveats, Owes(x, least, slack, caveats),
         Within(x, least)
  PROVE  Result(x, Return(x))
<1>1. From(x, x) /\ Caveats(x) = caveats /\ Promise(x.cls).slack = slack /\ least \in Nat
  BY OwesIs DEF From, Owes
<1>2. /\ x.len >= least /\ x.len <= x.n0 + slack /\ (x.out = x.len \/ "uneven" \in caveats)
      /\ x.claim \in least .. x.n0 => x.len = x.claim \/ "drifts" \in caveats
  BY <1>1 DEF Within, Past
<1>3. Kept(x)
  BY <1>1, <1>2, OverKept
<1> QED BY <1>1, <1>3, ReturnFrom

(* The table of promises, as callers and as the classes themselves see it. *)
LEMMA TableOver ==
  ASSUME RoutingTable, NEW c \in RoutingClasses, NEW least \in Nat, NEW slack \in Nat, NEW caveats,
         RoutingPromise(c) = Over(least, slack, caveats)
  PROVE  /\ "unsized" \notin caveats => Relied(c, least, slack, caveats)
         /\ \A g : g.cls = c => Owes(g, least, slack, caveats)
<1>1. Promise(c) = Over(least, slack, caveats) /\ c # "bytes"
  BY DEF RoutingTable, RoutingClasses
<1>2. Of(c) = Over(least, slack, caveats)
  BY <1>1 DEF Of
<1> QED BY <1>1, <1>2, OverRelied DEF Owes

LEMMA TableWhole ==
  ASSUME RoutingTable, NEW c \in RoutingClasses, NEW least \in Nat, NEW caveats,
         RoutingPromise(c) = Whole(least, caveats)
  PROVE  /\ "unsized" \notin caveats => Relied(c, least, 0, caveats)
         /\ \A g : g.cls = c => OwesAll(g, least, caveats)
<1>1. Promise(c) = Whole(least, caveats) /\ c # "bytes"
  BY DEF RoutingTable, RoutingClasses
<1>2. Of(c) = Whole(least, caveats)
  BY <1>1 DEF Of
<1> QED BY <1>1, <1>2, WholeRelied DEF OwesAll

LEMMA TableFixed ==
  ASSUME RoutingTable, NEW c \in RoutingClasses, NEW size \in Nat, NEW need \in Nat, NEW caveats,
         RoutingPromise(c) = Fixed(size, need, caveats)
  PROVE  /\ \A slack \in Nat : "unsized" \notin caveats /\ size <= need + slack => Relied(c, size, slack, caveats)
         /\ \A g : g.cls = c => OwesFixed(g, size, need, caveats)
<1>1. Promise(c) = Fixed(size, need, caveats) /\ c # "bytes"
  BY DEF RoutingTable, RoutingClasses
<1>2. Of(c) = Fixed(size, need, caveats)
  BY <1>1 DEF Of
<1> QED BY <1>1, <1>2, FixedRelied DEF OwesFixed
-----------------------------------------------------------------------------
(* Only these classes have a loop.                                         *)
Loopers == {"BGPOpen", "BGPUpdate", "BGPASPath", "BGPCommunities", "BGPClusterList", "BGPMPReachNLRI",
            "BGPMPUnreachNLRI", "OSPFv2LSU", "OSPFv3LSU", "LSAIntraAreaPrefix", "RIP", "MRTTableDump"}
           \cup PDUs \cup Values \cup Restart

(* The other classes are walked in one step.                               *)
LEMMA NoLoop ==
  ASSUME NEW g, Ready(g), g.cls \notin Loopers
  PROVE  First(g)
BY DEF Ready, Going, BGPLoop, OSPFLoop, OtherLoop, Restarted, Loopers

(* The classes that are a header and what follows it.                      *)
Plain1  == {"BGPAuthentication", "BGPOrigin"}
Plain4  == {"BGPNextHop", "BGPMultiExitDisc", "BGPLocalPref", "BGPOriginatorID", "BGPCommunity",
            "BGPReservedCommunity", "BGPRouteRefresh", "PIM"}
Plain8  == {"OSPFv2DBD", "OSPFv3DBD"}
Plain20 == {"LSAv2Header", "LSAv3Header", "RIPRTE", "RIPAuth", "BGP4MPMessage_32", "HSRP"}
Plains  == Plain1 \cup Plain4 \cup Plain8 \cup Plain20
           \cup {"BGPNotification", "BGPAggregator", "MRTHeader", "BGP4MPMessage"}

(* Authentication, next hops, headers and entries of a fixed layout.       *)
LEMMA PlainClasses ==
  ASSUME RoutingTable, NEW g, Ready(g), g.cls \in Plains
  PROVE  \A h \in RoutingStep(g) : Result(g, h)
<1>1. First(g)
  BY NoLoop DEF Plains, Plain1, Plain4, Plain8, Plain20, Loopers, PDUs, Values, Restart
<1>2. ASSUME NEW k \in Nat, Promise(g.cls) = Whole(k, {}), g.cls # "bytes", RoutingStep(g) = Plain(g, k)
      PROVE  \A h \in RoutingStep(g) : Result(g, h)
  BY <1>1, <1>2, PlainRight DEF OwesAll
<1>3. Promise(g.cls) = RoutingPromise(g.cls) /\ g.cls # "bytes"
  BY DEF RoutingTable, RoutingClasses, Plains, Plain1, Plain4, Plain8, Plain20
<1>4. CASE g.cls \in Plain1
  <2>1. RoutingPromise(g.cls) = Whole(1, {})
    BY <1>4 DEF Plain1, RoutingPromise
  <2>2. RoutingStep(g) = Plain(g, 1)
    BY <1>4 DEF Plain1, RoutingStep, BGPAuthentication, BGPOrigin
  <2> QED BY <1>2, <1>3, <2>1, <2>2
<1>5. CASE g.cls \in Plain4
  <2>1. RoutingPromise(g.cls) = Whole(4, {})
    BY <1>5 DEF Plain4, RoutingPromise
  <2>2. RoutingStep(g) = Plain(g, 4)
    BY <1>5 DEF Plain4, RoutingStep, BGPNextHop, BGPMultiExitDisc, BGPLocalPref, BGPOriginatorID,
                BGPCommunity, BGPReservedCommunity, BGPRouteRefresh, PIM
  <2> QED BY <1>2, <1>3, <2>1, <2>2
<1>6. CASE g.cls \in Plain8
  <2>1. RoutingPromise(g.cls) = Whole(8, {})
    BY <1>6 DEF Plain8, RoutingPromise
  <2>2. RoutingStep(g) = Plain(g, 8)
    BY <1>6 DEF Plain8, RoutingStep, OSPFv2DBD, OSPFv3DBD
  <2> QED BY <1>2, <1>3, <2>1, <2>2
<1>7. CASE g.cls \in Plain20
  <2>1. RoutingPromise(g.cls) = Whole(20, {})
    BY <1>7 DEF Plain20, RoutingPromise
  <2>2. RoutingStep(g) = Plain(g, 20)
    BY <1>7 DEF Plain20, RoutingStep, LSAv2Header, LSAv3Header, RIPRTE, RIPAuth, BGP4MPMessage_32, HSRP
  <2> QED BY <1>2, <1>3, <2>1, <2>2
<1>8. CASE g.cls = "BGPNotification"
  <2>1. RoutingPromise(g.cls) = Whole(2, {}) /\ RoutingStep(g) = Plain(g, 2)
    BY <1>8 DEF RoutingPromise, RoutingStep, BGPNotification
  <2> QED BY <1>2, <1>3, <2>1
<1>9. CASE g.cls = "BGPAggregator"
  <2>1. RoutingPromise(g.cls) = Whole(6, {}) /\ RoutingStep(g) = Plain(g, 6)
    BY <1>9 DEF RoutingPromise, RoutingStep, BGPAggregator
  <2> QED BY <1>2, <1>3, <2>1
<1>10. CASE g.cls = "MRTHeader"
  <2>1. RoutingPromise(g.cls) = Whole(12, {}) /\ RoutingStep(g) = Plain(g, 12)
    BY <1>10 DEF RoutingPromise, RoutingStep, MRTHeader
  <2> QED BY <1>2, <1>3, <2>1
<1>11. CASE g.cls = "BGP4MPMessage"
  <2>1. RoutingPromise(g.cls) = Whole(16, {}) /\ RoutingStep(g) = Plain(g, 16)
    BY <1>11 DEF RoutingPromise, RoutingStep, BGP4MPMessage
  <2> QED BY <1>2, <1>3, <2>1
<1> QED BY <1>4, <1>5, <1>6, <1>7, <1>8, <1>9, <1>10, <1>11 DEF Plains

(* What the classes inside a BGP message can be relied on for.             *)
BGPCaveats == {"AttributeError", "IndexError", "uneven", "drifts"}
(* Parameters, attributes, path segments and routes.                       *)
LEMMA BGPRelied ==
  ASSUME RoutingTable
  PROVE  /\ Relied("BGPParameter", 2, 0, {})
         /\ Relied("BGPAttribute", 3, 2, BGPCaveats)
         /\ \A c \in {"BGPASPathSegment", "BGPASPathSegment4"} : Relied(c, 2, 0, {})
         /\ Relied("BGPSNPA", 1, 0, {})
         /\ Relied("RouteIPV4", 1, 2, {"uneven"})
         /\ Relied("ExtendedRouteIPV4", 5, 2, {"uneven"})
         /\ \A c \in Routes : Relied(c, 1, 2, {"uneven", "IndexError"})
<1>2. Relied("BGPParameter", 2, 0, {})
  <2>1. RoutingPromise("BGPParameter") = Over(2, 0, {"drifts"}) /\ "BGPParameter" \in RoutingClasses
    BY DEF RoutingPromise, RoutingClasses, Upto
  <2> QED BY <2>1, TableOver DEF Relied
<1>3. Relied("BGPAttribute", 3, 2, BGPCaveats)
  <2>1. RoutingPromise("BGPAttribute") = Over(3, 2, BGPCaveats) /\ "BGPAttribute" \in RoutingClasses
    BY DEF RoutingPromise, RoutingClasses, BGPCaveats
  <2>2. "unsized" \notin BGPCaveats
    BY DEF BGPCaveats
  <2> QED BY <2>1, <2>2, TableOver
<1>4. ASSUME NEW c \in {"BGPASPathSegment", "BGPASPathSegment4"} PROVE Relied(c, 2, 0, {})
  <2>1. RoutingPromise(c) = Over(2, 0, {}) /\ c \in RoutingClasses
    BY DEF RoutingPromise, RoutingClasses, Upto
  <2> QED BY <2>1, TableOver
<1>5. Relied("BGPSNPA", 1, 0, {})
  <2>1. RoutingPromise("BGPSNPA") = Over(1, 0, {}) /\ "BGPSNPA" \in RoutingClasses
    BY DEF RoutingPromise, RoutingClasses, Upto
  <2> QED BY <2>1, TableOver
<1>6. \A c \in {"RouteIPV4", "RouteIPV6"} : Relied(c, 1, 2, {"uneven"})
  <2>1. ASSUME NEW c \in {"RouteIPV4", "RouteIPV6"}
        PROVE  RoutingPromise(c) = Over(1, 2, {"uneven"}) /\ c \in RoutingClasses
    BY DEF RoutingPromise, RoutingClasses
  <2> QED BY <2>1, TableOver
<1>7. Relied("ExtendedRouteIPV4", 5, 2, {"uneven"})
  <2>1. RoutingPromise("ExtendedRouteIPV4") = Over(5, 2, {"uneven"}) /\ "ExtendedRouteIPV4" \in RoutingClasses
    BY DEF RoutingPromise, RoutingClasses
  <2> QED BY <2>1, TableOver
<1>8. Relied("RouteEVPN", 2, 2, {"IndexError", "uneven"})
  <2>1. RoutingPromise("RouteEVPN") = Over(2, 2, {"IndexError", "uneven"}) /\ "RouteEVPN" \in RoutingClasses
    BY DEF RoutingPromise, RoutingClasses
  <2> QED BY <2>1, TableOver
<1>9. Relied("RouteGeneric", 1, 0, {})
  <2>1. RoutingPromise("RouteGeneric") = Over(1, 0, {}) /\ "RouteGeneric" \in RoutingClasses
    BY DEF RoutingPromise, RoutingClasses, Upto
  <2> QED BY <2>1, TableOver
<1>10. ASSUME NEW c \in Routes PROVE Relied(c, 1, 2, {"uneven", "IndexError"})
  <2>1. CASE c \in {"RouteIPV4", "RouteIPV6"}
    BY <1>6, <2>1, ReliedMore
  <2>2. CASE c = "RouteEVPN"
    BY <1>8, <2>2, ReliedMore
  <2>3. CASE c = "RouteGeneric"
    BY <1>9, <2>3, ReliedMore
  <2> QED BY <2>1, <2>2, <2>3 DEF Routes
<1> QED BY <1>2, <1>3, <1>4, <1>5, <1>6, <1>7, <1>10

BGPMessages == {"BGPOpen", "BGPUpdate", "BGPNotification", "BGPKeepalive", "BGPRouteRefresh", "bytes"}
BGPAttributes == {"BGPOrigin", "BGPASPath", "BGPNextHop", "BGPMultiExitDisc", "BGPLocalPref",
                  "BGPAtomicAggregate", "BGPAggregator", "BGPCommunities", "BGPOriginatorID",
                  "BGPClusterList", "BGPMPReachNLRI", "BGPMPUnreachNLRI", "bytes"}
(* The messages of BGP.unpack and the attributes of BGP.Update.Attribute.  *)
LEMMA BGPInnerRelied ==
  ASSUME RoutingTable, NEW c \in BGPMessages \cup BGPAttributes
  PROVE  Relied(c, 0, 2, BGPCaveats)
<1>1. CASE c = "bytes"
  BY <1>1, RawRelied, ReliedMore
<1>2. ASSUME NEW least \in Nat, NEW slack \in 0 .. 2, NEW caveats, caveats \subseteq BGPCaveats,
             Relied(c, least, slack, caveats)
      PROVE  Relied(c, 0, 2, BGPCaveats)
  BY <1>2, ReliedMore
<1>3. CASE c \in {"BGPOpen", "BGPUpdate", "BGPASPath", "BGPMPReachNLRI", "BGPMPUnreachNLRI"}
  <2>1. c \in RoutingClasses
    BY <1>3 DEF RoutingClasses
  <2>2. CASE c = "BGPOpen"
    <3>1. RoutingPromise(c) = Over(10, 0, {})
      BY <2>2 DEF RoutingPromise, Upto
    <3>2. Relied(c, 10, 0, {})
      BY <3>1, <2>1, TableOver
    <3> QED BY <3>2, <1>2
  <2>3. CASE c = "BGPUpdate"
    <3>1. RoutingPromise(c) = Over(4, 2, {"AttributeError", "IndexError", "uneven"})
      BY <2>3 DEF RoutingPromise
    <3>2. Relied(c, 4, 2, {"AttributeError", "IndexError", "uneven"})
      BY <3>1, <2>1, TableOver
    <3> QED BY <3>2, <1>2 DEF BGPCaveats
  <2>4. CASE c = "BGPASPath"
    <3>1. RoutingPromise(c) = Over(0, 0, {})
      BY <2>4 DEF RoutingPromise, Upto
    <3>2. Relied(c, 0, 0, {})
      BY <3>1, <2>1, TableOver
    <3> QED BY <3>2, <1>2
  <2>5. CASE c = "BGPMPReachNLRI"
    <3>1. RoutingPromise(c) = Over(5, 2, {"IndexError", "uneven"})
      BY <2>5 DEF RoutingPromise
    <3>2. Relied(c, 5, 2, {"IndexError", "uneven"})
      BY <3>1, <2>1, TableOver
    <3> QED BY <3>2, <1>2 DEF BGPCaveats
  <2>6. CASE c = "BGPMPUnreachNLRI"
    <3>1. RoutingPromise(c) = Over(3, 2, {"IndexError", "uneven"})
      BY <2>6 DEF RoutingPromise
    <3>2. Relied(c, 3, 2, {"IndexError", "uneven"})
      BY <3>1, <2>1, TableOver
    <3> QED BY <3>2, <1>2 DEF BGPCaveats
  <2> QED BY <1>3, <2>2, <2>3, <2>4, <2>5, <2>6
<1>4. CASE c \in {"BGPKeepalive", "BGPAtomicAggregate"}
  <2>1. RoutingPromise(c) = Fixed(0, 0, {}) /\ c \in RoutingClasses
    BY <1>4 DEF RoutingPromise, RoutingClasses
  <2>2. Relied(c, 0, 0, {})
    BY <2>1, TableFixed
  <2> QED BY <2>2, <1>2
<1>5. ASSUME NEW least \in Nat, NEW caveats, RoutingPromise(c) = Whole(least, caveats), c \in RoutingClasses,
             caveats \subseteq BGPCaveats
      PROVE  Relied(c, 0, 2, BGPCaveats)
  <2>1. Relied(c, least, 0, caveats)
    BY <1>5, TableWhole DEF BGPCaveats
  <2> QED BY <1>5, <2>1, <1>2
<1>6. CASE c \in {"BGPNotification", "BGPAggregator", "BGPOrigin"}
  <2>1. /\ c \in RoutingClasses
        /\ RoutingPromise(c) \in {Whole(1, {}), Whole(2, {}), Whole(6, {})}
    BY <1>6 DEF RoutingPromise, RoutingClasses
  <2> QED BY <2>1, <1>5
<1>7. CASE c \in {"BGPRouteRefresh", "BGPNextHop", "BGPMultiExitDisc", "BGPLocalPref", "BGPOriginatorID"}
  <2>1. c \in RoutingClasses /\ RoutingPromise(c) = Whole(4, {})
    BY <1>7 DEF RoutingPromise, RoutingClasses
  <2> QED BY <2>1, <1>5
<1>8. CASE c \in {"BGPCommunities", "BGPClusterList"}
  <2>1. c \in RoutingClasses /\ RoutingPromise(c) = Whole(0, {"AttributeError"})
    BY <1>8 DEF RoutingPromise, RoutingClasses
  <2> QED BY <2>1, <1>5 DEF BGPCaveats
<1> QED BY <1>1, <1>3, <1>4, <1>6, <1>7, <1>8 DEF BGPMessages, BGPAttributes

(* A message is cut to the length in its header, or by it.                 *)
LEMMA BGPRight ==
  ASSUME RoutingTable, NEW g, First(g), g.cls = "BGP"
  PROVE  \A h \in BGP(g) : Result(g, h)
<1>0. From(g, g) /\ g.n \in Nat
  BY DEF First, From, IsFrame
<1>1. Owes(g, 19, 2, BGPCaveats)
  <2>1. RoutingPromise("BGP") = Over(19, 2, BGPCaveats) /\ "BGP" \in RoutingClasses
    BY DEF RoutingPromise, RoutingClasses, BGPCaveats
  <2> QED BY <2>1, TableOver
<1>2. CASE g.n < 19
  BY <1>0, <1>2, RaisesShort DEF BGP
<1>3. CASE ~(g.n < 19)
  <2> DEFINE y == Take(g, 19)
             TooSmall == {Declare(Cut(y, m), 18) : m \in Monus(y.n, 19) .. (y.n - 1)}
  <2>1. Is(y, g, "start", g.n - 19, 0, 19, 19, -1)
    BY <1>0, <1>3, Header
  <2>2. From(g, y) /\ y.len = 19 /\ y.out = 19 /\ y.len + y.n = y.n0 /\ IsFrame(y) /\ y.n \in Nat
    BY <1>0, <1>3, <2>1 DEF Is, From, First, IsFrame
  <2> HIDE DEF y
  <2>3. ASSUME NEW x \in Cuts(y) \cup TooSmall
        PROVE  From(g, x) /\ x.len = 19 /\ x.out = 19 /\ x.n <= y.n
    <3>1. CASE x \in Cuts(y)
      <4>1. y.len >= 0 /\ y.len + y.n <= y.n0
        BY <2>2 DEF IsFrame
      <4> QED BY <3>1, <4>1, <2>2, CutsAre
    <3>2. CASE x \in TooSmall
      <4>1. PICK m \in Monus(y.n, 19) .. (y.n - 1) : x = Declare(Cut(y, m), 18)
        BY <3>2
      <4>2. m \in Nat /\ m \in Int /\ y.n \in Int
        BY <4>1, <2>2, MonusIs
      <4>3. Is(Cut(y, m), y, y.at, Least(y.n, m), y.lim, y.len, y.out, y.claim)
        BY <4>2, <2>2, CutIs
      <4>4. Is(x, Cut(y, m), y.at, Least(y.n, m), y.lim, y.len, y.out, 18)
        <5> DEFINE z == Cut(y, m)
        <5>1. IsFrame(z)
          BY <4>3 DEF Is
        <5> HIDE DEF z
        <5>2. Is(Declare(z, 18), z, z.at, z.n, z.lim, z.len, z.out, 18)
          BY <5>1, DeclareIs
        <5> QED BY <4>1, <4>3, <5>2 DEF Is, z
      <4>5. Least(y.n, m) <= y.n
        BY <4>2, <2>2 DEF Least
      <4> QED BY <4>3, <4>4, <4>5, <2>2 DEF Is, From, IsFrame
    <3> QED BY <2>3, <3>1, <3>2
  <2>4. ASSUME NEW x \in Cuts(y) \cup TooSmall
        PROVE  \A h \in Inner(x, BGPMessages) : Result(g, h)
    <3>1. From(g, x) /\ x.len = 19 /\ x.out = 19 /\ x.n <= y.n
      BY <2>3
    <3>2. x.len + x.n <= x.n0 /\ x.out = x.len /\ x.len + 0 >= 19
      BY <3>1, <2>2 DEF From, IsFrame
    <3>3. \A c \in BGPMessages : Relied(c, 0, 2, BGPCaveats)
      BY BGPInnerRelied
    <3>4. "drifts" \in BGPCaveats
      BY DEF BGPCaveats
    <3> QED BY <1>1, <3>1, <3>2, <3>3, <3>4, InnerRight
  <2> QED BY <1>3, <2>4 DEF BGP, BGPMessages, y
<1> QED BY <1>2, <1>3

(* BGP.Update.Attribute.unpack: flags, type, a length of one or two bytes. *)
LEMMA BGPAttributeRight ==
  ASSUME RoutingTable, NEW g, First(g), g.cls = "BGPAttribute"
  PROVE  \A h \in BGPAttribute(g) : Result(g, h)
<1>0. From(g, g) /\ g.n \in Nat
  BY DEF First, From, IsFrame
<1>1. Owes(g, 3, 2, BGPCaveats)
  <2>1. RoutingPromise("BGPAttribute") = Over(3, 2, BGPCaveats) /\ "BGPAttribute" \in RoutingClasses
    BY DEF RoutingPromise, RoutingClasses, BGPCaveats
  <2> QED BY <2>1, TableOver
<1>2. CASE g.n < 2
  BY <1>0, <1>2, RaisesShort DEF BGPAttribute
<1>3. CASE ~(g.n < 2)
  <2> DEFINE y == Take(g, 2)
             Of2(k) == IF y.n < k THEN Short(y) ELSE UNION {Inner(x, BGPAttributes) : x \in Cuts(Take(y, k))}
  <2>1. Is(y, g, "start", g.n - 2, 0, 2, 2, -1)
    BY <1>0, <1>3, Header
  <2>2. From(g, y) /\ y.len = 2 /\ y.out = 2 /\ y.len + y.n = y.n0 /\ IsFrame(y) /\ y.n \in Nat
    BY <1>0, <1>3, <2>1 DEF Is, From, First, IsFrame
  <2> HIDE DEF y
  <2>3. ASSUME NEW k \in {1, 2} PROVE \A h \in Of2(k) : Result(g, h)
    <3>1. CASE y.n < k
      BY <3>1, <2>2, RaisesShort
    <3>2. CASE ~(y.n < k)
      <4> DEFINE z == Take(y, k)
      <4>1. k \in Nat /\ k <= y.n
        BY <3>2, <2>2
      <4>2. Is(z, y, y.at, y.n - k, y.lim, y.len + k, y.out + k, y.claim)
        BY <4>1, <2>2, TakeHere
      <4>3. From(g, z) /\ z.len = 2 + k /\ z.out = 2 + k /\ z.len + z.n = z.n0 /\ z.len >= 0
        BY <4>1, <4>2, <2>2 DEF Is, From, IsFrame
      <4> HIDE DEF z
      <4>4. ASSUME NEW x \in Cuts(z) PROVE \A h \in Inner(x, BGPAttributes) : Result(g, h)
        <5>1. From(g, x) /\ x.len = 2 + k /\ x.out = 2 + k /\ x.n <= z.n
          BY <4>3, CutsAre DEF From, IsFrame
        <5>2. x.len + x.n <= x.n0 /\ x.out = x.len /\ x.len + 0 >= 3
          BY <5>1, <4>3 DEF From, IsFrame
        <5>3. \A c \in BGPAttributes : Relied(c, 0, 2, BGPCaveats)
          BY BGPInnerRelied
        <5>4. "drifts" \in BGPCaveats
          BY DEF BGPCaveats
        <5> QED BY <1>1, <5>1, <5>2, <5>3, <5>4, InnerRight
      <4> QED BY <3>2, <4>4 DEF z
    <3> QED BY <3>1, <3>2
  <2>4. BGPAttribute(g) = UNION {Of2(k) : k \in {1, 2}}
    BY <1>3 DEF BGPAttribute, BGPAttributes, y
  <2> QED BY <2>3, <2>4
<1> QED BY <1>2, <1>3

(* Classes that are a length and a value.                                  *)
LEMMA BGPTlvsRight ==
  ASSUME RoutingTable, NEW g, First(g), g.cls \in {"BGPParameter", "BGPCapability", "BGPSNPA", "RouteGeneric"}
  PROVE  \A h \in RoutingStep(g) : Result(g, h)
<1>1. Relied("bytes", 0, 0, {})
  BY RawRelied
<1>2. CASE g.cls = "BGPParameter"
  <2> DEFINE Cs == {"BGPAuthentication", "BGPCapability", "bytes"}
  <2>1. Owes(g, 2, 0, {"drifts"})
    <3>1. RoutingPromise("BGPParameter") = Over(2, 0, {"drifts"}) /\ "BGPParameter" \in RoutingClasses
      BY DEF RoutingPromise, RoutingClasses, Upto
    <3> QED BY <1>2, <3>1, TableOver
  <2>2. Relied("BGPAuthentication", 1, 0, {})
    <3>1. RoutingPromise("BGPAuthentication") = Whole(1, {}) /\ "BGPAuthentication" \in RoutingClasses
      BY DEF RoutingPromise, RoutingClasses
    <3> QED BY <3>1, TableWhole
  <2>3. Relied("BGPCapability", 2, 0, {})
    <3>1. RoutingPromise("BGPCapability") = Over(2, 0, {}) /\ "BGPCapability" \in RoutingClasses
      BY DEF RoutingPromise, RoutingClasses, Upto
    <3> QED BY <3>1, TableOver
  <2>4. \A c \in Cs : Relied(c, 0, 0, {"drifts"})
    BY <1>1, <2>2, <2>3, ReliedMore
  <2>5. "drifts" \in {"drifts"}
    OBVIOUS
  <2> HIDE DEF Cs
  <2>6. \A h \in Tlv(g, 2, Cs) : Result(g, h)
    BY <2>1, <2>4, <2>5, TlvRight
  <2>7. RoutingStep(g) = Tlv(g, 2, Cs)
    BY <1>2 DEF RoutingStep, BGPParameter, Cs
  <2> QED BY <2>6, <2>7
<1>3. ASSUME NEW k \in Nat, Owes(g, k, 0, {}), RoutingStep(g) = Tlv(g, k, {"bytes"})
      PROVE  \A h \in RoutingStep(g) : Result(g, h)
  BY <1>1, <1>3, TlvRight
<1>4. CASE g.cls = "BGPCapability"
  <2>1. /\ RoutingPromise(g.cls) = Over(2, 0, {}) /\ g.cls \in RoutingClasses
        /\ RoutingStep(g) = Tlv(g, 2, {"bytes"})
    BY <1>4 DEF RoutingPromise, RoutingClasses, Upto, RoutingStep, BGPCapability
  <2> QED BY <1>3, <2>1, TableOver
<1>5. CASE g.cls \in {"BGPSNPA", "RouteGeneric"}
  <2>1. /\ RoutingPromise(g.cls) = Over(1, 0, {}) /\ g.cls \in RoutingClasses
        /\ RoutingStep(g) = Tlv(g, 1, {"bytes"})
    BY <1>5 DEF RoutingPromise, RoutingClasses, Upto, RoutingStep, BGPSNPA, RouteGeneric
  <2> QED BY <1>3, <2>1, TableOver
<1> QED BY <1>2, <1>4, <1>5

(* Atomic aggregates and keepalives have no bytes.                         *)
LEMMA BGPEmptyRight ==
  ASSUME RoutingTable, NEW g, First(g), g.cls \in {"BGPAtomicAggregate", "BGPKeepalive"}
  PROVE  \A h \in RoutingStep(g) : Result(g, h)
<1>1. OwesFixed(g, 0, 0, {})
  <2>1. RoutingPromise(g.cls) = Fixed(0, 0, {}) /\ g.cls \in RoutingClasses
    BY DEF RoutingPromise, RoutingClasses
  <2> QED BY <2>1, TableFixed
<1>2. From(g, g) /\ g.len = 0 /\ g.n0 >= 0 /\ g.out = g.len /\ g.claim = -1
  BY DEF First, From, IsFrame
<1>3. Kept(g)
  BY <1>1, <1>2, FixedKept
<1>4. RoutingStep(g) = {Return(g)}
  BY DEF RoutingStep, BGPAtomicAggregate, BGPKeepalive
<1> QED BY <1>2, <1>3, <1>4, ReturnFrom

(* Four bytes an AS number, as many as there are: the segment ends where   *)
(* its count says or where the data does.                                  *)
LEMMA BGPSegmentRight ==
  ASSUME RoutingTable, NEW g, First(g), g.cls \in {"BGPASPathSegment", "BGPASPathSegment4"}
  PROVE  \A h \in RoutingStep(g) : Result(g, h)
<1>0. From(g, g) /\ g.n \in Nat
  BY DEF First, From, IsFrame
<1>1. Owes(g, 2, 0, {})
  <2>1. ASSUME NEW c \in {"BGPASPathSegment", "BGPASPathSegment4"}
        PROVE  RoutingPromise(c) = Over(2, 0, {}) /\ c \in RoutingClasses
    BY DEF RoutingPromise, RoutingClasses, Upto
  <2> QED BY <2>1, TableOver
<1>2. CASE g.n < 2
  <2>1. RoutingStep(g) = Short(g)
    BY <1>2 DEF RoutingStep, BGPASPathSegment, BGPASPathSegment4
  <2> QED BY <1>0, <2>1, RaisesShort
<1>3. CASE ~(g.n < 2)
  <2> DEFINE y == Take(g, 2)
  <2>1. Is(y, g, "start", g.n - 2, 0, 2, 2, -1)
    BY <1>0, <1>3, Header
  <2>2. From(g, y) /\ y.len = 2 /\ y.out = 2 /\ y.len + y.n = y.n0 /\ IsFrame(y) /\ y.n \in Nat
    BY <1>0, <1>3, <2>1 DEF Is, From, First, IsFrame
  <2> HIDE DEF y
  <2>3. ASSUME NEW c \in Int, NEW t \in Nat, t <= y.n, c <= 2 + y.n => t = c - 2
        PROVE  Result(g, Return(Take(Declare(y, c), t)))
    <3> DEFINE d == Declare(y, c)
               z == Take(d, t)
    <3>1. Is(d, y, y.at, y.n, y.lim, y.len, y.out, c)
      BY <2>2, DeclareIs
    <3>2. Is(z, d, d.at, d.n - t, d.lim, d.len + t, d.out + t, d.claim)
      <4>1. IsFrame(d) /\ t <= d.n
        BY <2>3, <3>1 DEF Is
      <4> HIDE DEF d
      <4> QED BY <4>1, TakeHere
    <3>3. /\ From(g, z) /\ z.len = 2 + t /\ z.out = 2 + t /\ z.claim = c /\ z.n0 = y.n0 /\ y.n0 = 2 + y.n
      BY <2>2, <2>3, <3>1, <3>2 DEF Is, From, IsFrame
    <3> HIDE DEF d, z
    <3>4. /\ z.len >= 2 /\ z.len <= z.n0 + 0 /\ z.out = z.len
          /\ z.claim \in 2 .. z.n0 => z.len = z.claim
      BY <2>2, <2>3, <3>3
    <3>5. Kept(z)
      BY <1>1, <3>3, <3>4, OverKept
    <3> QED BY <3>3, <3>5, ReturnFrom DEF z, d
  <2>4. CASE g.cls = "BGPASPathSegment"
    <3>1. RoutingStep(g) = UNION {(IF y.n < 2 * k THEN Short(y)
                                   ELSE {Return(Take(Declare(y, 2 + 2 * k), 2 * k))}) : k \in Claims(y)}
      BY <1>3, <2>4 DEF RoutingStep, BGPASPathSegment, y
    <3>2. ASSUME NEW k \in Claims(y), ~(y.n < 2 * k)
          PROVE  Result(g, Return(Take(Declare(y, 2 + 2 * k), 2 * k)))
      <4>1. k \in Nat
        BY <2>2 DEF Claims
      <4>2. 2 + 2 * k \in Int /\ 2 * k \in Nat /\ 2 * k <= y.n /\ 2 * k = (2 + 2 * k) - 2
        BY <3>2, <4>1, <2>2
      <4> QED BY <4>2, <2>3
    <3> QED BY <2>2, <3>1, <3>2, RaisesShort
  <2>5. CASE g.cls = "BGPASPathSegment4"
    <3>1. RoutingStep(g) = {Return(Take(Declare(y, 2 + 4 * k), 4 * Least(k, y.n \div 4))) : k \in Claims(y)}
      BY <1>3, <2>5 DEF RoutingStep, BGPASPathSegment4, y
    <3>2. ASSUME NEW k \in Claims(y)
          PROVE  Result(g, Return(Take(Declare(y, 2 + 4 * k), 4 * Least(k, y.n \div 4))))
      <4>1. k \in Nat
        BY <2>2 DEF Claims
      <4> DEFINE q == y.n \div 4
                 t == 4 * Least(k, q)
      <4>2. q \in Nat /\ 4 * q <= y.n /\ y.n < 4 * q + 4
        BY <2>2
      <4> HIDE DEF q
      <4>3. t \in Nat /\ t <= y.n /\ (2 + 4 * k <= 2 + y.n => t = (2 + 4 * k) - 2)
        BY <2>2, <4>1, <4>2 DEF Least
      <4>4. 2 + 4 * k \in Int
        BY <4>1
      <4> HIDE DEF t
      <4>5. Result(g, Return(Take(Declare(y, 2 + 4 * k), t)))
        BY <4>3, <4>4, <2>3
      <4> QED BY <4>5 DEF t, q
    <3> QED BY <3>1, <3>2
  <2> QED BY <2>4, <2>5
<1> QED BY <1>2, <1>3

(* A prefix of k bytes: len() counts k of them whatever the data holds.    *)
LEMMA PrefixRight ==
  ASSUME NEW g, First(g), NEW h \in Nat, Owes(g, h, 2, {"uneven"}), NEW width \in Nat
  PROVE  \A r \in Prefix(g, h, width) : Result(g, r)
<1>0. From(g, g) /\ g.n \in Nat
  BY DEF First, From, IsFrame
<1>1. CASE g.n < h
  BY <1>0, <1>1, RaisesShort DEF Prefix
<1>2. CASE ~(g.n < h)
  <2> DEFINE y == Take(g, h)
             Out(k) == h + (IF k > width THEN Least(k, IF y.n > width THEN y.n ELSE width) ELSE k)
             z(k) == [y EXCEPT !.len = h + k, !.out = Out(k)]
             r(k) == Declare(Return(z(k)), h + k)
  <2>1. Is(y, g, "start", g.n - h, 0, h, h, -1)
    BY <1>0, <1>2, Header
  <2>2. From(g, y) /\ h + y.n = y.n0 /\ IsFrame(y) /\ y.n \in Nat
    BY <1>0, <1>2, <2>1 DEF Is, From, First, IsFrame
  <2>3. Prefix(g, h, width) = {r(k) : k \in Claims(y)}
    BY <1>2 DEF Prefix
  <2> HIDE DEF y
  <2>4. ASSUME NEW k \in Claims(y) PROVE Result(g, r(k))
    <3>1. k \in Nat /\ k <= y.n + 2
      BY <2>2 DEF Claims
    <3> DEFINE o == Out(k)
               l == h + k
    <3>2. o \in Int /\ l \in Int
      BY <3>1, <2>2 DEF Least
    <3> HIDE DEF o
    <3>3. Is(z(k), y, y.at, y.n, y.lim, l, o, y.claim)
      <4> HIDE DEF l
      <4>1. Is([y EXCEPT !.len = l, !.out = o], y, y.at, y.n, y.lim, l, o, y.claim)
        BY <3>2, <2>2, Measured
      <4> QED BY <4>1 DEF o, l
    <3> DEFINE zz == z(k)
    <3>4. IsFrame(zz)
      BY <3>3 DEF Is
    <3>5. Is(Return(zz), zz, "returned", zz.n, zz.lim, zz.len, zz.out, zz.claim)
      <4> HIDE DEF zz
      <4> QED BY <3>4, ReturnIs
    <3>6. Is(r(k), Return(zz), "returned", zz.n, zz.lim, zz.len, zz.out, l)
      <4> DEFINE w == Return(zz)
      <4>1. IsFrame(w)
        BY <3>5 DEF Is
      <4> HIDE DEF w, l
      <4>2. Is(Declare(w, l), w, w.at, w.n, w.lim, w.len, w.out, l)
        BY <4>1, <3>2, DeclareIs
      <4> HIDE DEF zz
      <4> QED BY <4>2, <3>5 DEF Is, w, l, zz
    <3> HIDE DEF zz
    <3>7. /\ From(g, r(k)) /\ r(k).at = "returned" /\ r(k).len = h + k /\ r(k).claim = h + k
          /\ r(k).n0 = y.n0
      BY <3>3, <3>5, <3>6, <2>2 DEF Is, From, IsFrame, zz
    <3> DEFINE rr == r(k)
    <3> HIDE DEF rr
    <3>8. From(g, rr) /\ rr.at = "returned" /\ rr.len = h + k /\ rr.claim = h + k /\ rr.n0 = y.n0
      BY <3>7 DEF rr
    <3>9. /\ rr.len >= h /\ rr.len <= rr.n0 + 2 /\ "uneven" \in {"uneven"} /\ rr.len = rr.claim
      BY <3>1, <3>8, <2>2
    <3>10. Kept(rr)
      BY <3>8, <3>9, OverKept
    <3>11. Result(g, rr)
      BY <3>8, <3>10, Returns
    <3> QED BY <3>11 DEF rr
  <2> QED BY <2>3, <2>4
<1> QED BY <1>1, <1>2

(* RouteIPV4, RouteIPV6 and ExtendedRouteIPV4: a length in bits, rounded   *)
(* up to bytes.                                                            *)
LEMMA BGPRoutesRight ==
  ASSUME RoutingTable, NEW g, First(g), g.cls \in {"RouteIPV4", "RouteIPV6", "ExtendedRouteIPV4"}
  PROVE  \A h \in RoutingStep(g) : Result(g, h)
<1>1. CASE g.cls \in {"RouteIPV4", "RouteIPV6"}
  <2>1. RoutingPromise(g.cls) = Over(1, 2, {"uneven"}) /\ g.cls \in RoutingClasses
    BY <1>1 DEF RoutingPromise, RoutingClasses
  <2>2. RoutingStep(g) \in {Prefix(g, 1, 4), Prefix(g, 1, 16)}
    BY <1>1 DEF RoutingStep, RouteIPV4, RouteIPV6
  <2>3. Owes(g, 1, 2, {"uneven"})
    BY <2>1, TableOver
  <2>4. \A w \in Nat : \A h \in Prefix(g, 1, w) : Result(g, h)
    BY <2>3, PrefixRight
  <2> QED BY <2>2, <2>4
<1>2. CASE g.cls = "ExtendedRouteIPV4"
  <2>1. RoutingPromise(g.cls) = Over(5, 2, {"uneven"}) /\ g.cls \in RoutingClasses
    BY <1>2 DEF RoutingPromise, RoutingClasses
  <2>2. RoutingStep(g) = Prefix(g, 5, 4)
    BY <1>2 DEF RoutingStep, ExtendedRouteIPV4
  <2>3. Owes(g, 5, 2, {"uneven"})
    BY <2>1, TableOver
  <2> QED BY <2>2, <2>3, PrefixRight
<1> QED BY <1>1, <1>2

(* RouteEVPN.unpack: fields behind one another, by the type of the route.  *)
LEMMA RouteEVPNRight ==
  ASSUME RoutingTable, NEW g, First(g), g.cls = "RouteEVPN"
  PROVE  \A h \in RouteEVPN(g) : Result(g, h)
<1> DEFINE caveats == {"IndexError", "uneven"}
<1>0. From(g, g) /\ g.n \in Nat
  BY DEF First, From, IsFrame
<1>1. Owes(g, 2, 2, caveats)
  <2>1. RoutingPromise("RouteEVPN") = Over(2, 2, caveats) /\ "RouteEVPN" \in RoutingClasses
    BY DEF RoutingPromise, RoutingClasses
  <2> QED BY <2>1, TableOver
<1>2. CASE g.n < 2
  BY <1>0, <1>2, RaisesShort DEF RouteEVPN
<1>3. CASE ~(g.n < 2)
  <2> DEFINE y == Take(g, 2)
             kept(k) == Declare(Return([y EXCEPT !.len = 2 + k, !.out = 2 + Least(k, y.n)]), 2 + k)
  <2>1. Is(y, g, "start", g.n - 2, 0, 2, 2, -1)
    BY <1>0, <1>3, Header
  <2>2. From(g, y) /\ 2 + y.n = y.n0 /\ IsFrame(y) /\ y.n \in Nat
    BY <1>0, <1>3, <2>1 DEF Is, From, First, IsFrame
  <2>3. \A h \in RouteEVPN(g) : h = Raise(y, "IndexError") \/ \E k \in Claims(y) : h = kept(k)
    <3> DEFINE AfterIds(k, t) == Least(k, y.n) - 8 - (IF t # 3 THEN 10 ELSE 0) - (IF t # 4 THEN 4 ELSE 0)
               AfterMac(k, t) == IF t = 2 THEN {AfterIds(k, t) - 1, AfterIds(k, t) - 7} ELSE {AfterIds(k, t)}
               Bad(k, t, b)   == (t = 2 /\ AfterIds(k, t) < 1) \/ (t # 1 /\ b < 1)
               B(k) == UNION {AfterMac(k, t) : t \in 1 .. 4}
               S(k) == {IF Bad(k, t, b) THEN Raise(y, "IndexError") ELSE kept(k) : t \in 1 .. 4, b \in B(k)}
    <3>1. RouteEVPN(g) = UNION {S(k) : k \in Claims(y)}
      BY <1>3 DEF RouteEVPN
    <3> HIDE DEF y, kept, B, Bad
    <3>2. ASSUME NEW k \in Claims(y), NEW h \in S(k) PROVE h = Raise(y, "IndexError") \/ h = kept(k)
      OBVIOUS
    <3> HIDE DEF S
    <3> QED BY <3>1, <3>2
  <2> HIDE DEF y
  <2>4. Result(g, Raise(y, "IndexError"))
    <3>1. Declared(g, "IndexError")
      BY <1>1, OwesIs DEF Declared, Exceptions
    <3> QED BY <3>1, <2>2, Raises
  <2>5. ASSUME NEW k \in Claims(y) PROVE Result(g, kept(k))
    <3>1. k \in Nat /\ k <= y.n + 2
      BY <2>2 DEF Claims
    <3> DEFINE l == 2 + k
               o == 2 + Least(k, y.n)
               z == [y EXCEPT !.len = l, !.out = o]
               w == Return(z)
               r == Declare(w, l)
    <3>2. l \in Int /\ o \in Int
      BY <3>1, <2>2 DEF Least
    <3>3. Is(z, y, y.at, y.n, y.lim, l, o, y.claim)
      <4> HIDE DEF l, o
      <4> QED BY <3>2, <2>2, Measured
    <3>4. Is(w, z, "returned", z.n, z.lim, z.len, z.out, z.claim)
      <4>1. IsFrame(z)
        BY <3>3 DEF Is
      <4> HIDE DEF z
      <4> QED BY <4>1, ReturnIs
    <3>5. Is(r, w, w.at, w.n, w.lim, w.len, w.out, l)
      <4>1. IsFrame(w)
        BY <3>4 DEF Is
      <4> HIDE DEF w, l
      <4> QED BY <4>1, <3>2, DeclareIs
    <3> HIDE DEF w, z
    <3>6. From(g, r) /\ r.at = "returned" /\ r.len = l /\ r.claim = l /\ r.n0 = y.n0
      BY <3>3, <3>4, <3>5, <2>2 DEF Is, From, IsFrame
    <3> HIDE DEF r
    <3>7. r.len >= 2 /\ r.len <= r.n0 + 2 /\ "uneven" \in caveats /\ r.len = r.claim
      BY <3>1, <3>6, <2>2
    <3>8. Kept(r)
      BY <1>1, <3>6, <3>7, OverKept
    <3>9. Result(g, r)
      BY <3>6, <3>8, Returns
    <3>10. kept(k) = r
      BY DEF r, w, z
    <3> QED BY <3>9, <3>10
  <2> QED BY <2>3, <2>4, <2>5
<1> QED BY <1>2, <1>3

(* A loop that goes on keeps what is within the buffer within it.          *)
LEMMA AdvancedWithin ==
  ASSUME NEW x, IsFrame(x), NEW least, NEW slack, NEW caveats, Owes(x, least, slack, caveats),
         NEW low, NEW more \in Nat, more <= slack, NEW h, Advanced(x, h, low, more)
  PROVE  Within(h, low) /\ h.cls = x.cls /\ h.at = x.at /\ h.out >= x.out
<1>1. Promise(h.cls).slack = slack /\ slack \in Nat /\ h.n0 \in Nat /\ h.len \in Int
  BY OwesIs DEF Advanced, From, Owes, IsFrame
<1> QED BY <1>1 DEF Within, Advanced, From

(* The loop after a header of k bytes.                                     *)
LEMMA LoopFirst ==
  ASSUME NEW g, First(g), NEW least, NEW slack, NEW caveats, Owes(g, least, slack, caveats),
         NEW k \in Nat, k <= g.n, NEW label, NEW lim \in Int
  PROVE  /\ From(g, Loop(Take(g, k), label, lim))
         /\ Loop(Take(g, k), label, lim).at = label /\ Loop(Take(g, k), label, lim).out >= 0
         /\ Loop(Take(g, k), label, lim).len >= 0
         /\ Within(Loop(Take(g, k), label, lim), k)
<1> DEFINE y == Take(g, k)
           h == Loop(y, label, lim)
<1>1. Is(y, g, "start", g.n - k, 0, k, k, -1)
  BY Header
<1>2. Is(h, y, label, y.n, lim, y.len, y.out, y.claim)
  <2>1. IsFrame(y)
    BY <1>1 DEF Is
  <2> HIDE DEF y
  <2> QED BY <2>1, LoopIs
<1> HIDE DEF y, h
<1>3. From(g, h) /\ h.at = label /\ h.out = k /\ h.len = k /\ h.n = g.n - k /\ h.claim = -1
  BY <1>1, <1>2 DEF Is, From, First, IsFrame
<1>4. g.n \in Nat /\ g.n = g.n0 /\ h.n0 = g.n0 /\ slack \in Nat
  BY <1>3 DEF First, IsFrame, Owes, From
<1>5. Promise(h.cls).slack = slack
  BY <1>3, OwesIs DEF From
<1>6. Within(h, k)
  BY <1>3, <1>4, <1>5 DEF Within, Past
<1> QED BY <1>3, <1>6 DEF h, y

(* BGP.Open.unpack: the parameters after their length.                     *)
LEMMA BGPOpenRight ==
  ASSUME RoutingTable, NEW g, Ready(g), g.cls = "BGPOpen"
  PROVE  \A h \in BGPOpen(g) : Result(g, h)
<1>1. Owes(g, 10, 0, {})
  <2>1. RoutingPromise("BGPOpen") = Over(10, 0, {}) /\ "BGPOpen" \in RoutingClasses
    BY DEF RoutingPromise, RoutingClasses, Upto
  <2> QED BY <2>1, TableOver
<1>2. First(g) \/ (g.at = "list" /\ Within(g, 10) /\ g.out >= 0)
  BY DEF Ready, Going, Restarted, Restart, BGPLoop, OSPFLoop, OtherLoop, PDUs, Values
<1>3. From(g, g) /\ IsFrame(g) /\ g.n <= g.n0 /\ g.n \in Nat
  BY DEF Ready, From, IsFrame
<1>4. ASSUME NEW h, From(g, h), h.at = "list", h.out >= 0, Within(h, 10)
      PROVE  Going(h)
  <2>1. h.cls = "BGPOpen" /\ h.len >= 0
    BY <1>4 DEF From, Within, Past, IsFrame
  <2> QED BY <1>4, <2>1 DEF Going, BGPLoop
<1>5. CASE First(g)
  <2>1. CASE g.n < 10
    BY <1>3, <1>5, <2>1, RaisesShort DEF BGPOpen, ListLeft, First
  <2>2. CASE ~(g.n < 10)
    <3>1. ASSUME NEW k \in Claims(Take(g, 10)) PROVE Result(g, Loop(Take(g, 10), "list", k))
      <4> DEFINE h == Loop(Take(g, 10), "list", k)
      <4>1. k \in Int
        BY <3>1 DEF Claims
      <4>2. From(g, h) /\ h.at = "list" /\ h.out >= 0 /\ Within(h, 10)
        BY <4>1, <1>1, <1>5, <2>2, <1>3, LoopFirst
      <4> HIDE DEF h
      <4>3. Going(h)
        BY <4>2, <1>4
      <4>4. Result(g, h)
        BY <4>2, <4>3, GoesOn DEF Exceptions
      <4> QED BY <4>4 DEF h
    <3> QED BY <1>5, <2>2, <3>1 DEF BGPOpen, ListLeft, Loops, First
  <2> QED BY <2>1, <2>2
<1>6. CASE g.at = "list" /\ Within(g, 10) /\ g.out >= 0
  <2>1. Result(g, Return(g))
    BY <1>1, <1>3, <1>6, WithinReturns
  <2>2. \A h \in Element(g, "BGPParameter") : Result(g, h)
    <3>1. Past(g, 10) /\ Relied("BGPParameter", 2, 0, {}) /\ Caveats(g) = {}
      BY <1>1, <1>6, BGPRelied, OwesIs DEF Within
    <3>2. g.at \notin {"returned", "UnpackError", "endless"} \cup Exceptions
      BY <1>6 DEF Exceptions
    <3>3. ASSUME NEW h, Advanced(g, h, 10, 0) PROVE Going(h)
      <4>1. Within(h, 10) /\ h.at = "list" /\ h.out >= 0 /\ From(g, h)
        BY <1>1, <1>3, <1>6, <3>3, AdvancedWithin DEF Advanced, From, IsFrame
      <4> QED BY <4>1, <1>4
    <3> QED BY <1>3, <3>1, <3>2, <3>3, ElementRight
  <2>3. BGPOpen(g) \subseteq Element(g, "BGPParameter") \cup {Return(g)}
    BY <1>6 DEF BGPOpen, ListLeft, WhileLeft
  <2> QED BY <2>1, <2>2, <2>3
<1> QED BY <1>2, <1>5, <1>6

(* A loop that follows another: at once, and after k more bytes.           *)
LEMMA LoopAgain ==
  ASSUME NEW x, IsFrame(x), x.n <= x.n0, NEW low, Within(x, low), NEW label, NEW lim \in Int
  PROVE  /\ From(x, Loop(x, label, lim)) /\ Loop(x, label, lim).at = label
         /\ Loop(x, label, lim).out = x.out /\ Loop(x, label, lim).len = x.len
         /\ Within(Loop(x, label, lim), low)
<1> DEFINE h == Loop(x, label, lim)
<1>1. Is(h, x, label, x.n, lim, x.len, x.out, x.claim)
  BY LoopIs
<1> HIDE DEF h
<1>2. From(x, h) /\ h.at = label /\ h.out = x.out /\ h.len = x.len /\ Within(h, low)
  BY <1>1 DEF Is, From, Within, Past, Caveats
<1> QED BY <1>2 DEF h

(* The next part, behind k bytes more.                                     *)
LEMMA LoopNext ==
  ASSUME NEW x, IsFrame(x), x.n <= x.n0, NEW least, NEW slack, NEW caveats, Owes(x, least, slack, caveats),
         NEW low \in Nat, Past(x, low), x.out >= 0,
         NEW k \in Nat, 0 < k, k <= x.n, NEW label, NEW lim \in Int
  PROVE  /\ From(x, Loop(Take(x, k), label, lim)) /\ Loop(Take(x, k), label, lim).at = label
         /\ Loop(Take(x, k), label, lim).out >= 0
         /\ Within(Loop(Take(x, k), label, lim), low + k)
<1> DEFINE y == Take(x, k)
           h == Loop(y, label, lim)
<1>1. Is(y, x, x.at, x.n - k, x.lim, x.len + k, x.out + k, x.claim)
  BY TakeHere
<1>2. Is(h, y, label, y.n, lim, y.len, y.out, y.claim)
  <2>1. IsFrame(y)
    BY <1>1 DEF Is
  <2> HIDE DEF y
  <2> QED BY <2>1, LoopIs
<1> HIDE DEF y, h
<1>3. /\ From(x, h) /\ h.at = label /\ h.out = x.out + k /\ h.len = x.len + k /\ h.n = x.n - k
      /\ h.claim = x.claim /\ h.n0 = x.n0
  BY <1>1, <1>2 DEF Is, From, IsFrame
<1>4. /\ x.n \in Nat /\ x.n0 \in Nat /\ x.len \in Int /\ x.out \in Int /\ slack \in Nat
      /\ Promise(h.cls).slack = slack /\ Caveats(h) = Caveats(x)
  <2>1. Promise(x.cls).slack = slack
    BY OwesIs
  <2>2. h.cls = x.cls
    BY <1>3 DEF From
  <2> QED BY <1>3, <2>1, <2>2 DEF IsFrame, Owes, Caveats
<1>5. h.len >= low + k /\ h.len + h.n <= h.n0 /\ h.len <= h.n0 + slack /\ h.out >= 0
  BY <1>3, <1>4 DEF Past
<1>6. (h.out = h.len \/ "uneven" \in Caveats(h)) /\ (h.claim = -1 \/ "drifts" \in Caveats(h))
  BY <1>3, <1>4 DEF Past
<1>7. Within(h, low + k)
  BY <1>4, <1>5, <1>6 DEF Within, Past
<1> QED BY <1>3, <1>5, <1>7 DEF h, y

(* Elements whose promise does not rule out an empty buffer may run past   *)
(* the end of it more than once.                                           *)
LEMMA ElementPast ==
  ASSUME NEW x, IsFrame(x), x.n <= x.n0, NEW low \in Nat, Past(x, low),
         NEW c, NEW least \in Nat, NEW slack \in Nat, Relied(c, least, slack, Caveats(x)),
         x.at \notin {"returned", "UnpackError", "endless"} \cup Exceptions,
         \A h : From(x, h) /\ h.at = x.at /\ h.out >= x.out /\ Past(h, low) => Going(h)
  PROVE  \A h \in Element(x, c) : Result(x, h)
<1> SUFFICES ASSUME NEW h \in Element(x, c) PROVE Result(x, h)
  OBVIOUS
<1>1. From(x, x)
  BY DEF From
<1>2. ASSUME NEW e, Declared(x, e), h = Raise(x, e) PROVE Result(x, h)
  BY <1>1, <1>2, Raises
<1>3. ASSUME NEW s, Advanced(x, h, low, s) PROVE Result(x, h)
  <2>1. From(x, h) /\ h.at = x.at /\ Going(h)
    BY <1>3 DEF Advanced
  <2> QED BY <2>1, GoesOn
<1> QED BY <1>2, <1>3, ElementIs

(* Three parts, two of them behind a length of two bytes of their own.     *)
LEMMA BGPUpdateRight ==
  ASSUME RoutingTable, NEW g, Ready(g), g.cls = "BGPUpdate"
  PROVE  \A h \in BGPUpdate(g) : Result(g, h)
<1> DEFINE caveats == {"AttributeError", "IndexError", "uneven"}
           Length(label) == IF g.n < 2 THEN {Raise(g, "AttributeError")} ELSE Loops(Take(g, 2), label)
<1>1. Owes(g, 4, 2, caveats)
  <2>1. RoutingPromise("BGPUpdate") = Over(4, 2, caveats) /\ "BGPUpdate" \in RoutingClasses
    BY DEF RoutingPromise, RoutingClasses
  <2> QED BY <2>1, TableOver
<1>2. \/ First(g)
      \/ g.at = "withdrawn" /\ Past(g, 2) /\ g.out >= 0
      \/ g.at \in {"attributes", "announced"} /\ Within(g, 4) /\ g.out >= 0
  BY DEF Ready, Going, Restarted, Restart, BGPLoop, OSPFLoop, OtherLoop, PDUs, Values
<1>3. From(g, g) /\ IsFrame(g) /\ g.n <= g.n0 /\ g.n \in Nat /\ Caveats(g) = caveats
  BY <1>1, OwesIs DEF Ready, From, IsFrame
<1>4. ASSUME NEW h, From(g, h), h.out >= 0,
             \/ h.at = "withdrawn" /\ Past(h, 2)
             \/ h.at \in {"attributes", "announced"} /\ Within(h, 4)
      PROVE  Going(h) /\ Result(g, h)
  <2>1. h.cls = "BGPUpdate" /\ h.len >= 0
    BY <1>4 DEF From, Within, Past, IsFrame
  <2>2. Going(h)
    BY <1>4, <2>1 DEF Going, BGPLoop
  <2> QED BY <1>4, <2>2, GoesOn DEF Exceptions
<1>5. Result(g, Raise(g, "AttributeError"))
  <2>1. Declared(g, "AttributeError")
    BY <1>3 DEF Declared, Exceptions
  <2> QED BY <2>1, <1>3, Raises
<1>6. CASE First(g)
  <2>1. ASSUME ~(g.n < 2), NEW k \in Claims(Take(g, 2)) PROVE Result(g, Loop(Take(g, 2), "withdrawn", k))
    <3> DEFINE h == Loop(Take(g, 2), "withdrawn", k)
    <3>1. k \in Int
      BY <2>1 DEF Claims
    <3>2. From(g, h) /\ h.at = "withdrawn" /\ h.out >= 0 /\ Within(h, 2)
      BY <3>1, <1>1, <1>6, <2>1, <1>3, LoopFirst
    <3> HIDE DEF h
    <3>3. Result(g, h)
      BY <3>2, <1>4 DEF Within
    <3> QED BY <3>3 DEF h
  <2>2. BGPUpdate(g) = Length("withdrawn")
    BY <1>6 DEF BGPUpdate, First
  <2> QED BY <2>1, <2>2, <1>5 DEF Loops
<1>7. CASE g.at = "withdrawn" /\ Past(g, 2) /\ g.out >= 0
  <2>1. BGPUpdate(g) \subseteq Element(g, "RouteIPV4") \cup Length("attributes")
    BY <1>7 DEF BGPUpdate, WhileLeft
  <2>2. ASSUME ~(g.n < 2), NEW k \in Claims(Take(g, 2)) PROVE Result(g, Loop(Take(g, 2), "attributes", k))
    <3> DEFINE h == Loop(Take(g, 2), "attributes", k)
    <3>1. k \in Int
      BY <2>2 DEF Claims
    <3>2. From(g, h) /\ h.at = "attributes" /\ h.out >= 0 /\ Within(h, 2 + 2)
      BY <3>1, <1>1, <1>7, <2>2, <1>3, LoopNext
    <3> HIDE DEF h
    <3>3. Result(g, h)
      BY <3>2, <1>4
    <3> QED BY <3>3 DEF h
  <2>3. \A h \in Element(g, "RouteIPV4") : Result(g, h)
    <3>1. Relied("RouteIPV4", 1, 2, Caveats(g))
      BY <1>3, BGPRelied, ReliedMore
    <3>2. g.at \notin {"returned", "UnpackError", "endless"} \cup Exceptions
      BY <1>7 DEF Exceptions
    <3>3. ASSUME NEW h, From(g, h), h.at = g.at, h.out >= g.out, Past(h, 2) PROVE Going(h)
      <4>1. h.at = "withdrawn" /\ h.out >= 0
        BY <1>7, <3>3, <1>3 DEF From, IsFrame
      <4> QED BY <4>1, <3>3, <1>4
    <3> QED BY <1>3, <1>7, <3>1, <3>2, <3>3, ElementPast
  <2> QED BY <2>1, <2>2, <2>3, <1>5 DEF Loops
<1>8. ASSUME g.at \in {"attributes", "announced"}, Within(g, 4), g.out >= 0,
             NEW c, NEW least \in Nat, Relied(c, least, 2, caveats), g.n > 0 \/ 2 < least
      PROVE  \A h \in Element(g, c) : Result(g, h)
  <2>1. g.at \notin {"returned", "UnpackError", "endless"} \cup Exceptions
    BY <1>8 DEF Exceptions
  <2>2. ASSUME NEW h, Advanced(g, h, 4, 2) PROVE Going(h)
    <3>1. Within(h, 4) /\ h.at = g.at /\ h.out >= 0 /\ From(g, h)
      BY <1>1, <1>3, <1>8, <2>2, AdvancedWithin DEF Advanced, From, IsFrame
    <3> QED BY <1>8, <3>1, <1>4
  <2> QED BY <1>3, <1>8, <2>1, <2>2, ElementRight DEF Within
<1>9. CASE g.at = "attributes" /\ Within(g, 4) /\ g.out >= 0
  <2>1. BGPUpdate(g) \subseteq Element(g, "BGPAttribute") \cup {Loop(g, "announced", 0)}
    BY <1>9 DEF BGPUpdate, WhileLeft
  <2>2. Result(g, Loop(g, "announced", 0))
    <3> DEFINE h == Loop(g, "announced", 0)
    <3>1. From(g, h) /\ h.at = "announced" /\ h.out = g.out /\ Within(h, 4)
      BY <1>3, <1>9, LoopAgain
    <3> HIDE DEF h
    <3>2. Result(g, h)
      BY <3>1, <1>4, <1>9
    <3> QED BY <3>2 DEF h
  <2>3. ASSUME NEW h \in Element(g, "BGPAttribute") PROVE Result(g, h)
    <3>1. Relied("BGPAttribute", 3, 2, caveats \cup {"drifts"})
      BY BGPRelied DEF BGPCaveats
    <3>2. Relied("BGPAttribute", 3, 2, caveats)
      BY <3>1 DEF Relied
    <3> QED BY <3>2, <1>8, <1>9
  <2> QED BY <2>1, <2>2, <2>3
<1>10. CASE g.at = "announced" /\ Within(g, 4) /\ g.out >= 0
  <2>1. \/ BGPUpdate(g) = {Return(g)}
        \/ g.n > 0 /\ \E c \in {"ExtendedRouteIPV4", "RouteIPV4"} : BGPUpdate(g) = Element(g, c)
    BY <1>10 DEF BGPUpdate, WhileData
  <2>2. Result(g, Return(g))
    BY <1>1, <1>3, <1>10, WithinReturns
  <2>3. ASSUME g.n > 0, NEW c \in {"ExtendedRouteIPV4", "RouteIPV4"}
        PROVE  \A h \in Element(g, c) : Result(g, h)
    <3>1. Relied(c, 1, 2, caveats)
      BY BGPRelied, ReliedMore
    <3> QED BY <3>1, <2>3, <1>8, <1>10
  <2> QED BY <2>1, <2>2, <2>3
<1> QED BY <1>2, <1>6, <1>7, <1>9, <1>10

(* ASPath.unpack: segments of either kind.                                 *)
LEMMA BGPASPathRight ==
  ASSUME RoutingTable, NEW g, Ready(g), g.cls = "BGPASPath"
  PROVE  \A h \in BGPASPath(g) : Result(g, h)
<1> DEFINE Segments == {"BGPASPathSegment", "BGPASPathSegment4"}
<1>1. Owes(g, 0, 0, {})
  <2>1. RoutingPromise("BGPASPath") = Over(0, 0, {}) /\ "BGPASPath" \in RoutingClasses
    BY DEF RoutingPromise, RoutingClasses, Upto
  <2> QED BY <2>1, TableOver
<1>2. First(g) \/ (g.at \in Segments /\ Within(g, 0) /\ g.out >= 0)
  BY DEF Ready, Going, Restarted, Restart, BGPLoop, OSPFLoop, OtherLoop, PDUs, Values
<1>3. From(g, g) /\ IsFrame(g) /\ g.n <= g.n0 /\ g.n \in Nat /\ Caveats(g) = {}
  BY <1>1, OwesIs DEF Ready, From, IsFrame
<1>4. ASSUME NEW h, From(g, h), h.at \in Segments, h.out >= 0, Within(h, 0)
      PROVE  Going(h) /\ Result(g, h)
  <2>1. h.cls = "BGPASPath" /\ h.len >= 0
    BY <1>4 DEF From, Within, Past, IsFrame
  <2>2. Going(h)
    BY <1>4, <2>1 DEF Going, BGPLoop
  <2> QED BY <1>4, <2>2, GoesOn DEF Exceptions
<1>5. CASE First(g)
  <2>1. ASSUME NEW label \in Segments PROVE Result(g, Loop(g, label, 0))
    <3> DEFINE h == Loop(g, label, 0)
    <3>1. Promise(g.cls).slack = 0
      BY <1>1, OwesIs
    <3>2. Within(g, 0)
      BY <1>5, <3>1 DEF First, IsFrame, Within, Past
    <3>3. From(g, h) /\ h.at = label /\ h.out = g.out /\ Within(h, 0)
      BY <3>2, <1>3, LoopAgain
    <3> HIDE DEF h
    <3>4. Result(g, h)
      BY <3>3, <1>4, <1>5 DEF First
    <3> QED BY <3>4 DEF h
  <2>2. BGPASPath(g) \subseteq {Loop(g, label, 0) : label \in Segments}
    BY <1>5 DEF BGPASPath, First
  <2> QED BY <2>1, <2>2
<1>6. CASE g.at \in Segments /\ Within(g, 0) /\ g.out >= 0
  <2>1. BGPASPath(g) \subseteq Element(g, g.at) \cup {Return(g)}
    BY <1>6 DEF BGPASPath, WhileData
  <2>2. Result(g, Return(g))
    BY <1>1, <1>3, <1>6, WithinReturns
  <2>3. \A h \in Element(g, g.at) : Result(g, h)
    <3>1. Past(g, 0) /\ Relied(g.at, 2, 0, Caveats(g))
      BY <1>3, <1>6, BGPRelied DEF Within
    <3>2. g.at \notin {"returned", "UnpackError", "endless"} \cup Exceptions
      BY <1>6 DEF Exceptions
    <3>3. ASSUME NEW h, Advanced(g, h, 0, 0) PROVE Going(h)
      <4>1. Within(h, 0) /\ h.at \in Segments /\ h.out >= 0 /\ From(g, h)
        BY <1>1, <1>3, <1>6, <3>3, AdvancedWithin DEF Advanced, From, IsFrame
      <4> QED BY <4>1, <1>4
    <3> QED BY <1>3, <3>1, <3>2, <3>3, ElementRight
  <2> QED BY <2>1, <2>2, <2>3
<1> QED BY <1>2, <1>5, <1>6

(* Four-byte values to the end; fewer than four are an AttributeError.     *)
LEMMA FourByteValuesRight ==
  ASSUME RoutingTable, NEW g, Ready(g), g.cls \in {"BGPCommunities", "BGPClusterList"}
  PROVE  \A h \in FourByteValues(g) : Result(g, h)
<1> DEFINE caveats == {"AttributeError"}
<1>1. OwesAll(g, 0, caveats)
  <2>1. ASSUME NEW c \in {"BGPCommunities", "BGPClusterList"}
        PROVE  RoutingPromise(c) = Whole(0, caveats) /\ c \in RoutingClasses
    BY DEF RoutingPromise, RoutingClasses
  <2> QED BY <2>1, TableWhole
<1>2. /\ g.at \in {"start", "list"} /\ g.len = g.out /\ g.len + g.n = g.n0 /\ g.claim = -1 /\ g.len >= 0
  BY DEF Ready, Going, First, IsFrame, Restarted, Restart, BGPLoop, OSPFLoop, OtherLoop, PDUs, Values
<1>3. From(g, g) /\ IsFrame(g) /\ g.n <= g.n0 /\ g.n \in Nat /\ g.n0 \in Nat /\ Caveats(g) = caveats
  BY <1>1, OwesAllIs DEF Ready, From, IsFrame
<1>4. CASE g.n = 0
  <2>1. Kept(g)
    BY <1>1, <1>2, <1>3, <1>4, WholeKept DEF IsFrame
  <2> QED BY <1>3, <1>4, <2>1, ReturnFrom DEF FourByteValues
<1>5. CASE g.n \in 1 .. 3
  <2>1. Result(g, Raise(g, "AttributeError"))
    <3>1. Declared(g, "AttributeError")
      BY <1>3 DEF Declared, Exceptions
    <3> QED BY <3>1, <1>3, Raises
  <2> QED BY <1>5, <2>1 DEF FourByteValues
<1>6. CASE g.n >= 4
  <2> DEFINE y == Take(g, 4)
             h == Loop(y, "list", 0)
  <2>1. Is(y, g, g.at, g.n - 4, g.lim, g.len + 4, g.out + 4, g.claim)
    BY <1>3, <1>6, TakeHere
  <2>2. Is(h, y, "list", y.n, 0, y.len, y.out, y.claim)
    <3>1. IsFrame(y)
      BY <2>1 DEF Is
    <3> HIDE DEF y
    <3> QED BY <3>1, LoopIs
  <2> HIDE DEF y, h
  <2>3. From(g, h) /\ h.at = "list" /\ h.len = h.out /\ h.len + h.n = h.n0 /\ h.claim = -1 /\ h.len >= 0
    BY <1>2, <1>3, <2>1, <2>2 DEF Is, From, IsFrame
  <2>4. Going(h)
    BY <2>3 DEF Going, BGPLoop, From
  <2>5. Result(g, h)
    BY <2>3, <2>4, GoesOn DEF Exceptions
  <2>6. FourByteValues(g) = {h}
    BY <1>3, <1>6 DEF FourByteValues, h, y
  <2> QED BY <2>5, <2>6
<1> QED BY <1>3, <1>4, <1>5, <1>6

(* A counted loop: the count replaces what the element left of it.         *)
Counting(h, lim) == [h EXCEPT !.lim = lim]
(* A loop that counts its elements.                                        *)
LEMMA RepeatRight ==
  ASSUME NEW x, IsFrame(x), x.n <= x.n0,
         NEW owed, NEW most, NEW caveats, Owes(x, owed, most, caveats),
         NEW low \in Nat, Past(x, low), NEW lim \in Int,
         NEW c, NEW least \in Nat, NEW slack \in Nat, slack <= most, Relied(c, least, slack, Caveats(x)),
         x.n > 0 \/ slack < least,
         x.at \notin {"returned", "UnpackError", "endless"} \cup Exceptions,
         \A h : From(x, h) /\ h.at = x.at /\ h.out >= x.out /\ Within(h, low) => Going(h)
  PROVE  \A h \in Element(x, c) : Result(x, Counting(h, lim))
<1> SUFFICES ASSUME NEW h \in Element(x, c) PROVE Result(x, Counting(h, lim))
  OBVIOUS
<1> DEFINE r == Counting(h, lim)
<1>1. From(x, x)
  BY DEF From
<1>2. ASSUME IsFrame(h) PROVE Is(r, h, h.at, h.n, lim, h.len, h.out, h.claim)
  BY <1>2, Limited DEF Counting
<1> HIDE DEF r
<1>3. ASSUME NEW e, Declared(x, e), h = Raise(x, e) PROVE Result(x, r)
  <2>1. Is(h, x, e, x.n, x.lim, x.len, x.out, x.claim)
    BY <1>3, RaiseIs
  <2>2. Is(r, h, h.at, h.n, lim, h.len, h.out, h.claim)
    BY <1>2, <2>1 DEF Is
  <2>3. From(x, r) /\ r.at = e
    BY <1>1, <2>1, <2>2 DEF From, Is
  <2>4. Declared(r, e) /\ e # "returned"
    BY <1>3, <2>3 DEF Declared, Caveats, From, Exceptions
  <2>5. Finished(r)
    BY <1>3, <2>3 DEF Finished, Declared
  <2> QED BY <2>3, <2>4, <2>5 DEF Result, Ended
<1>4. ASSUME Advanced(x, h, low, slack) PROVE Result(x, r)
  <2>1. Within(h, low) /\ From(x, h) /\ h.at = x.at /\ h.out >= x.out
    BY <1>4, AdvancedWithin DEF Advanced
  <2>2. Is(r, h, h.at, h.n, lim, h.len, h.out, h.claim)
    BY <1>2, <2>1 DEF From
  <2>3. From(x, r) /\ r.at = x.at /\ r.out >= x.out /\ Within(r, low)
    BY <2>1, <2>2 DEF From, Is, Within, Past, Caveats
  <2> QED BY <2>3, GoesOn
<1>5. ~(x.n = 0 /\ least <= slack)
  BY DEF IsFrame
<1>6. Result(x, r)
  BY <1>3, <1>4, <1>5, ElementIs
<1> QED BY <1>6 DEF r

(* Routes to the end of the data: the loop both attributes end with.       *)
LEMMA RoutesRight ==
  ASSUME RoutingTable, NEW g, IsFrame(g), g.n <= g.n0, g.out >= 0, g.at \in Routes,
         NEW low \in Nat, Owes(g, low, 2, {"IndexError", "uneven"}), Within(g, low),
         \A h : From(g, h) /\ h.at = g.at /\ h.out >= 0 /\ Within(h, low) => Going(h)
  PROVE  \A h \in WhileData(g, g.at, {Return(g)}) : Result(g, h)
<1>1. Result(g, Return(g))
  BY WithinReturns
<1>2. ASSUME g.n > 0 PROVE \A h \in Element(g, g.at) : Result(g, h)
  <2>1. Caveats(g) = {"IndexError", "uneven"}
    BY OwesIs
  <2>2. Past(g, low) /\ Relied(g.at, 1, 2, Caveats(g))
    BY <2>1, BGPRelied, ReliedMore DEF Within
  <2>3. g.at \notin {"returned", "UnpackError", "endless"} \cup Exceptions
    BY DEF Routes, Exceptions
  <2>4. ASSUME NEW h, Advanced(g, h, low, 2) PROVE Going(h)
    <3>1. Within(h, low) /\ h.at = g.at /\ h.out >= 0 /\ From(g, h)
      BY <2>4, AdvancedWithin DEF Advanced, From, IsFrame
    <3> QED BY <3>1
  <2> QED BY <1>2, <2>2, <2>3, <2>4, ElementRight
<1> QED BY <1>1, <1>2 DEF WhileData

(* MPUnreachNLRI.unpack: the withdrawn routes.                             *)
LEMMA BGPMPUnreachRight ==
  ASSUME RoutingTable, NEW g, Ready(g), g.cls = "BGPMPUnreachNLRI"
  PROVE  \A h \in BGPMPUnreachNLRI(g) : Result(g, h)
<1> DEFINE caveats == {"IndexError", "uneven"}
<1>1. Owes(g, 3, 2, caveats)
  <2>1. RoutingPromise("BGPMPUnreachNLRI") = Over(3, 2, caveats) /\ "BGPMPUnreachNLRI" \in RoutingClasses
    BY DEF RoutingPromise, RoutingClasses
  <2> QED BY <2>1, TableOver
<1>2. First(g) \/ (g.at \in Routes /\ Within(g, 3) /\ g.out >= 0)
  BY DEF Ready, Going, Restarted, Restart, BGPLoop, OSPFLoop, OtherLoop, PDUs, Values
<1>3. From(g, g) /\ IsFrame(g) /\ g.n <= g.n0 /\ g.n \in Nat
  BY DEF Ready, From, IsFrame
<1>4. ASSUME NEW h, From(g, h), h.at \in Routes, h.out >= 0, Within(h, 3)
      PROVE  Going(h) /\ Result(g, h)
  <2>1. h.cls = "BGPMPUnreachNLRI" /\ h.len >= 0
    BY <1>4 DEF From, Within, Past, IsFrame
  <2>2. Going(h)
    BY <1>4, <2>1 DEF Going, BGPLoop
  <2> QED BY <1>4, <2>2, GoesOn DEF Exceptions, Routes
<1>5. CASE First(g)
  <2>1. CASE g.n < 3
    BY <1>3, <1>5, <2>1, RaisesShort DEF BGPMPUnreachNLRI, First
  <2>2. CASE ~(g.n < 3)
    <3>1. ASSUME NEW r \in Routes PROVE Result(g, Loop(Take(g, 3), r, 0))
      <4> DEFINE h == Loop(Take(g, 3), r, 0)
      <4>1. From(g, h) /\ h.at = r /\ h.out >= 0 /\ Within(h, 3)
        BY <1>1, <1>5, <2>2, <1>3, LoopFirst
      <4> HIDE DEF h
      <4>2. Result(g, h)
        BY <4>1, <1>4
      <4> QED BY <4>2 DEF h
    <3> QED BY <1>5, <2>2, <3>1 DEF BGPMPUnreachNLRI, First
  <2> QED BY <2>1, <2>2
<1>6. CASE g.at \in Routes /\ Within(g, 3) /\ g.out >= 0
  <2>1. BGPMPUnreachNLRI(g) = WhileData(g, g.at, {Return(g)})
    BY <1>6 DEF BGPMPUnreachNLRI, Routes
  <2>2. \A h : From(g, h) /\ h.at = g.at /\ h.out >= 0 /\ Within(h, 3) => Going(h)
    BY <1>4, <1>6
  <2> QED BY <1>1, <1>3, <1>6, <2>1, <2>2, RoutesRight
<1> QED BY <1>2, <1>5, <1>6

(* Next hops, then SNPAs, then routes: each count behind what came before. *)
LEMMA BGPMPReachIs ==
  ASSUME NEW g
  PROVE  LET Counted(label) == IF g.n < 1 THEN Short(g) ELSE Loops(Take(g, 1), label)
             Hop(k) == [Take(g, Least(k, g.n)) EXCEPT !.lim = @ - k]
             y == Take(g, 3)
         IN /\ g.at = "start" => BGPMPReachNLRI(g) =
                 IF g.n < 3 THEN Short(g)
                 ELSE UNION {(IF y.n < 1 THEN Short(y) ELSE Loops(Take(y, 1), l)) : l \in {"hops4", "hops16"}}
            /\ g.at = "hops4" => BGPMPReachNLRI(g) = IF g.lim > 0 THEN {Hop(4)} ELSE Counted("snpas4")
            /\ g.at = "hops16" => BGPMPReachNLRI(g) = IF g.lim > 0 THEN {Hop(16)} ELSE Counted("snpas16")
            /\ g.at = "snpas4" => BGPMPReachNLRI(g) =
                 Repeat(g, "BGPSNPA", {Loop(g, r, 0) : r \in Routes \ {"RouteIPV6"}})
            /\ g.at = "snpas16" => BGPMPReachNLRI(g) = Repeat(g, "BGPSNPA", {Loop(g, "RouteIPV6", 0)})
            /\ g.at \in Routes => BGPMPReachNLRI(g) = WhileData(g, g.at, {Return(g)})
<1> DEFINE Counted(label) == IF g.n < 1 THEN Short(g) ELSE Loops(Take(g, 1), label)
           Hop(k) == [Take(g, Least(k, g.n)) EXCEPT !.lim = @ - k]
           y == Take(g, 3)
           A == IF g.n < 3 THEN Short(g)
                ELSE UNION {(IF y.n < 1 THEN Short(y) ELSE Loops(Take(y, 1), l)) : l \in {"hops4", "hops16"}}
           B == IF g.lim > 0 THEN {Hop(4)} ELSE Counted("snpas4")
           C == IF g.lim > 0 THEN {Hop(16)} ELSE Counted("snpas16")
           D == Repeat(g, "BGPSNPA", {Loop(g, r, 0) : r \in Routes \ {"RouteIPV6"}})
           E == Repeat(g, "BGPSNPA", {Loop(g, "RouteIPV6", 0)})
           F == WhileData(g, g.at, {Return(g)})
<1>1. BGPMPReachNLRI(g) = CASE g.at = "start" -> A [] g.at = "hops4" -> B [] g.at = "hops16" -> C
                            [] g.at = "snpas4" -> D [] g.at = "snpas16" -> E [] g.at \in Routes -> F
  BY DEF BGPMPReachNLRI
<1> HIDE DEF A, B, C, D, E, F
<1>2. /\ g.at = "start" => BGPMPReachNLRI(g) = A
      /\ g.at = "hops4" => BGPMPReachNLRI(g) = B
      /\ g.at = "hops16" => BGPMPReachNLRI(g) = C
      /\ g.at = "snpas4" => BGPMPReachNLRI(g) = D
      /\ g.at = "snpas16" => BGPMPReachNLRI(g) = E
      /\ g.at \in Routes => BGPMPReachNLRI(g) = F
  BY <1>1 DEF Routes
<1> QED BY <1>2 DEF A, B, C, D, E, F

(* MPReachNLRI.unpack: next hops, SNPAs and routes, three loops in a row.  *)
LEMMA BGPMPReachRight ==
  ASSUME RoutingTable, NEW g, Ready(g), g.cls = "BGPMPReachNLRI"
  PROVE  \A h \in BGPMPReachNLRI(g) : Result(g, h)
<1> DEFINE caveats == {"IndexError", "uneven"}
           Hops  == {"hops4", "hops16"}
           SNPAs == {"snpas4", "snpas16"}
<1>1. Owes(g, 5, 2, caveats)
  <2>1. RoutingPromise("BGPMPReachNLRI") = Over(5, 2, caveats) /\ "BGPMPReachNLRI" \in RoutingClasses
    BY DEF RoutingPromise, RoutingClasses
  <2> QED BY <2>1, TableOver
<1>2. \/ First(g)
      \/ g.at \in Hops /\ Within(g, 4) /\ g.out >= 0
      \/ g.at \in SNPAs \cup Routes /\ Within(g, 5) /\ g.out >= 0
  BY DEF Ready, Going, Restarted, Restart, BGPLoop, OSPFLoop, OtherLoop, PDUs, Values
<1>3. /\ From(g, g) /\ IsFrame(g) /\ g.n <= g.n0 /\ g.n \in Nat /\ g.n \in Int /\ g.lim \in Int
      /\ g.len \in Int /\ g.out \in Int
      /\ Caveats(g) = caveats
  BY <1>1, OwesIs DEF Ready, From, IsFrame
<1>4. ASSUME NEW h, From(g, h), h.out >= 0,
             \/ h.at \in Hops /\ Within(h, 4)
             \/ h.at \in SNPAs \cup Routes /\ Within(h, 5)
      PROVE  Going(h) /\ Result(g, h)
  <2>1. h.cls = "BGPMPReachNLRI" /\ h.len >= 0
    BY <1>4 DEF From, Within, Past, IsFrame
  <2>2. Going(h)
    BY <1>4, <2>1 DEF Going, BGPLoop
  <2> QED BY <1>4, <2>2, GoesOn DEF Exceptions, Routes
<1>5. CASE First(g)
  <2>1. CASE g.n < 3
    BY <1>3, <1>5, <2>1, RaisesShort, BGPMPReachIs DEF First
  <2>2. CASE ~(g.n < 3)
    <3> DEFINE y == Take(g, 3)
    <3>1. Is(y, g, "start", g.n - 3, 0, 3, 3, -1)
      BY <1>3, <1>5, <2>2, Header
    <3>2. From(g, y) /\ IsFrame(y) /\ y.n <= y.n0 /\ y.out >= 0 /\ y.n \in Nat /\ y.len = 3 /\ y.out = 3
          /\ y.claim = -1 /\ y.len + y.n = y.n0 /\ y.cls = g.cls
      BY <1>3, <1>5, <2>2, <3>1 DEF Is, From, First, IsFrame
    <3>3. Past(y, 3) /\ Owes(y, 5, 2, caveats)
      BY <3>2, <1>1 DEF Past, Owes
    <3> HIDE DEF y
    <3>4. ASSUME ~(y.n < 1), NEW l \in Hops, NEW k \in Claims(Take(y, 1)) PROVE Result(g, Loop(Take(y, 1), l, k))
      <4> DEFINE h == Loop(Take(y, 1), l, k)
      <4>1. k \in Int /\ 1 <= y.n
        BY <3>2, <3>4 DEF Claims
      <4>2. From(y, h) /\ h.at = l /\ h.out >= 0 /\ Within(h, 3 + 1)
        BY <4>1, <3>2, <3>3, LoopNext
      <4> HIDE DEF h
      <4>3. From(g, h)
        BY <4>2, <3>2 DEF From
      <4>4. Result(g, h)
        BY <4>2, <4>3, <1>4
      <4> QED BY <4>4 DEF h
    <3>5. \A h \in Short(y) : Result(g, h)
      BY <3>2, RaisesShort
    <3>6. BGPMPReachNLRI(g) = UNION {(IF y.n < 1 THEN Short(y) ELSE Loops(Take(y, 1), l)) : l \in Hops}
      BY <1>5, <2>2, BGPMPReachIs DEF First, y
    <3> QED BY <3>4, <3>5, <3>6 DEF Loops
  <2> QED BY <2>1, <2>2
<1>6. CASE g.at \in Hops /\ Within(g, 4) /\ g.out >= 0
  <2> DEFINE Counted(label) == IF g.n < 1 THEN Short(g) ELSE Loops(Take(g, 1), label)
             Hop(k) == [Take(g, Least(k, g.n)) EXCEPT !.lim = @ - k]
  <2>1. ASSUME NEW label \in SNPAs PROVE \A h \in Counted(label) : Result(g, h)
    <3>1. CASE g.n < 1
      BY <3>1, <1>3, RaisesShort
    <3>2. CASE ~(g.n < 1)
      <4>1. ASSUME NEW k \in Claims(Take(g, 1)) PROVE Result(g, Loop(Take(g, 1), label, k))
        <5> DEFINE h == Loop(Take(g, 1), label, k)
        <5>1. k \in Int /\ 1 <= g.n
          BY <1>3, <3>2, <4>1 DEF Claims
        <5>2. From(g, h) /\ h.at = label /\ h.out >= 0 /\ Within(h, 4 + 1)
          BY <5>1, <1>1, <1>3, <1>6, LoopNext DEF Within
        <5> HIDE DEF h
        <5>3. Result(g, h)
          BY <5>2, <1>4
        <5> QED BY <5>3 DEF h
      <4> QED BY <3>2, <4>1 DEF Loops
    <3> QED BY <3>1, <3>2
  <2>2. ASSUME NEW k \in {4, 16} PROVE Result(g, Hop(k))
    <3> DEFINE t == Least(k, g.n)
               y == Take(g, t)
               h == [y EXCEPT !.lim = y.lim - k]
    <3>1. t \in Nat /\ t <= g.n
      BY <1>3 DEF Least
    <3>2. Is(y, g, g.at, g.n - t, g.lim, g.len + t, g.out + t, g.claim)
      <4> HIDE DEF t
      <4> QED BY <3>1, <1>3, TakeHere
    <3>3. Is(h, y, y.at, y.n, y.lim - k, y.len, y.out, y.claim)
      <4>1. IsFrame(y) /\ y.lim - k \in Int
        BY <3>2, <1>3 DEF Is
      <4> HIDE DEF y
      <4> QED BY <4>1, Limited
    <3>4. Hop(k) = h
      BY <3>2 DEF Is, IsFrame
    <3> HIDE DEF h, y, t
    <3>5. /\ From(g, h) /\ h.at = g.at /\ h.len = g.len + t /\ h.out = g.out + t /\ h.n = g.n - t
          /\ h.claim = g.claim /\ h.n0 = g.n0 /\ h.cls = g.cls
      BY <1>3, <3>1, <3>2, <3>3 DEF Is, From, IsFrame
    <3>6. Promise(h.cls).slack = 2 /\ Promise(g.cls).slack = 2 /\ Caveats(h) = caveats /\ g.n0 \in Nat
      BY <1>1, <1>3, <3>5, OwesIs DEF Caveats, IsFrame
    <3>7. Within(h, 4) /\ h.out >= 0
      <4>1. h.len >= 4 /\ (h.n > 0 => h.len + h.n <= h.n0) /\ h.out >= 0
        BY <1>3, <1>6, <3>1, <3>5, <3>6 DEF Within, Past
      <4>2. h.len <= h.n0 + 2
        <5>1. CASE t = 0
          BY <5>1, <1>3, <1>6, <3>5, <3>6 DEF Within, Past
        <5>2. CASE t > 0
          BY <5>2, <1>3, <1>6, <3>1, <3>5, <3>6 DEF Within, Past
        <5> QED BY <5>1, <5>2, <3>1
      <4>3. (h.claim = -1 \/ "drifts" \in Caveats(h)) /\ (h.out = h.len \/ "uneven" \in Caveats(h))
        BY <1>3, <1>6, <3>5, <3>6 DEF Within, Past
      <4> QED BY <4>1, <4>2, <4>3, <3>6 DEF Within, Past
    <3>8. Result(g, h)
      BY <1>4, <1>6, <3>5, <3>7
    <3> QED BY <3>4, <3>8
  <2>3. BGPMPReachNLRI(g) \subseteq {Hop(4), Hop(16)} \cup Counted("snpas4") \cup Counted("snpas16")
    <3>1. /\ g.at = "hops4" => BGPMPReachNLRI(g) = IF g.lim > 0 THEN {Hop(4)} ELSE Counted("snpas4")
          /\ g.at = "hops16" => BGPMPReachNLRI(g) = IF g.lim > 0 THEN {Hop(16)} ELSE Counted("snpas16")
      BY BGPMPReachIs
    <3> HIDE DEF Hop, Counted
    <3> QED BY <1>6, <3>1
  <2> HIDE DEF Hop, Counted
  <2> QED BY <2>1, <2>2, <2>3
<1>7. CASE g.at \in SNPAs /\ Within(g, 5) /\ g.out >= 0
  <2>1. BGPMPReachNLRI(g) \subseteq {[h EXCEPT !.lim = g.lim - 1] : h \in Element(g, "BGPSNPA")}
                                    \cup {Loop(g, r, 0) : r \in Routes}
    <3>1. /\ g.at = "snpas4" => BGPMPReachNLRI(g) =
               Repeat(g, "BGPSNPA", {Loop(g, r, 0) : r \in Routes \ {"RouteIPV6"}})
          /\ g.at = "snpas16" => BGPMPReachNLRI(g) = Repeat(g, "BGPSNPA", {Loop(g, "RouteIPV6", 0)})
      BY BGPMPReachIs
    <3>2. ASSUME NEW after PROVE
            Repeat(g, "BGPSNPA", after) \subseteq
              {[h EXCEPT !.lim = g.lim - 1] : h \in Element(g, "BGPSNPA")} \cup after
      BY DEF Repeat
    <3>3. "RouteIPV6" \in Routes
      BY DEF Routes
    <3> QED BY <1>7, <3>1, <3>2, <3>3
  <2>2. ASSUME NEW r \in Routes PROVE Result(g, Loop(g, r, 0))
    <3> DEFINE h == Loop(g, r, 0)
    <3>1. From(g, h) /\ h.at = r /\ h.out = g.out /\ Within(h, 5)
      BY <1>3, <1>7, LoopAgain
    <3> HIDE DEF h
    <3>2. Result(g, h)
      BY <3>1, <1>4, <1>7
    <3> QED BY <3>2 DEF h
  <2>3. \A h \in Element(g, "BGPSNPA") : Result(g, [h EXCEPT !.lim = g.lim - 1])
    <3>1. Past(g, 5) /\ Relied("BGPSNPA", 1, 0, Caveats(g)) /\ g.lim - 1 \in Int
      BY <1>3, <1>7, BGPRelied, ReliedMore DEF Within
    <3>2. g.at \notin {"returned", "UnpackError", "endless"} \cup Exceptions
      BY <1>7 DEF Exceptions
    <3>3. ASSUME NEW h, From(g, h), h.at = g.at, h.out >= g.out, Within(h, 5) PROVE Going(h)
      <4>1. h.at \in SNPAs /\ h.out >= 0
        BY <1>3, <1>7, <3>3 DEF From, IsFrame
      <4> QED BY <4>1, <3>3, <1>4
    <3> DEFINE lim == g.lim - 1
    <3>4. lim \in Int
      BY <3>1
    <3> HIDE DEF lim
    <3>5. \A h \in Element(g, "BGPSNPA") : Result(g, Counting(h, lim))
      BY <1>1, <1>3, <3>1, <3>2, <3>3, <3>4, RepeatRight
    <3> QED BY <3>5 DEF lim, Counting
  <2> QED BY <2>1, <2>2, <2>3
<1>8. CASE g.at \in Routes /\ Within(g, 5) /\ g.out >= 0
  <2>1. BGPMPReachNLRI(g) = WhileData(g, g.at, {Return(g)})
    BY <1>8, BGPMPReachIs
  <2>2. \A h : From(g, h) /\ h.at = g.at /\ h.out >= 0 /\ Within(h, 5) => Going(h)
    BY <1>4, <1>8
  <2> QED BY <1>1, <1>3, <1>8, <2>1, <2>2, RoutesRight
<1> QED BY <1>2, <1>5, <1>6, <1>7, <1>8
-----------------------------------------------------------------------------
(* The frame after a header of k bytes.                                    *)
Headed(g, y, k) ==
  /\ From(g, y) /\ IsFrame(y) /\ y.n \in Nat /\ y.n0 = g.n0 /\ g.n0 \in Nat /\ y.n <= y.n0
  /\ y.at = "start" /\ y.lim = 0 /\ y.claim = -1
  /\ y.len = k /\ y.out = k /\ g.n \in Nat /\ y.n = g.n - k /\ y.len + y.n = y.n0

(* The header is there.                                                    *)
LEMMA HeaderRead ==
  ASSUME NEW g, First(g), NEW k \in Nat, k <= g.n
  PROVE  Headed(g, Take(g, k), k)
<1>1. Is(Take(g, k), g, "start", g.n - k, 0, k, k, -1)
  BY Header
<1> QED BY <1>1 DEF Headed, Is, From, First, IsFrame

(* A frame that has just been made has a header of no bytes.               *)
LEMMA FirstIs ==
  ASSUME NEW g, First(g)
  PROVE  From(g, g) /\ IsFrame(g) /\ g.n \in Nat /\ Headed(g, g, 0)
BY DEF First, From, IsFrame, Headed

(* The exceptions a class is known for.                                    *)
LEMMA RaisesKnown ==
  ASSUME NEW g, NEW x, From(g, x), NEW e \in Exceptions, e \in Caveats(g)
  PROVE  Result(g, Raise(x, e))
BY Raises DEF Declared

(* A frame that returns with the sizes it has, after t bytes more, and      *)
(* with sizes of its own.                                                  *)
LEMMA OverReturns ==
  ASSUME NEW g, NEW least, NEW slack, NEW caveats, Owes(g, least, slack, caveats),
         NEW x, From(g, x), x.claim = -1, x.out = x.len \/ "uneven" \in caveats,
         x.len >= least, x.len <= x.n0 + slack
  PROVE  Result(g, Return(x))
<1>1. least \in Nat
  BY DEF Owes
<1>2. x.claim \in least .. x.n0 => x.len = x.claim \/ "drifts" \in caveats
  BY <1>1
<1> QED BY <1>2, OverKept, ReturnFrom

(* The same after t bytes more.                                            *)
LEMMA TakenRight ==
  ASSUME NEW g, NEW least, NEW slack, NEW caveats, Owes(g, least, slack, caveats),
         NEW x, From(g, x), x.claim = -1, x.out = x.len,
         NEW t \in Nat, x.len + t >= least, x.len + t <= x.n0 + slack
  PROVE  Result(g, Return(Take(x, t)))
<1> DEFINE y == Take(x, t)
<1>1. Is(y, x, x.at, Monus(x.n, t), x.lim, x.len + t, x.out + t, x.claim)
  BY TakeIs DEF From
<1>2. Monus(x.n, t) <= x.n
  BY DEF Monus, From, IsFrame
<1> HIDE DEF y
<1>3. From(g, y) /\ y.claim = -1 /\ y.out = y.len /\ y.len >= least /\ y.len <= y.n0 + slack
  BY <1>1, <1>2 DEF Is, From, IsFrame
<1>4. Result(g, Return(y))
  BY <1>3, OverReturns
<1> QED BY <1>4 DEF y

(* The same for a class that reports one size.                             *)
LEMMA FixedReturns ==
  ASSUME NEW g, NEW size, NEW need, NEW caveats, OwesFixed(g, size, need, caveats),
         NEW x, From(g, x), x.claim = -1, x.out = x.len,
         NEW t \in Nat, x.len + t = size, x.n0 >= need
  PROVE  Result(g, Return(Take(x, t)))
<1> DEFINE y == Take(x, t)
<1>1. Is(y, x, x.at, Monus(x.n, t), x.lim, x.len + t, x.out + t, x.claim)
  BY TakeIs DEF From
<1>2. Monus(x.n, t) <= x.n
  BY DEF Monus, From, IsFrame
<1> HIDE DEF y
<1>3. From(g, y) /\ y.claim = -1 /\ y.out = y.len /\ y.len = size /\ y.n0 >= need
  BY <1>1, <1>2 DEF Is, From, IsFrame
<1>4. Kept(y)
  BY <1>3, FixedKept
<1> QED BY <1>3, <1>4, ReturnFrom DEF y

(* The same with sizes of its own.                                         *)
LEMMA MeasuredRight ==
  ASSUME NEW g, NEW least, NEW slack, NEW caveats, Owes(g, least, slack, caveats), "uneven" \in caveats,
         NEW x, From(g, x), x.claim = -1,
         NEW len \in Int, NEW out \in Int, len >= least, len <= x.n0 + slack
  PROVE  Result(g, Return([x EXCEPT !.len = len, !.out = out]))
<1> DEFINE y == [x EXCEPT !.len = len, !.out = out]
<1>1. Is(y, x, x.at, x.n, x.lim, len, out, x.claim)
  BY Measured DEF From
<1> HIDE DEF y
<1>2. From(g, y) /\ y.claim = -1 /\ y.len >= least /\ y.len <= y.n0 + slack
  BY <1>1 DEF Is, From, IsFrame
<1>3. Result(g, Return(y))
  BY <1>2, OverReturns
<1> QED BY <1>3 DEF y

(* Arrays of k-byte items.                                                 *)
LEMMA Wholes ==
  ASSUME NEW n \in Nat, NEW k \in {4, 10, 12, 16, 20}
  PROVE  k * (n \div k) \in Nat /\ k * (n \div k) <= n
<1>1. CASE k = 4
  BY <1>1
<1>2. CASE k = 10
  BY <1>2
<1>3. CASE k = 12
  BY <1>3
<1>4. CASE k = 16
  BY <1>4
<1>5. CASE k = 20
  BY <1>5
<1> QED BY <1>1, <1>2, <1>3, <1>4, <1>5

(* An array of items fills the rest; a shorter tail is dropped.            *)
LEMMA ItemsRight ==
  ASSUME NEW g, First(g), NEW least, NEW caveats, Owes(g, least, 0, caveats),
         NEW x, Headed(g, x, least), NEW k \in {4, 10, 12, 16, 20}
  PROVE  \A h \in Items(x, k) : Result(g, h)
<1> DEFINE t == k * (x.n \div k)
<1>1. t \in Nat /\ t <= x.n
  BY Wholes DEF Headed
<1> HIDE DEF t
<1>2. x.len + t >= least /\ x.len + t <= x.n0 + 0 /\ From(g, x) /\ x.claim = -1 /\ x.out = x.len
  BY <1>1 DEF Headed, Owes
<1>3. Result(g, Return(Take(x, t)))
  BY <1>1, <1>2, TakenRight
<1> QED BY <1>3 DEF Items, t

(* OSPF: lists that fill the rest of a message.                            *)
LEMMA OSPFListsRight ==
  ASSUME RoutingTable, NEW g, First(g),
         g.cls \in {"OSPFv2Hello", "OSPFv3Hello", "OSPFv2LSR", "OSPFv3LSR", "OSPFv2LSAck", "OSPFv3LSAck",
                    "LSANetwork"}
  PROVE  \A h \in RoutingStep(g) : Result(g, h)
<1>0. From(g, g) /\ IsFrame(g) /\ g.n \in Nat /\ Headed(g, g, 0)
  BY FirstIs
<1>1. ASSUME NEW k \in {4, 10, 12, 16, 20}, RoutingPromise(g.cls) = Over(0, 0, {}), g.cls \in RoutingClasses
      PROVE  \A h \in Items(g, k) : Result(g, h)
  BY <1>0, <1>1, TableOver, ItemsRight
<1>2. ASSUME NEW least \in Nat, RoutingPromise(g.cls) = Over(least, 0, {}), g.cls \in RoutingClasses
      PROVE  \A h \in Hello(g, least) : Result(g, h)
  <2>1. CASE g.n < least
    BY <1>0, <2>1, RaisesShort DEF Hello
  <2>2. CASE ~(g.n < least)
    <3>1. Headed(g, Take(g, least), least) /\ Owes(g, least, 0, {})
      BY <1>0, <1>2, <2>2, HeaderRead, TableOver
    <3>2. \A h \in Items(Take(g, least), 4) : Result(g, h)
      BY <3>1, ItemsRight
    <3> QED BY <2>2, <3>2 DEF Hello
  <2> QED BY <2>1, <2>2
<1>3. CASE g.cls \in {"OSPFv2Hello", "OSPFv3Hello"}
  <2>1. ASSUME NEW c \in {"OSPFv2Hello", "OSPFv3Hello"}
        PROVE  RoutingPromise(c) = Over(20, 0, {}) /\ c \in RoutingClasses
    BY DEF RoutingPromise, RoutingClasses, Upto
  <2>2. RoutingStep(g) = Hello(g, 20)
    BY <1>3 DEF RoutingStep, OSPFv2Hello, OSPFv3Hello
  <2> QED BY <1>3, <2>1, <2>2, <1>2
<1>4. CASE g.cls = "LSANetwork"
  <2>1. /\ RoutingPromise(g.cls) = Over(24, 0, {}) /\ g.cls \in RoutingClasses
        /\ RoutingStep(g) = Hello(g, 24)
    BY <1>4 DEF RoutingPromise, RoutingClasses, Upto, RoutingStep, LSANetwork, Hello
  <2> QED BY <2>1, <1>2
<1>5. CASE g.cls \in {"OSPFv2LSR", "OSPFv3LSR", "OSPFv2LSAck", "OSPFv3LSAck"}
  <2>1. ASSUME NEW c \in {"OSPFv2LSR", "OSPFv3LSR", "OSPFv2LSAck", "OSPFv3LSAck"}
        PROVE  RoutingPromise(c) = Over(0, 0, {}) /\ c \in RoutingClasses
    BY DEF RoutingPromise, RoutingClasses, Upto
  <2>2. RoutingStep(g) \in {Items(g, 12), Items(g, 10), Items(g, 20)}
    BY <1>5 DEF RoutingStep, OSPFv2LSR, OSPFv3LSR, OSPFv2LSAck, OSPFv3LSAck
  <2> QED BY <1>5, <2>1, <2>2, <1>1
<1> QED BY <1>3, <1>4, <1>5

(* OSPF messages: what they hand their data to.                            *)
OSPFCaveats == {"AttributeError", "IndexError"}
OSPFv2Messages == {"OSPFv2Hello", "OSPFv2DBD", "OSPFv2LSR", "OSPFv2LSU", "OSPFv2LSAck"}
OSPFv3Messages == {"OSPFv3Hello", "OSPFv3DBD", "OSPFv3LSR", "OSPFv3LSU", "OSPFv3LSAck"}
(* The messages of both versions of OSPF.                                  *)
LEMMA OSPFRelied ==
  ASSUME RoutingTable
  PROVE  /\ \A c \in OSPFv2Messages \cup OSPFv3Messages : Relied(c, 0, 24, OSPFCaveats)
         /\ \A c \in {"OSPFv2", "OSPFv3"} : Relied(c, 14, 24, OSPFCaveats)
<1>1. ASSUME NEW c \in {"OSPFv2Hello", "OSPFv3Hello"} PROVE Relied(c, 0, 24, OSPFCaveats)
  <2>1. RoutingPromise(c) = Over(20, 0, {}) /\ c \in RoutingClasses
    BY <1>1 DEF RoutingPromise, RoutingClasses, Upto
  <2>2. Relied(c, 20, 0, {})
    BY <2>1, TableOver
  <2> QED BY <2>2, ReliedMore
<1>2. ASSUME NEW c \in {"OSPFv2DBD", "OSPFv3DBD"} PROVE Relied(c, 0, 24, OSPFCaveats)
  <2>1. RoutingPromise(c) = Whole(8, {}) /\ c \in RoutingClasses
    BY <1>2 DEF RoutingPromise, RoutingClasses
  <2>2. Relied(c, 8, 0, {})
    BY <2>1, TableWhole
  <2> QED BY <2>2, ReliedMore
<1>3. ASSUME NEW c \in {"OSPFv2LSR", "OSPFv3LSR", "OSPFv2LSAck", "OSPFv3LSAck"}
      PROVE  Relied(c, 0, 24, OSPFCaveats)
  <2>1. RoutingPromise(c) = Over(0, 0, {}) /\ c \in RoutingClasses
    BY <1>3 DEF RoutingPromise, RoutingClasses, Upto
  <2>2. Relied(c, 0, 0, {})
    BY <2>1, TableOver
  <2> QED BY <2>2, ReliedMore
<1>4. ASSUME NEW c \in {"OSPFv2LSU", "OSPFv3LSU"} PROVE Relied(c, 0, 24, OSPFCaveats)
  <2>1. RoutingPromise(c) = Over(4, 24, OSPFCaveats) /\ c \in RoutingClasses /\ "unsized" \notin OSPFCaveats
    BY <1>4 DEF RoutingPromise, RoutingClasses, OSPFCaveats
  <2>2. Relied(c, 4, 24, OSPFCaveats)
    BY <2>1, TableOver
  <2> QED BY <2>2, ReliedMore
<1>5. Relied("OSPFv2", 14, 24, OSPFCaveats)
  <2>1. /\ RoutingPromise("OSPFv2") = Over(24, 24, OSPFCaveats) /\ "OSPFv2" \in RoutingClasses
        /\ "unsized" \notin OSPFCaveats
    BY DEF RoutingPromise, RoutingClasses, OSPFCaveats
  <2>2. Relied("OSPFv2", 24, 24, OSPFCaveats)
    BY <2>1, TableOver
  <2> QED BY <2>2, ReliedMore
<1>6. Relied("OSPFv3", 14, 24, OSPFCaveats)
  <2>1. /\ RoutingPromise("OSPFv3") = Over(16, 24, OSPFCaveats) /\ "OSPFv3" \in RoutingClasses
        /\ "unsized" \notin OSPFCaveats
    BY DEF RoutingPromise, RoutingClasses, OSPFCaveats
  <2>2. Relied("OSPFv3", 16, 24, OSPFCaveats)
    BY <2>1, TableOver
  <2> QED BY <2>2, ReliedMore
<1> QED BY <1>1, <1>2, <1>3, <1>4, <1>5, <1>6 DEF OSPFv2Messages, OSPFv3Messages

(* A header, then the rest as it is or as one of the classes.              *)
LEMMA KeepOrInner ==
  ASSUME NEW g, First(g), NEW least, NEW slack, NEW caveats, Owes(g, least, slack, caveats),
         NEW k \in Nat, k <= g.n, NEW Cs, NEW low \in Nat, \A c \in Cs : Relied(c, low, slack, caveats),
         NEW y, Headed(g, y, k)
  PROVE  /\ k >= least => \A h \in Keep(y) : Result(g, h)
         /\ k + low >= least => \A h \in Inner(y, Cs) : Result(g, h)
<1>1. /\ From(g, y) /\ y.len + y.n <= y.n0 /\ y.out = y.len /\ y.claim = -1 /\ Fits(y, caveats)
      /\ y.len = k
  BY DEF Headed, Fits
<1>2. ASSUME k >= least PROVE \A h \in Keep(y) : Result(g, h)
  BY <1>1, <1>2, KeepsOver
<1>3. ASSUME k + low >= least PROVE \A h \in Inner(y, Cs) : Result(g, h)
  BY <1>1, <1>3, InnerRight
<1> QED BY <1>2, <1>3

(* A header and a message of one of the classes.                           *)
LEMMA MessageRight ==
  ASSUME NEW g, First(g), NEW k \in Nat, NEW slack, NEW caveats, Owes(g, k, slack, caveats),
         NEW Cs, \A c \in Cs : Relied(c, 0, slack, caveats)
  PROVE  \A h \in Message(g, k, Cs) : Result(g, h)
<1>0. From(g, g) /\ g.n \in Nat
  BY FirstIs
<1>1. CASE g.n < k
  BY <1>0, <1>1, RaisesShort DEF Message
<1>2. CASE ~(g.n < k)
  <2> DEFINE y == Take(g, k)
  <2>1. Headed(g, y, k) /\ k <= g.n
    BY <1>0, <1>2, HeaderRead
  <2> HIDE DEF y
  <2>2. (\A h \in Keep(y) : Result(g, h)) /\ (\A h \in Inner(y, Cs) : Result(g, h))
    BY <2>1, KeepOrInner
  <2> QED BY <1>2, <2>2 DEF Message, y
<1> QED BY <1>1, <1>2

(* The OSPF header alone and with the messages of its version.             *)
LEMMA OSPFRight ==
  ASSUME RoutingTable, NEW g, First(g), g.cls \in {"OSPF", "OSPFv2", "OSPFv3"}
  PROVE  \A h \in RoutingStep(g) : Result(g, h)
<1>0. From(g, g) /\ g.n \in Nat /\ Headed(g, g, 0)
  BY FirstIs
<1>1. CASE g.cls = "OSPF"
  <2>1. Owes(g, 14, 24, OSPFCaveats)
    <3>1. RoutingPromise("OSPF") = Over(14, 24, OSPFCaveats) /\ "OSPF" \in RoutingClasses
      BY DEF RoutingPromise, RoutingClasses, OSPFCaveats
    <3> QED BY <1>1, <3>1, TableOver
  <2> DEFINE Cs == {"OSPFv2", "OSPFv3"}
  <2>2. \A c \in Cs : Relied(c, 14, 24, OSPFCaveats)
    BY OSPFRelied
  <2>3. RoutingStep(g) = Plain(g, 14) \cup (IF g.n > 0 THEN Inner(g, Cs) ELSE {})
    BY <1>1 DEF RoutingStep, OSPF
  <2> HIDE DEF Cs
  <2>4. \A h \in Inner(g, Cs) : Result(g, h)
    <3>1. g.len + g.n <= g.n0 /\ g.out = g.len /\ g.claim = -1 /\ g.len + 14 >= 14
      BY <1>0 DEF Headed
    <3> QED BY <1>0, <2>1, <2>2, <3>1, InnerRight
  <2>5. CASE g.n < 14
    BY <1>0, <2>3, <2>4, <2>5, RaisesShort DEF Plain
  <2>6. CASE ~(g.n < 14)
    <3> DEFINE y == Take(g, 14)
    <3>1. Headed(g, y, 14) /\ 14 <= g.n
      BY <1>0, <2>6, HeaderRead
    <3> HIDE DEF y
    <3>2. \A h \in Keep(y) : Result(g, h)
      <4>1. From(g, y) /\ y.len >= 14 /\ y.len + y.n <= y.n0 /\ y.out = y.len /\ Fits(y, OSPFCaveats)
        BY <3>1 DEF Headed, Fits
      <4> QED BY <2>1, <4>1, KeepsOver
    <3> QED BY <2>3, <2>4, <2>6, <3>2 DEF Plain, y
  <2> QED BY <2>5, <2>6
<1>2. CASE g.cls = "OSPFv2"
  <2>1. RoutingPromise("OSPFv2") = Over(24, 24, OSPFCaveats) /\ "OSPFv2" \in RoutingClasses
    BY DEF RoutingPromise, RoutingClasses, OSPFCaveats
  <2>2. Owes(g, 24, 24, OSPFCaveats)
    BY <1>2, <2>1, TableOver
  <2>3. RoutingStep(g) = Message(g, 24, OSPFv2Messages)
    BY <1>2 DEF RoutingStep, OSPFv2, OSPFv2Messages
  <2> QED BY <2>2, <2>3, OSPFRelied, MessageRight
<1>3. CASE g.cls = "OSPFv3"
  <2>1. RoutingPromise("OSPFv3") = Over(16, 24, OSPFCaveats) /\ "OSPFv3" \in RoutingClasses
    BY DEF RoutingPromise, RoutingClasses, OSPFCaveats
  <2>2. Owes(g, 16, 24, OSPFCaveats)
    BY <1>3, <2>1, TableOver
  <2>3. RoutingStep(g) = Message(g, 16, OSPFv3Messages)
    BY <1>3 DEF RoutingStep, OSPFv3, OSPFv3Messages
  <2> QED BY <2>2, <2>3, OSPFRelied, MessageRight
<1> QED BY <1>1, <1>2, <1>3

(* j bytes more.                                                           *)
LEMMA HeaderMore ==
  ASSUME NEW g, NEW y, NEW k \in Int, Headed(g, y, k), NEW j \in Nat, j <= y.n, NEW m \in Int, m = k + j
  PROVE  Headed(g, Take(y, j), m)
<1> DEFINE z == Take(y, j)
<1>1. Is(z, y, y.at, y.n - j, y.lim, y.len + j, y.out + j, y.claim)
  BY TakeHere DEF Headed
<1> HIDE DEF z
<1>2. /\ IsFrame(z) /\ z.cls = g.cls /\ z.n0 = g.n0 /\ z.at = "start" /\ z.lim = 0 /\ z.claim = -1
      /\ z.n = y.n - j /\ z.len = k + j /\ z.out = k + j /\ y.n = g.n - k /\ g.n0 \in Nat /\ g.n \in Nat
      /\ k + y.n = y.n0 /\ y.n0 = g.n0 /\ z.n \in Nat
  BY <1>1 DEF Headed, Is, From, IsFrame
<1>3. z.n = g.n - m
  BY <1>2
<1>4. From(g, z) /\ z.n <= z.n0 /\ z.len = m /\ z.out = m /\ z.len + z.n = z.n0
  BY <1>2 DEF From, Headed
<1> QED BY <1>2, <1>3, <1>4 DEF Headed, z

(* A prefix cut to the data.                                               *)
LEMMA PrefixCut ==
  ASSUME NEW g, NEW y, NEW k \in Nat, Headed(g, y, k), NEW j \in Claims(y)
  PROVE  LET z == Take(y, Least(j, y.n))
         IN /\ From(g, z) /\ z.claim = -1 /\ z.out = z.len /\ z.len >= k /\ z.len <= z.n0
<1> DEFINE t == Least(j, y.n)
           z == Take(y, t)
<1>1. t \in Nat /\ t <= y.n /\ IsFrame(y)
  BY DEF Least, Claims, Headed
<1> HIDE DEF t
<1>2. Is(z, y, y.at, y.n - t, y.lim, y.len + t, y.out + t, y.claim)
  BY <1>1, TakeHere
<1> HIDE DEF z
<1>3. From(g, z) /\ z.claim = -1 /\ z.out = z.len /\ z.len >= k /\ z.len <= z.n0
  BY <1>1, <1>2 DEF Headed, Is, From, IsFrame
<1> QED BY <1>3 DEF z, t

(* An advertisement that ends with the prefix.                             *)
LEMMA PrefixReturns ==
  ASSUME NEW g, NEW least, NEW slack, NEW caveats, Owes(g, least, slack, caveats),
         NEW y, Headed(g, y, least), NEW j \in Claims(y)
  PROVE  Result(g, Return(Take(y, Least(j, y.n))))
<1> DEFINE z == Take(y, Least(j, y.n))
<1>1. From(g, z) /\ z.claim = -1 /\ z.out = z.len /\ z.len >= least /\ z.len <= z.n0
  BY PrefixCut DEF Owes
<1> HIDE DEF z
<1>2. z.len <= z.n0 + slack
  BY <1>1 DEF Owes, From, IsFrame
<1>3. Result(g, Return(z))
  BY <1>1, <1>2, OverReturns
<1> QED BY <1>3 DEF z

(* Advertisements of one shape.                                            *)
LEMMA LSAPlainRight ==
  ASSUME RoutingTable, NEW g, First(g),
         g.cls \in {"LSARouter", "LSAInterAreaPrefix", "LSALink", "LSAASExternalV3"}
  PROVE  \A h \in RoutingStep(g) : Result(g, h)
<1>0. From(g, g) /\ g.n \in Nat
  BY FirstIs
<1>1. CASE g.cls = "LSARouter"
  <2>1. Owes(g, 24, 0, {})
    <3>1. RoutingPromise("LSARouter") = Over(24, 0, {}) /\ "LSARouter" \in RoutingClasses
      BY DEF RoutingPromise, RoutingClasses, Upto
    <3> QED BY <1>1, <3>1, TableOver
  <2>2. CASE g.n < 24
    <3>1. RoutingStep(g) = Short(g)
      BY <1>1, <2>2 DEF RoutingStep, LSARouter
    <3> QED BY <1>0, <3>1, RaisesShort
  <2>3. CASE ~(g.n < 24)
    <3> DEFINE y == Take(g, 24)
    <3>1. Headed(g, y, 24)
      BY <1>0, <2>3, HeaderRead
    <3>2. RoutingStep(g) = {Return(Take(y, 12 * Least(k, y.n \div 12))) : k \in Claims(y)}
      BY <1>1, <2>3 DEF RoutingStep, LSARouter
    <3> HIDE DEF y
    <3>3. ASSUME NEW k \in Claims(y) PROVE Result(g, Return(Take(y, 12 * Least(k, y.n \div 12))))
      <4> DEFINE t == 12 * Least(k, y.n \div 12)
      <4>1. k \in Nat /\ 12 * (y.n \div 12) <= y.n /\ y.n \div 12 \in Nat
        BY <3>1 DEF Claims, Headed
      <4>2. t \in Nat /\ t <= y.n
        BY <4>1, <3>1 DEF Least, Headed
      <4> HIDE DEF t
      <4>3. /\ From(g, y) /\ y.claim = -1 /\ y.out = y.len /\ y.len + t >= 24 /\ y.len + t <= y.n0 + 0
        BY <3>1, <4>2 DEF Headed
      <4>4. Result(g, Return(Take(y, t)))
        BY <2>1, <4>2, <4>3, TakenRight
      <4> QED BY <4>4 DEF t
    <3> QED BY <3>2, <3>3
  <2> QED BY <2>2, <2>3
<1>2. CASE g.cls = "LSAInterAreaPrefix"
  <2>1. Owes(g, 24, 0, {"IndexError"})
    <3>1. RoutingPromise("LSAInterAreaPrefix") = Over(24, 0, {"IndexError"})
          /\ "LSAInterAreaPrefix" \in RoutingClasses
      BY DEF RoutingPromise, RoutingClasses, Upto
    <3> QED BY <1>2, <3>1, TableOver
  <2>2. CASE g.n < 23
    <3>1. RoutingStep(g) = Short(g)
      BY <1>2, <2>2 DEF RoutingStep, LSAInterAreaPrefix
    <3> QED BY <1>0, <3>1, RaisesShort
  <2>3. CASE ~(g.n < 23) /\ Take(g, 23).n < 1
    <3>1. RoutingStep(g) = {Raise(Take(g, 23), "IndexError")}
      BY <1>2, <2>3 DEF RoutingStep, LSAInterAreaPrefix
    <3> DEFINE y == Take(g, 23)
    <3>2. Headed(g, y, 23)
      BY <1>0, <2>3, HeaderRead
    <3> HIDE DEF y
    <3>3. Result(g, Raise(y, "IndexError"))
      BY <2>1, <3>2, OwesIs, RaisesKnown DEF Headed, Exceptions
    <3> QED BY <3>1, <3>3 DEF y
  <2>4. CASE ~(g.n < 23) /\ ~(Take(g, 23).n < 1)
    <3> DEFINE y == Take(g, 23)
               z == Take(y, 1)
    <3>1. RoutingStep(g) = {Return(Take(z, Least(k, z.n))) : k \in Claims(z)}
      BY <1>2, <2>4 DEF RoutingStep, LSAInterAreaPrefix
    <3>2. Headed(g, y, 23)
      BY <1>0, <2>4, HeaderRead
    <3>3. IsFrame(y) /\ 1 <= y.n /\ 1 \in Nat
      BY <2>4, <3>2 DEF Headed
    <3> HIDE DEF y
    <3>4. 23 \in Int /\ 24 \in Int /\ 24 = 23 + 1
      OBVIOUS
    <3>5. Headed(g, z, 24)
      BY <3>2, <3>3, <3>4, HeaderMore
    <3> HIDE DEF z
    <3>6. ASSUME NEW k \in Claims(z) PROVE Result(g, Return(Take(z, Least(k, z.n))))
      BY <2>1, <3>5, PrefixReturns
    <3> QED BY <3>1, <3>6
  <2> QED BY <2>2, <2>3, <2>4
<1>3. CASE g.cls = "LSALink"
  <2>1. Owes(g, 25, 0, {"IndexError"})
    <3>1. RoutingPromise("LSALink") = Over(25, 0, {"IndexError"}) /\ "LSALink" \in RoutingClasses
      BY DEF RoutingPromise, RoutingClasses, Upto
    <3> QED BY <1>3, <3>1, TableOver
  <2>2. CASE g.n < 20
    <3>1. RoutingStep(g) = Short(g)
      BY <1>3, <2>2 DEF RoutingStep, LSALink
    <3> QED BY <1>0, <3>1, RaisesShort
  <2>3. CASE ~(g.n < 20)
    <3> DEFINE y == Take(g, 20)
               z == Take(y, 5)
    <3>1. RoutingStep(g) = IF y.n < 5 THEN {Raise(y, "IndexError")}
                           ELSE {Return(Take(z, Least(k, z.n))) : k \in Claims(z)}
      BY <1>3, <2>3 DEF RoutingStep, LSALink
    <3>2. Headed(g, y, 20)
      BY <1>0, <2>3, HeaderRead
    <3> HIDE DEF y
    <3>3. Result(g, Raise(y, "IndexError"))
      BY <2>1, <3>2, OwesIs, RaisesKnown DEF Headed, Exceptions
    <3>4. ASSUME ~(y.n < 5), NEW k \in Claims(z) PROVE Result(g, Return(Take(z, Least(k, z.n))))
      <4>1. IsFrame(y) /\ 5 <= y.n /\ 5 \in Nat
        BY <3>2, <3>4 DEF Headed
      <4>2. 20 \in Int /\ 25 \in Int /\ 25 = 20 + 5
        OBVIOUS
      <4>3. k \in Claims(z)
        BY <3>4
      <4>4. Headed(g, z, 25)
        BY <3>2, <4>1, <4>2, HeaderMore
      <4> HIDE DEF z
      <4> QED BY <2>1, <4>3, <4>4, PrefixReturns
    <3> QED BY <3>1, <3>3, <3>4
  <2> QED BY <2>2, <2>3
<1>4. CASE g.cls = "LSAASExternalV3"
  <2>1. Owes(g, 33, 8, {"IndexError"})
    <3>1. RoutingPromise("LSAASExternalV3") = Over(33, 8, {"IndexError"}) /\ "LSAASExternalV3" \in RoutingClasses
      BY DEF RoutingPromise, RoutingClasses
    <3> QED BY <1>4, <3>1, TableOver
  <2>2. CASE g.n < 20
    <3>1. RoutingStep(g) = Short(g)
      BY <1>4, <2>2 DEF RoutingStep, LSAASExternalV3
    <3> QED BY <1>0, <3>1, RaisesShort
  <2>3. CASE ~(g.n < 20)
    <3> DEFINE y == Take(g, 20)
               z == Take(y, 5)
    <3>1. RoutingStep(g) = IF y.n \in {0, 4} THEN {Raise(y, "IndexError")}
                           ELSE IF y.n < 5 THEN Short(y)
                           ELSE {Return(Take(Take(z, Least(k, z.n)), 8)) : k \in Claims(z)}
      BY <1>4, <2>3 DEF RoutingStep, LSAASExternalV3
    <3>2. Headed(g, y, 20)
      BY <1>0, <2>3, HeaderRead
    <3> HIDE DEF y
    <3>3. Result(g, Raise(y, "IndexError")) /\ \A h \in Short(y) : Result(g, h)
      BY <2>1, <3>2, OwesIs, RaisesKnown, RaisesShort DEF Headed, Exceptions
    <3>4. ASSUME ~(y.n < 5), NEW k \in Claims(z) PROVE Result(g, Return(Take(Take(z, Least(k, z.n)), 8)))
      <4>1. IsFrame(y) /\ 5 <= y.n /\ 5 \in Nat
        BY <3>2, <3>4 DEF Headed
      <4>2. 20 \in Int /\ 25 \in Int /\ 25 = 20 + 5
        OBVIOUS
      <4>3. k \in Claims(z)
        BY <3>4
      <4>4. Headed(g, z, 25)
        BY <3>2, <4>1, <4>2, HeaderMore
      <4> HIDE DEF z
      <4> DEFINE w == Take(z, Least(k, z.n))
      <4>5. From(g, w) /\ w.claim = -1 /\ w.out = w.len /\ w.len >= 25 /\ w.len <= w.n0
        BY <4>3, <4>4, PrefixCut
      <4> HIDE DEF w
      <4>6. w.len + 8 >= 33 /\ w.len + 8 <= w.n0 + 8
        BY <4>5 DEF From, IsFrame
      <4>7. Result(g, Return(Take(w, 8)))
        BY <2>1, <4>5, <4>6, TakenRight
      <4> QED BY <4>7 DEF w
    <3> QED BY <3>1, <3>3, <3>4
  <2> QED BY <2>2, <2>3
<1> QED BY <1>1, <1>2, <1>3, <1>4

(* Advertisements that report one size.                                    *)
LEMMA LSAFixedRight ==
  ASSUME RoutingTable, NEW g, First(g),
         g.cls \in {"LSASummaryIP", "LSAASExternal", "LSAInterAreaRouter"}
  PROVE  \A h \in RoutingStep(g) : Result(g, h)
<1>0. From(g, g) /\ g.n \in Nat /\ g.n = g.n0 /\ Headed(g, g, 0)
  BY FirstIs DEF First
<1>1. CASE g.cls = "LSASummaryIP"
  <2>1. OwesFixed(g, 27, 27, {})
    <3>1. RoutingPromise("LSASummaryIP") = Fixed(27, 27, {}) /\ "LSASummaryIP" \in RoutingClasses
      BY DEF RoutingPromise, RoutingClasses
    <3> QED BY <1>1, <3>1, TableFixed
  <2>2. CASE g.n < 27
    <3>1. RoutingStep(g) = Short(g)
      BY <1>1, <2>2 DEF RoutingStep, LSASummaryIP
    <3> QED BY <1>0, <3>1, RaisesShort
  <2>3. CASE ~(g.n < 27)
    <3>1. RoutingStep(g) = {Return(Take(g, 27))}
      BY <1>1, <2>3 DEF RoutingStep, LSASummaryIP
    <3>2. g.claim = -1 /\ g.out = g.len /\ g.len + 27 = 27 /\ g.n0 >= 27
      BY <1>0, <2>3 DEF Headed
    <3>3. Result(g, Return(Take(g, 27)))
      BY <1>0, <2>1, <3>2, FixedReturns
    <3> QED BY <3>1, <3>3
  <2> QED BY <2>2, <2>3
<1>2. CASE g.cls = "LSAASExternal"
  <2>1. OwesFixed(g, 36, 28, {"IndexError"})
    <3>1. RoutingPromise("LSAASExternal") = Fixed(36, 28, {"IndexError"}) /\ "LSAASExternal" \in RoutingClasses
      BY DEF RoutingPromise, RoutingClasses
    <3> QED BY <1>2, <3>1, TableFixed
  <2>2. CASE g.n < 24
    <3>1. RoutingStep(g) = Short(g)
      BY <1>2, <2>2 DEF RoutingStep, LSAASExternal
    <3> QED BY <1>0, <3>1, RaisesShort
  <2>3. CASE ~(g.n < 24)
    <3> DEFINE y == Take(g, 24)
               z == Take(y, 4)
    <3>1. RoutingStep(g) = IF y.n = 0 THEN {Raise(y, "IndexError")}
                           ELSE (IF y.n < 4 THEN Short(y) ELSE {Return(Take(z, 8))})
      BY <1>2, <2>3 DEF RoutingStep, LSAASExternal
    <3>2. Headed(g, y, 24)
      BY <1>0, <2>3, HeaderRead
    <3> HIDE DEF y
    <3>3. Result(g, Raise(y, "IndexError")) /\ \A h \in Short(y) : Result(g, h)
      <4>1. "IndexError" \in Caveats(g) /\ "IndexError" \in Exceptions /\ From(g, y)
        <5>1. Caveats(g) = {"IndexError"}
          BY <2>1, OwesFixedIs
        <5> QED BY <3>2, <5>1 DEF Headed, Exceptions
      <4> QED BY <4>1, RaisesKnown, RaisesShort
    <3>4. ASSUME ~(y.n < 4) PROVE Result(g, Return(Take(z, 8)))
      <4>1. 24 \in Int /\ 28 \in Int /\ 28 = 24 + 4 /\ 4 <= y.n
        BY <3>2, <3>4 DEF Headed
      <4>2. Headed(g, z, 28)
        BY <3>2, <4>1, HeaderMore
      <4> HIDE DEF z
      <4>3. From(g, z) /\ z.claim = -1 /\ z.out = z.len /\ z.len + 8 = 36 /\ z.n0 >= 28
        BY <4>2 DEF Headed
      <4> QED BY <2>1, <4>3, FixedReturns
    <3> QED BY <3>1, <3>3, <3>4
  <2> QED BY <2>2, <2>3
<1>3. CASE g.cls = "LSAInterAreaRouter"
  <2>1. OwesFixed(g, 31, 31, {"IndexError"})
    <3>1. RoutingPromise("LSAInterAreaRouter") = Fixed(31, 31, {"IndexError"})
          /\ "LSAInterAreaRouter" \in RoutingClasses
      BY DEF RoutingPromise, RoutingClasses
    <3> QED BY <1>3, <3>1, TableFixed
  <2>2. CASE g.n < 20
    <3>1. RoutingStep(g) = Short(g)
      BY <1>3, <2>2 DEF RoutingStep, LSAInterAreaRouter
    <3> QED BY <1>0, <3>1, RaisesShort
  <2>3. CASE ~(g.n < 20)
    <3> DEFINE y == Take(g, 20)
    <3>1. RoutingStep(g) = IF y.n < 4 THEN {Raise(y, "IndexError")}
                           ELSE (IF y.n < 11 THEN Short(y) ELSE {Return(Take(y, 11))})
      BY <1>3, <2>3 DEF RoutingStep, LSAInterAreaRouter
    <3>2. Headed(g, y, 20)
      BY <1>0, <2>3, HeaderRead
    <3> HIDE DEF y
    <3>3. Result(g, Raise(y, "IndexError")) /\ \A h \in Short(y) : Result(g, h)
      <4>1. "IndexError" \in Caveats(g) /\ "IndexError" \in Exceptions /\ From(g, y)
        <5>1. Caveats(g) = {"IndexError"}
          BY <2>1, OwesFixedIs
        <5> QED BY <3>2, <5>1 DEF Headed, Exceptions
      <4> QED BY <4>1, RaisesKnown, RaisesShort
    <3>4. ASSUME ~(y.n < 11) PROVE Result(g, Return(Take(y, 11)))
      <4>1. From(g, y) /\ y.claim = -1 /\ y.out = y.len /\ y.len + 11 = 31 /\ y.n0 >= 31
        BY <3>2, <3>4 DEF Headed
      <4> QED BY <2>1, <4>1, FixedReturns
    <3> QED BY <3>1, <3>3, <3>4
  <2> QED BY <2>2, <2>3
<1> QED BY <1>1, <1>2, <1>3

(* Links and routers behind four bytes that need not be there.             *)
LEMMA LSAUnevenRight ==
  ASSUME RoutingTable, NEW g, First(g), g.cls \in {"LSARouterV3", "LSANetworkV3"}
  PROVE  \A h \in RoutingStep(g) : Result(g, h)
<1>0. From(g, g) /\ g.n \in Nat
  BY FirstIs
<1>1. CASE g.n < 20
  <2>1. RoutingStep(g) = Short(g)
    BY <1>1 DEF RoutingStep, LSARouterV3, LSANetworkV3
  <2> QED BY <1>0, <2>1, RaisesShort
<1>2. CASE ~(g.n < 20)
  <2> DEFINE y == Take(g, 20)
  <2>1. Headed(g, y, 20)
    BY <1>0, <1>2, HeaderRead
  <2>2. CASE g.cls = "LSARouterV3"
    <3> DEFINE links == 16 * (Monus(y.n, 4) \div 16)
               len == 24 + links
               out == 20 + Least(y.n, 4) + links
    <3>1. RoutingStep(g) = IF y.n = 0 THEN {Raise(y, "IndexError")}
                           ELSE {Return([y EXCEPT !.len = len, !.out = out])}
      BY <1>2, <2>2 DEF RoutingStep, LSARouterV3
    <3> HIDE DEF y
    <3>2. Owes(g, 24, 3, {"IndexError", "uneven"})
      <4>1. RoutingPromise("LSARouterV3") = Over(24, 3, {"IndexError", "uneven"})
            /\ "LSARouterV3" \in RoutingClasses
        BY DEF RoutingPromise, RoutingClasses
      <4> QED BY <2>2, <4>1, TableOver
    <3>3. Result(g, Raise(y, "IndexError"))
      BY <2>1, <3>2, OwesIs, RaisesKnown DEF Headed, Exceptions
    <3>4. ASSUME y.n # 0 PROVE Result(g, Return([y EXCEPT !.len = len, !.out = out]))
      <4>1. Monus(y.n, 4) \in Nat /\ Monus(y.n, 4) <= y.n /\ (Monus(y.n, 4) = 0 \/ Monus(y.n, 4) = y.n - 4)
        BY <2>1 DEF Monus, Headed
      <4>2. links \in Nat /\ links <= Monus(y.n, 4)
        BY <4>1, Wholes
      <4> HIDE DEF links
      <4>3. From(g, y) /\ y.claim = -1 /\ y.n0 = 20 + y.n /\ y.n \in Nat
        BY <2>1 DEF Headed
      <4>4. len \in Int /\ len >= 24 /\ len <= y.n0 + 3 /\ "uneven" \in {"IndexError", "uneven"}
        BY <3>4, <4>1, <4>2, <4>3
      <4>5. out \in Int
        BY <4>2, <4>3 DEF Least
      <4> HIDE DEF len, out
      <4> QED BY <3>2, <4>3, <4>4, <4>5, MeasuredRight
    <3> QED BY <3>1, <3>3, <3>4
  <2>3. CASE g.cls = "LSANetworkV3"
    <3> DEFINE routers == 4 * (Monus(y.n, 4) \div 4)
               len == 24 + routers
               out == 21 + Least(y.n, 3) + routers
    <3>1. RoutingStep(g) = {Return([y EXCEPT !.len = len, !.out = out])}
      BY <1>2, <2>3 DEF RoutingStep, LSANetworkV3
    <3> HIDE DEF y
    <3>2. Owes(g, 24, 4, {"uneven"})
      <4>1. RoutingPromise("LSANetworkV3") = Over(24, 4, {"uneven"}) /\ "LSANetworkV3" \in RoutingClasses
        BY DEF RoutingPromise, RoutingClasses
      <4> QED BY <2>3, <4>1, TableOver
    <3>3. Result(g, Return([y EXCEPT !.len = len, !.out = out]))
      <4>1. Monus(y.n, 4) \in Nat /\ Monus(y.n, 4) <= y.n /\ (Monus(y.n, 4) = 0 \/ Monus(y.n, 4) = y.n - 4)
        BY <2>1 DEF Monus, Headed
      <4>2. routers \in Nat /\ routers <= Monus(y.n, 4)
        BY <4>1, Wholes
      <4> HIDE DEF routers
      <4>3. From(g, y) /\ y.claim = -1 /\ y.n0 = 20 + y.n /\ y.n \in Nat
        BY <2>1 DEF Headed
      <4>4. len \in Int /\ len >= 24 /\ len <= y.n0 + 4
        BY <4>1, <4>2, <4>3
      <4>5. out \in Int
        BY <4>2, <4>3 DEF Least
      <4> HIDE DEF len, out
      <4> QED BY <3>2, <4>3, <4>4, <4>5, MeasuredRight
    <3> QED BY <3>1, <3>3
  <2> QED BY <2>2, <2>3
<1> QED BY <1>1, <1>2

(* LSAIntraAreaPrefix.unpack: the loop over prefixes.                      *)
LEMMA LSAIntraAreaPrefixRight ==
  ASSUME RoutingTable, NEW g, Ready(g), g.cls = "LSAIntraAreaPrefix"
  PROVE  \A h \in LSAIntraAreaPrefix(g) : Result(g, h)
<1>1. Owes(g, 32, 0, {})
  <2>1. RoutingPromise("LSAIntraAreaPrefix") = Over(32, 0, {}) /\ "LSAIntraAreaPrefix" \in RoutingClasses
    BY DEF RoutingPromise, RoutingClasses, Upto
  <2> QED BY <2>1, TableOver
<1>2. First(g) \/ (g.at = "prefixes" /\ Within(g, 32) /\ g.out >= 0)
  BY DEF Ready, Going, Restarted, Restart, BGPLoop, OSPFLoop, OtherLoop, PDUs, Values
<1>3. From(g, g) /\ IsFrame(g) /\ g.n <= g.n0 /\ g.n \in Nat
  BY DEF Ready, From, IsFrame
<1>4. ASSUME NEW h, From(g, h), h.at = "prefixes", h.out >= 0, Within(h, 32)
      PROVE  Result(g, h)
  <2>1. h.cls = "LSAIntraAreaPrefix" /\ h.len >= 0
    BY <1>4 DEF From, Within, Past, IsFrame
  <2>2. Going(h)
    BY <1>4, <2>1 DEF Going, OSPFLoop
  <2> QED BY <1>4, <2>2, GoesOn DEF Exceptions
<1>5. CASE First(g)
  <2>1. CASE g.n < 32
    BY <1>3, <1>5, <2>1, RaisesShort DEF LSAIntraAreaPrefix, First
  <2>2. CASE ~(g.n < 32)
    <3>1. ASSUME NEW k \in Claims(Take(g, 32)) PROVE Result(g, Loop(Take(g, 32), "prefixes", k))
      <4> DEFINE h == Loop(Take(g, 32), "prefixes", k)
      <4>1. k \in Int
        BY <3>1 DEF Claims
      <4>2. From(g, h) /\ h.at = "prefixes" /\ h.out >= 0 /\ Within(h, 32)
        BY <4>1, <1>1, <1>5, <2>2, <1>3, LoopFirst
      <4> HIDE DEF h
      <4>3. Result(g, h)
        BY <4>2, <1>4
      <4> QED BY <4>3 DEF h
    <3> QED BY <1>5, <2>2, <3>1 DEF LSAIntraAreaPrefix, First
  <2> QED BY <2>1, <2>2
<1>6. CASE g.at = "prefixes" /\ Within(g, 32) /\ g.out >= 0
  <2>1. Result(g, Return(g))
    BY <1>1, <1>3, <1>6, WithinReturns
  <2>2. ASSUME g.n > 0, NEW k \in 0 .. g.n
        PROVE  Result(g, [Take(g, 1 + Least(k, g.n - 1)) EXCEPT !.lim = @ - 1])
    <3> DEFINE t == 1 + Least(k, g.n - 1)
               y == Take(g, t)
               lim == y.lim - 1
               h == [y EXCEPT !.lim = lim]
    <3>1. t \in Nat /\ t >= 1 /\ t <= g.n
      BY <1>3, <2>2 DEF Least
    <3> HIDE DEF t
    <3>2. Is(y, g, g.at, g.n - t, g.lim, g.len + t, g.out + t, g.claim)
      BY <1>3, <3>1, TakeHere
    <3>3. IsFrame(y) /\ lim \in Int
      BY <3>2 DEF Is, IsFrame
    <3>4. [y EXCEPT !.lim = @ - 1] = h
      BY <3>3 DEF IsFrame
    <3> HIDE DEF y, lim
    <3>5. Is(h, y, y.at, y.n, lim, y.len, y.out, y.claim)
      BY <3>3, Limited
    <3> HIDE DEF h
    <3>6. /\ From(g, h) /\ h.at = "prefixes" /\ h.out >= 0 /\ h.len = g.len + t /\ h.n = g.n - t
          /\ h.out = g.out + t /\ h.claim = g.claim /\ h.n0 = g.n0
      BY <1>3, <1>6, <3>1, <3>2, <3>5 DEF Is, From, IsFrame
    <3>7. Caveats(h) = {} /\ Caveats(g) = {} /\ Promise(h.cls).slack = 0
      BY <1>1, <3>6, OwesIs DEF From, Caveats
    <3>8. Past(h, 32)
      BY <1>3, <1>6, <2>2, <3>1, <3>6, <3>7 DEF Within, Past, IsFrame
    <3>9. h.len <= h.n0 + Promise(h.cls).slack
      BY <1>3, <1>6, <2>2, <3>1, <3>6, <3>7 DEF Within, Past, IsFrame
    <3>10. Result(g, h)
      BY <3>6, <3>8, <3>9, <1>4 DEF Within
    <3> QED BY <3>4, <3>10 DEF t, y
  <2>3. g.at # "start"
    BY <1>6
  <2> QED BY <2>1, <2>2, <2>3 DEF LSAIntraAreaPrefix
<1> QED BY <1>2, <1>5, <1>6

(* Advertisements of either version: each may report up to eight bytes     *)
(* more than the data it is made of.                                       *)
LSAsV2 == {"LSARouter", "LSANetwork", "LSASummaryIP", "LSAASExternal"}
LSAsV3 == {"LSARouterV3", "LSANetworkV3", "LSAInterAreaPrefix", "LSAInterAreaRouter", "LSAASExternalV3",
           "LSALink", "LSAIntraAreaPrefix"}
LSAHeaders == {"LSAv2Header", "LSAv3Header"}
LSACaveats == {"IndexError", "uneven"}
(* What the advertisements can be relied on for.                           *)
LEMMA LSARelied ==
  ASSUME RoutingTable, NEW c \in LSAsV2 \cup LSAsV3 \cup LSAHeaders
  PROVE  Relied(c, 20, 8, LSACaveats)
<1>1. ASSUME NEW least \in Nat, least >= 20, NEW slack \in 0 .. 8, NEW caveats, caveats \subseteq LSACaveats,
             Relied(c, least, slack, caveats)
      PROVE  Relied(c, 20, 8, LSACaveats)
  BY <1>1, ReliedMore
<1>2. CASE c \in LSAHeaders
  <2>1. RoutingPromise(c) = Whole(20, {}) /\ c \in RoutingClasses
    BY <1>2 DEF RoutingPromise, RoutingClasses, LSAHeaders
  <2>2. Relied(c, 20, 0, {})
    BY <2>1, TableWhole
  <2> QED BY <2>2, <1>1
<1>3. CASE c \in {"LSARouter", "LSANetwork"}
  <2>1. RoutingPromise(c) = Over(24, 0, {}) /\ c \in RoutingClasses
    BY <1>3 DEF RoutingPromise, RoutingClasses, Upto
  <2>2. Relied(c, 24, 0, {})
    BY <2>1, TableOver
  <2> QED BY <2>2, <1>1
<1>4. CASE c = "LSASummaryIP"
  <2>1. RoutingPromise(c) = Fixed(27, 27, {}) /\ c \in RoutingClasses
    BY <1>4 DEF RoutingPromise, RoutingClasses
  <2>2. 27 <= 27 + 0
    OBVIOUS
  <2>3. Relied(c, 27, 0, {})
    BY <2>1, <2>2, TableFixed
  <2> QED BY <2>3, <1>1
<1>5. CASE c = "LSAASExternal"
  <2>1. RoutingPromise(c) = Fixed(36, 28, {"IndexError"}) /\ c \in RoutingClasses
    BY <1>5 DEF RoutingPromise, RoutingClasses
  <2>2. 36 <= 28 + 8 /\ "unsized" \notin {"IndexError"}
    OBVIOUS
  <2>3. Relied(c, 36, 8, {"IndexError"})
    BY <2>1, <2>2, TableFixed
  <2> QED BY <2>3, <1>1 DEF LSACaveats
<1>6. CASE c = "LSARouterV3"
  <2>1. RoutingPromise(c) = Over(24, 3, LSACaveats) /\ c \in RoutingClasses /\ "unsized" \notin LSACaveats
    BY <1>6 DEF RoutingPromise, RoutingClasses, LSACaveats
  <2>2. Relied(c, 24, 3, LSACaveats)
    BY <2>1, TableOver
  <2> QED BY <2>2, <1>1
<1>7. CASE c = "LSANetworkV3"
  <2>1. RoutingPromise(c) = Over(24, 4, {"uneven"}) /\ c \in RoutingClasses
    BY <1>7 DEF RoutingPromise, RoutingClasses
  <2>2. Relied(c, 24, 4, {"uneven"})
    BY <2>1, TableOver
  <2> QED BY <2>2, <1>1 DEF LSACaveats
<1>8. CASE c = "LSAInterAreaPrefix"
  <2>1. RoutingPromise(c) = Over(24, 0, {"IndexError"}) /\ c \in RoutingClasses
    BY <1>8 DEF RoutingPromise, RoutingClasses, Upto
  <2>2. Relied(c, 24, 0, {"IndexError"})
    BY <2>1, TableOver
  <2> QED BY <2>2, <1>1 DEF LSACaveats
<1>9. CASE c = "LSAInterAreaRouter"
  <2>1. RoutingPromise(c) = Fixed(31, 31, {"IndexError"}) /\ c \in RoutingClasses
    BY <1>9 DEF RoutingPromise, RoutingClasses
  <2>2. 31 <= 31 + 0 /\ "unsized" \notin {"IndexError"}
    OBVIOUS
  <2>3. Relied(c, 31, 0, {"IndexError"})
    BY <2>1, <2>2, TableFixed
  <2> QED BY <2>3, <1>1 DEF LSACaveats
<1>10. CASE c = "LSAASExternalV3"
  <2>1. RoutingPromise(c) = Over(33, 8, {"IndexError"}) /\ c \in RoutingClasses
    BY <1>10 DEF RoutingPromise, RoutingClasses
  <2>2. Relied(c, 33, 8, {"IndexError"})
    BY <2>1, TableOver
  <2> QED BY <2>2, <1>1 DEF LSACaveats
<1>11. CASE c = "LSALink"
  <2>1. RoutingPromise(c) = Over(25, 0, {"IndexError"}) /\ c \in RoutingClasses
    BY <1>11 DEF RoutingPromise, RoutingClasses, Upto
  <2>2. Relied(c, 25, 0, {"IndexError"})
    BY <2>1, TableOver
  <2> QED BY <2>2, <1>1 DEF LSACaveats
<1>12. CASE c = "LSAIntraAreaPrefix"
  <2>1. RoutingPromise(c) = Over(32, 0, {}) /\ c \in RoutingClasses
    BY <1>12 DEF RoutingPromise, RoutingClasses, Upto
  <2>2. Relied(c, 32, 0, {})
    BY <2>1, TableOver
  <2> QED BY <2>2, <1>1
<1> QED BY <1>2, <1>3, <1>4, <1>5, <1>6, <1>7, <1>8, <1>9, <1>10, <1>11, <1>12 DEF LSAsV2, LSAsV3

(* Where the loop over advertisements is: three of them at most, each      *)
(* with eight bytes more than the data at most.                            *)
Advertised(g) ==
  /\ g.at = "lsas" /\ g.len >= 4 /\ g.out = g.len /\ g.claim = -1
  /\ g.lim \in 0 .. 3 /\ g.len + g.n <= g.n0 + 8 * (3 - g.lim)

(* An update counts its advertisements; each is skipped by its own length. *)
LEMMA Skipped ==
  ASSUME NEW g, IsFrame(g), NEW n \in Nat, NEW lim \in Int, NEW len \in Int, NEW out \in Int
  PROVE  Is([g EXCEPT !.n = n, !.lim = lim, !.len = len, !.out = out], g, g.at, n, lim, len, out, g.claim)
<1> SUFFICES ASSUME NEW h, h = [g EXCEPT !.n = n, !.lim = lim, !.len = len, !.out = out]
             PROVE  Is(h, g, g.at, n, lim, len, out, g.claim)
  OBVIOUS
<1>1. IsFrame(h)
  BY DEF IsFrame
<1> QED BY <1>1 DEF IsFrame, Is

(* One advertisement is kept, or cannot be read.                           *)
LEMMA AdvertisementKept ==
  ASSUME NEW g, From(g, g), Advertised(g), g.lim > 0,
         NEW k \in Int, Least(k, g.n) >= 3, NEW l \in Nat, l <= Least(k, g.n) + 8
  PROVE  LET h == [g EXCEPT !.n = Monus(@, k), !.lim = @ - 1, !.len = @ + l, !.out = @ + l]
         IN From(g, h) /\ Advertised(h)
<1> DEFINE m == Least(k, g.n)
           n == Monus(g.n, k)
           lim == g.lim - 1
           len == g.len + l
           out == g.out + l
           y == [g EXCEPT !.n = n, !.lim = lim, !.len = len, !.out = out]
<1>1. IsFrame(g) /\ g.n \in Nat /\ g.n0 \in Nat /\ g.n <= g.n0 /\ g.lim \in Int /\ g.len \in Int /\ g.out \in Int
  BY DEF From, IsFrame
<1>2. m \in Nat /\ m <= g.n /\ n = g.n - m /\ m >= 3
  BY <1>1 DEF Least, Monus
<1>3. l <= m + 8
  OBVIOUS
<1>4. n \in Nat /\ lim \in Int /\ len \in Int /\ out \in Int
  <2> HIDE DEF m, n
  <2> QED BY <1>1, <1>2
<1>5. Is(y, g, g.at, n, lim, len, out, g.claim)
  <2> HIDE DEF n, lim, len, out
  <2> QED BY <1>1, <1>4, Skipped
<1>6. [g EXCEPT !.n = Monus(@, k), !.lim = @ - 1, !.len = @ + l, !.out = @ + l] = y
  BY <1>1 DEF IsFrame
<1> HIDE DEF m, n, y
<1>7. From(g, y)
  BY <1>1, <1>2, <1>5 DEF Is, From
<1>8. Advertised(y)
  BY <1>1, <1>2, <1>3, <1>5 DEF Is, Advertised
<1> QED BY <1>6, <1>7, <1>8

(* One round of the loop over the advertisements of an update.             *)
LEMMA AdvertisementRight ==
  ASSUME NEW g, From(g, g), Owes(g, 4, 24, OSPFCaveats), Advertised(g), g.lim > 0,
         \A h : From(g, h) /\ Advertised(h) => Result(g, h),
         NEW typed \in {3, 4}, NEW Cs, NEW header, \A c \in Cs \cup {header} : Relied(c, 20, 8, LSACaveats)
  PROVE  \A h \in Advertisement(g, typed, header, Cs) : Result(g, h)
<1>0. /\ IsFrame(g) /\ g.n \in Nat /\ g.n \in Int /\ g.n0 \in Nat /\ g.len \in Nat /\ g.lim \in 1 .. 3 /\ Caveats(g) = OSPFCaveats
  BY OwesIs DEF From, IsFrame, Advertised
<1> DEFINE M(k)       == Least(k, g.n)
           Kept1(k, l) == [g EXCEPT !.n = Monus(@, k), !.lim = @ - 1, !.len = @ + l, !.out = @ + l]
           Lens(k)    == UNION {Reports(c, M(k)) : c \in Cs \cup {header}}
           Errs(k)    == (IF M(k) < 20 THEN {"UnpackError"} ELSE {})
                         \cup UNION {Errors(c) \ {"UnpackError"} : c \in Cs}
           Steps(k)   == IF M(k) < typed THEN {Raise(g, "AttributeError")}
                         ELSE {Kept1(k, l) : l \in Lens(k)} \cup {Raise(g, e) : e \in Errs(k)}
<1>1. Advertisement(g, typed, header, Cs)
        = UNION {Steps(k) : k \in {0, 3, 4, 19, 20, g.n - 24, g.n - 20, g.n, g.n + 2}}
  BY DEF Advertisement
<1> HIDE DEF M, Kept1, Lens, Errs, Steps
<1>2. ASSUME NEW k \in Int, NEW h \in Steps(k) PROVE Result(g, h)
  <2>1. Result(g, Raise(g, "AttributeError"))
    BY <1>0, RaisesKnown DEF OSPFCaveats, Exceptions
  <2>2. ASSUME NEW e \in Errs(k) PROVE Result(g, Raise(g, e))
    <3>1. CASE e = "UnpackError"
      BY <3>1, Raises DEF Declared
    <3>2. CASE e # "UnpackError"
      <4>1. PICK c \in Cs : e \in Errors(c)
        BY <2>2, <3>2 DEF Errs
      <4>2. e \in Exceptions /\ e \in LSACaveats
        BY <3>2, <4>1, ErrorsAre
      <4>3. e \in Caveats(g)
        BY <1>0, <4>2 DEF LSACaveats, OSPFCaveats, Exceptions
      <4> QED BY <4>2, <4>3, RaisesKnown
    <3> QED BY <3>1, <3>2
  <2>3. ASSUME ~(M(k) < typed), NEW l \in Lens(k) PROVE Result(g, Kept1(k, l))
    <3>1. Least(k, g.n) \in Int /\ Least(k, g.n) >= 3 /\ k \in Int
      <4>1. Least(k, g.n) \in Int /\ ~(Least(k, g.n) < typed)
        BY <1>0, <1>2, <2>3, LeastIs DEF M
      <4> QED BY <1>2, <4>1
    <3>2. PICK c \in Cs \cup {header} : l \in Reports(c, Least(k, g.n))
      BY <2>3 DEF Lens, M
    <3>3. Least(k, g.n) \in Nat
      BY <3>1
    <3>4. l \in Nat /\ l <= Least(k, g.n) + 8
      BY <3>2, <3>3 DEF Relied
    <3>5. From(g, Kept1(k, l)) /\ Advertised(Kept1(k, l))
      BY <3>1, <3>4, AdvertisementKept DEF Kept1
    <3> QED BY <3>5
  <2> QED BY <1>2, <2>1, <2>2, <2>3 DEF Steps
<1>3. \A k \in {0, 3, 4, 19, 20, g.n - 24, g.n - 20, g.n, g.n + 2} : k \in Int
  BY <1>0
<1> QED BY <1>1, <1>2, <1>3

(* OSPFv2LSU and OSPFv3LSU: counted advertisements, each cut to its        *)
(* length.                                                                 *)
LEMMA OSPFUpdateRight ==
  ASSUME RoutingTable, NEW g, Ready(g), g.cls \in {"OSPFv2LSU", "OSPFv3LSU"}
  PROVE  \A h \in RoutingStep(g) : Result(g, h)
<1>1. Owes(g, 4, 24, OSPFCaveats)
  <2>1. ASSUME NEW c \in {"OSPFv2LSU", "OSPFv3LSU"}
        PROVE  RoutingPromise(c) = Over(4, 24, OSPFCaveats) /\ c \in RoutingClasses
    BY DEF RoutingPromise, RoutingClasses, OSPFCaveats
  <2> QED BY <2>1, TableOver
<1>2. First(g) \/ Advertised(g)
  BY DEF Ready, Going, Restarted, Restart, BGPLoop, OSPFLoop, OtherLoop, PDUs, Values, Advertised
<1>3. From(g, g) /\ IsFrame(g) /\ g.n <= g.n0 /\ g.n \in Nat /\ Caveats(g) = OSPFCaveats
  BY <1>1, OwesIs DEF Ready, From, IsFrame
<1>4. ASSUME NEW h, From(g, h), Advertised(h) PROVE Result(g, h)
  <2>1. h.cls \in {"OSPFv2LSU", "OSPFv3LSU"} /\ h.len >= 0 /\ h.out >= 0
    BY <1>4 DEF From, Advertised, IsFrame
  <2>2. Going(h)
    BY <1>4, <2>1 DEF Going, OSPFLoop, Advertised
  <2>3. h.at \notin {"returned", "UnpackError", "endless"} \cup Exceptions
    BY <1>4 DEF Advertised, Exceptions
  <2> QED BY <1>4, <2>2, <2>3, GoesOn
<1>5. ASSUME NEW typed \in {3, 4}, NEW header, NEW Cs, \A c \in Cs \cup {header} : Relied(c, 20, 8, LSACaveats)
      PROVE  \A h \in Advertisements(g, typed, header, Cs) : Result(g, h)
  <2>1. CASE First(g)
    <3>1. Result(g, Raise(g, "AttributeError"))
      BY <1>3, RaisesKnown DEF OSPFCaveats, Exceptions
    <3>2. ASSUME ~(g.n < 4), NEW k \in 0 .. 3 PROVE Result(g, Loop(Take(g, 4), "lsas", k))
      <4> DEFINE y == Take(g, 4)
                 h == Loop(y, "lsas", k)
      <4>1. Headed(g, y, 4)
        BY <1>3, <2>1, <3>2, HeaderRead
      <4>2. IsFrame(y) /\ k \in Int
        BY <3>2, <4>1 DEF Headed
      <4> HIDE DEF y
      <4>3. Is(h, y, "lsas", y.n, k, y.len, y.out, y.claim)
        BY <4>2, LoopIs
      <4> HIDE DEF h
      <4>4. From(g, h)
        BY <4>1, <4>3 DEF Headed, Is, From
      <4>5. Advertised(h)
        BY <3>2, <4>1, <4>3 DEF Headed, Is, Advertised
      <4>6. Result(g, h)
        BY <4>4, <4>5, <1>4
      <4> QED BY <4>6 DEF h, y
    <3> QED BY <2>1, <3>1, <3>2 DEF Advertisements, First
  <2>2. CASE Advertised(g)
    <3>1. Result(g, Return(g))
      <4>1. g.len <= g.n0 + 24 /\ g.len >= 4 /\ g.claim = -1 /\ g.out = g.len
        BY <1>3, <2>2 DEF Advertised, IsFrame
      <4> QED BY <1>1, <1>3, <4>1, OverReturns
    <3>2. ASSUME g.lim > 0 PROVE \A h \in Advertisement(g, typed, header, Cs) : Result(g, h)
      BY <1>1, <1>3, <1>4, <1>5, <2>2, <3>2, AdvertisementRight
    <3> QED BY <2>2, <3>1, <3>2 DEF Advertisements, Advertised
  <2> QED BY <1>2, <2>1, <2>2
<1>6. CASE g.cls = "OSPFv2LSU"
  <2>1. RoutingStep(g) = Advertisements(g, 3, "LSAv2Header", LSAsV2)
    BY <1>6 DEF RoutingStep, OSPFv2LSU, LSAsV2
  <2>2. \A c \in LSAsV2 \cup {"LSAv2Header"} : Relied(c, 20, 8, LSACaveats)
    BY LSARelied DEF LSAHeaders
  <2> QED BY <1>5, <2>1, <2>2
<1>7. CASE g.cls = "OSPFv3LSU"
  <2>1. RoutingStep(g) = Advertisements(g, 4, "LSAv3Header", LSAsV3)
    BY <1>7 DEF RoutingStep, OSPFv3LSU, LSAsV3
  <2>2. \A c \in LSAsV3 \cup {"LSAv3Header"} : Relied(c, 20, 8, LSACaveats)
    BY LSARelied DEF LSAHeaders
  <2> QED BY <1>5, <2>1, <2>2
<1> QED BY <1>6, <1>7
-----------------------------------------------------------------------------
(* Classes whose len() raises.                                             *)
HasNoSize(g) == "unsized" \in Caveats(g) /\ Promise(g.cls).least \in Nat
(* Such a packet keeps the promise of its class whatever bytes() gives.    *)
LEMMA UnsizedKept ==
  ASSUME NEW g, HasNoSize(g), NEW h, From(g, h), h.len = -1, h.claim = -1
  PROVE  Kept(h)
<1>1. Caveats(h) = Caveats(g) /\ Promise(h.cls).least \in Nat
  BY DEF From, Caveats, HasNoSize
<1>2. ~(h.claim \in Promise(h.cls).least .. h.n0)
  BY <1>1
<1> QED BY <1>1, <1>2 DEF Kept, HasNoSize

(* It may return at any point.                                             *)
LEMMA UnsizedRight ==
  ASSUME NEW g, HasNoSize(g), NEW x, From(g, x), x.claim = -1, NEW bytes \in Int
  PROVE  \A h \in Unsized(x, bytes) : Result(g, h)
<1> DEFINE y == [x EXCEPT !.len = -1, !.out = bytes]
<1>1. -1 \in Int
  OBVIOUS
<1>2. Is(y, x, x.at, x.n, x.lim, -1, bytes, x.claim)
  BY <1>1, Measured DEF From
<1> HIDE DEF y
<1>3. From(g, y) /\ y.len = -1 /\ y.claim = -1
  BY <1>2 DEF Is, From
<1>4. Result(g, Return(y))
  BY <1>3, UnsizedKept, ReturnFrom
<1> QED BY <1>4 DEF Unsized, y

(* A class that reports numbers, when it reports at all.                   *)
Numbered(c, caveats) ==
  /\ \A m \in Nat : \A l \in Reports(c, m) : l \in Nat
  /\ Errors(c) \subseteq {"UnpackError"} \cup (Exceptions \cap caveats)

(* The table of promises for these classes.                                *)
LEMMA TableNumbered ==
  ASSUME RoutingTable, NEW c \in RoutingClasses, NEW caveats, RoutingPromise(c) = Over(0, 0, caveats)
  PROVE  Numbered(c, caveats) /\ \A g : g.cls = c => Owes(g, 0, 0, caveats)
<1>1. Promise(c) = Over(0, 0, caveats) /\ c # "bytes"
  BY DEF RoutingTable, RoutingClasses
<1>2. Of(c) = Over(0, 0, caveats)
  BY <1>1 DEF Of
<1>3. /\ Of(c).caveats = caveats
      /\ \A m : Reports(c, m) = 0 .. (m + 0)
  BY <1>2, OverLengths DEF Reports
<1> QED BY <1>1, <1>3 DEF Numbered, Errors, Owes

(* The packet keeps a class whose size it cannot tell.                     *)
LEMMA UnsizedInner ==
  ASSUME NEW g, HasNoSize(g), NEW x, From(g, x), x.claim = -1, NEW bytes \in Int,
         NEW Cs, \A c \in Cs : Numbered(c, Caveats(g))
  PROVE  \A h \in Inner(x, Cs) : Result(g, [h EXCEPT !.len = -1, !.out = bytes])
<1>0. IsFrame(x) /\ x.n \in Nat /\ -1 \in Int
  BY DEF From, IsFrame
<1>1. ASSUME NEW h, From(g, h), h.claim = -1,
             h.at = "returned" \/ (h.at \in Exceptions /\ h.at \in Caveats(g)) \/ h.at = "UnpackError"
      PROVE  Result(g, [h EXCEPT !.len = -1, !.out = bytes])
  <2> DEFINE y == [h EXCEPT !.len = -1, !.out = bytes]
  <2>1. Is(y, h, h.at, h.n, h.lim, -1, bytes, h.claim)
    BY <1>0, <1>1, Measured DEF From
  <2> HIDE DEF y
  <2>2. From(g, y) /\ y.len = -1 /\ y.claim = -1 /\ y.at = h.at
    BY <1>1, <2>1 DEF Is, From
  <2>3. CASE h.at = "returned"
    BY <2>2, <2>3, UnsizedKept, Returns DEF y
  <2>4. CASE h.at # "returned"
    <3>1. Caveats(y) = Caveats(g)
      BY <2>2 DEF From, Caveats
    <3>2. Declared(y, y.at) /\ Finished(y) /\ y.at # "returned"
      BY <1>1, <2>2, <2>4, <3>1 DEF Declared, Finished
    <3> QED BY <2>2, <3>2 DEF Result, Ended, y
  <2> QED BY <2>3, <2>4
<1>2. ASSUME NEW c \in Cs, NEW r \in Gives(c, x.n)
      PROVE  LET h == Return([Hold(x, r) EXCEPT !.n = 0])
             IN From(g, h) /\ h.claim = -1 /\ h.at = "returned"
  <2> DEFINE y == Hold(x, r)
             z == [y EXCEPT !.n = 0]
             h == Return(z)
  <2>1. r \in Nat \X Nat
    <3>1. PICK l \in Reports(c, x.n), o \in Odd(Of(c)) : r = <<l, l + o>>
      BY <1>2 DEF Gives
    <3>2. l \in Nat /\ o \in Nat
      BY <1>0, <1>2, <3>1 DEF Numbered, Odd
    <3> QED BY <3>1, <3>2
  <2>2. Is(y, x, x.at, Monus(x.n, r[1]), x.lim, x.len + r[1], x.out + r[2], x.claim)
    BY <2>1, HoldIs DEF From
  <2>3. Is(z, y, y.at, 0, y.lim, y.len, y.out, y.claim)
    BY <2>2, Moved DEF Is
  <2> HIDE DEF y, z
  <2>4. From(g, z) /\ z.claim = -1
    BY <2>2, <2>3 DEF Is, From, IsFrame
  <2>5. Is(h, z, "returned", z.n, z.lim, z.len, z.out, z.claim)
    BY <2>4, ReturnIs DEF From
  <2> HIDE DEF h
  <2>6. From(g, h) /\ h.claim = -1 /\ h.at = "returned"
    BY <2>4, <2>5 DEF Is, From
  <2> QED BY <2>6 DEF h, z, y
<1>3. ASSUME NEW c \in Cs, NEW e \in Errors(c)
      PROVE  /\ From(g, Raise(x, e)) /\ Raise(x, e).claim = -1
             /\ (Raise(x, e).at \in Exceptions /\ Raise(x, e).at \in Caveats(g)) \/ Raise(x, e).at = "UnpackError"
  <2>1. Is(Raise(x, e), x, e, x.n, x.lim, x.len, x.out, x.claim)
    BY <1>0, RaiseIs
  <2>2. (e \in Exceptions /\ e \in Caveats(g)) \/ e = "UnpackError"
    BY <1>3 DEF Numbered
  <2> QED BY <2>1, <2>2 DEF Is, From
<1>4. ASSUME NEW h \in Unsized(x, -1) PROVE From(g, h) /\ h.claim = -1 /\ h.at = "returned"
  <2> DEFINE y == [x EXCEPT !.len = -1, !.out = -1]
  <2>1. Is(y, x, x.at, x.n, x.lim, -1, -1, x.claim)
    BY <1>0, Measured
  <2> HIDE DEF y
  <2>2. Is(Return(y), y, "returned", y.n, y.lim, y.len, y.out, y.claim)
    BY <2>1, ReturnIs DEF Is
  <2>3. h = Return(y)
    BY <1>4 DEF Unsized, y
  <2> QED BY <2>1, <2>2, <2>3 DEF Is, From
<1>5. \A h \in Inner(x, Cs) :
        \/ h \in Unsized(x, -1)
        \/ \E c \in Cs : \E r \in Gives(c, x.n) : h = Return([Hold(x, r) EXCEPT !.n = 0])
        \/ \E c \in Cs : \E e \in Errors(c) : h = Raise(x, e)
  BY DEF Inner
<1>6. ASSUME NEW h \in Inner(x, Cs)
      PROVE  /\ From(g, h) /\ h.claim = -1
             /\ h.at = "returned" \/ (h.at \in Exceptions /\ h.at \in Caveats(g)) \/ h.at = "UnpackError"
  <2>1. CASE h \in Unsized(x, -1)
    BY <1>4, <2>1
  <2>2. CASE \E c \in Cs : \E r \in Gives(c, x.n) : h = Return([Hold(x, r) EXCEPT !.n = 0])
    BY <1>2, <2>2
  <2>3. CASE \E c \in Cs : \E e \in Errors(c) : h = Raise(x, e)
    BY <1>3, <2>3
  <2> QED BY <1>5, <1>6, <2>1, <2>2, <2>3
<1> QED BY <1>1, <1>6

(* ISIS.unpack: the header and, where the PDU type has one, a class for    *)
(* the rest.                                                               *)
LEMMA ISISRight ==
  ASSUME RoutingTable, NEW g, First(g), g.cls = "ISIS"
  PROVE  \A h \in ISIS(g) : Result(g, h)
<1> DEFINE caveats == {"AttributeError", "IndexError", "unsized"}
<1>0. From(g, g) /\ g.n \in Nat
  BY FirstIs
<1>1. OwesAll(g, 8, caveats)
  <2>1. RoutingPromise("ISIS") = Whole(8, caveats) /\ "ISIS" \in RoutingClasses
    BY DEF RoutingPromise, RoutingClasses
  <2> QED BY <2>1, TableWhole
<1>2. Caveats(g) = caveats /\ HasNoSize(g)
  BY <1>1, OwesAllIs DEF HasNoSize
<1>3. \A c \in PDUs : Numbered(c, Caveats(g))
  <2>1. ASSUME NEW c \in {"ISISLANHelloL1", "ISISP2PHello", "ISISLSPL1"} PROVE Numbered(c, caveats)
    <3>1. RoutingPromise(c) = Over(0, 0, caveats) /\ c \in RoutingClasses
      BY DEF RoutingPromise, RoutingClasses, Upto
    <3> QED BY <3>1, TableNumbered
  <2>2. ASSUME NEW c \in {"ISISCSNPL1", "ISISPSNPL1"} PROVE Numbered(c, caveats)
    <3>1. RoutingPromise(c) = Over(0, 0, {"AttributeError", "unsized"}) /\ c \in RoutingClasses
      BY DEF RoutingPromise, RoutingClasses, Upto
    <3>2. Numbered(c, {"AttributeError", "unsized"})
      BY <3>1, TableNumbered
    <3> QED BY <3>2 DEF Numbered
  <2> QED BY <1>2, <2>1, <2>2 DEF PDUs
<1>4. CASE g.n < 8
  BY <1>0, <1>4, RaisesShort DEF ISIS
<1>5. CASE ~(g.n < 8)
  <2> DEFINE y == Take(g, 8)
  <2>1. Headed(g, y, 8)
    BY <1>0, <1>5, HeaderRead
  <2>2. ISIS(g) \subseteq Keep(y) \cup {[h EXCEPT !.len = -1, !.out = -1] : h \in Inner(y, PDUs)}
    BY <1>5 DEF ISIS, PDUs
  <2> HIDE DEF y
  <2>3. \A h \in Keep(y) : Result(g, h)
    <3>1. From(g, y) /\ y.len >= 8 /\ y.len + y.n = y.n0 /\ y.out = y.len /\ Fits(y, caveats)
      BY <2>1 DEF Headed, Fits
    <3> QED BY <1>1, <3>1, KeepsAll
  <2>4. \A h \in Inner(y, PDUs) : Result(g, [h EXCEPT !.len = -1, !.out = -1])
    <3>1. From(g, y) /\ y.claim = -1 /\ -1 \in Int
      BY <2>1 DEF Headed
    <3> QED BY <1>2, <1>3, <3>1, UnsizedInner
  <2> QED BY <2>2, <2>3, <2>4
<1> QED BY <1>4, <1>5

(* Where the loop over the TLVs of a PDU is.                               *)
Walking(h) == h.at = "tlvs" /\ h.len = 0 /\ h.out = 0 /\ h.claim = -1

(* The hello, link state and sequence number PDUs: fields, then TLVs.      *)
LEMMA PDURight ==
  ASSUME RoutingTable, NEW g, Ready(g), g.cls \in PDUs
  PROVE  \A h \in RoutingStep(g) : Result(g, h)
<1> DEFINE all  == {"AttributeError", "IndexError", "unsized"}
           less == {"AttributeError", "unsized"}
           Indexed == {"ISISLANHelloL1", "ISISP2PHello", "ISISLSPL1"}
<1>1. /\ "unsized" \in Caveats(g) /\ "AttributeError" \in Caveats(g)
      /\ g.cls \in Indexed => "IndexError" \in Caveats(g)
      /\ HasNoSize(g)
  <2>1. ASSUME NEW c \in Indexed PROVE RoutingPromise(c) = Over(0, 0, all) /\ c \in RoutingClasses
    BY DEF RoutingPromise, RoutingClasses, Upto
  <2>2. ASSUME NEW c \in {"ISISCSNPL1", "ISISPSNPL1"}
        PROVE  RoutingPromise(c) = Over(0, 0, less) /\ c \in RoutingClasses
    BY DEF RoutingPromise, RoutingClasses, Upto
  <2>3. CASE g.cls \in Indexed
    <3>1. Owes(g, 0, 0, all)
      BY <2>1, <2>3, TableOver
    <3> QED BY <3>1, OwesIs DEF HasNoSize
  <2>4. CASE g.cls \in {"ISISCSNPL1", "ISISPSNPL1"}
    <3>1. Owes(g, 0, 0, less)
      BY <2>2, <2>4, TableOver
    <3> QED BY <2>4, <3>1, OwesIs DEF HasNoSize
  <2> QED BY <2>3, <2>4 DEF PDUs
<1>2. From(g, g) /\ IsFrame(g) /\ g.n <= g.n0 /\ g.n \in Nat
  BY DEF Ready, From, IsFrame
<1>3. First(g) \/ Walking(g)
  BY DEF Ready, Going, Restarted, Restart, BGPLoop, OSPFLoop, OtherLoop, PDUs, Values, Walking
<1>4. ASSUME NEW h, From(g, h), Walking(h) PROVE Result(g, h)
  <2>1. h.cls \in PDUs /\ h.len >= 0 /\ h.out >= 0
    BY <1>4 DEF From, Walking
  <2>2. Going(h)
    BY <1>4, <2>1 DEF Going, OtherLoop, Walking
  <2>3. h.at \notin {"returned", "UnpackError", "endless"} \cup Exceptions
    BY <1>4 DEF Walking, Exceptions
  <2> QED BY <1>4, <2>2, <2>3, GoesOn
<1>5. CASE Walking(g)
  <2>1. \/ RoutingStep(g) = ISISTLVs(g)
        \/ g.cls \in Indexed /\ RoutingStep(g) = {Raise(g, "IndexError")}
    <3>1. g.at # "start"
      BY <1>5 DEF Walking
    <3>2. \A packed, indexed, k : PDU(g, packed, indexed, k) = ISISTLVs(g)
      BY <3>1 DEF PDU
    <3> QED BY <3>2 DEF RoutingStep, PDUs, ISISLANHelloL1, ISISP2PHello, ISISLSPL1, ISISCSNPL1, ISISPSNPL1
  <2>2. \A h \in Unsized(g, -1) : Result(g, h)
    <3>1. g.claim = -1 /\ -1 \in Int
      BY <1>5 DEF Walking
    <3> QED BY <1>1, <1>2, <3>1, UnsizedRight
  <2>3. ASSUME NEW k \in 2 .. g.n PROVE Result(g, [g EXCEPT !.n = @ - k])
    <3> DEFINE n == g.n - k
               y == [g EXCEPT !.n = n]
    <3>1. n \in Nat /\ n <= g.n
      BY <1>2, <2>3
    <3>2. Is(y, g, g.at, n, g.lim, g.len, g.out, g.claim)
      <4> HIDE DEF n
      <4> QED BY <1>2, <3>1, Moved
    <3>3. [g EXCEPT !.n = @ - k] = y
      BY <1>2 DEF IsFrame
    <3> HIDE DEF y
    <3>4. From(g, y) /\ Walking(y)
      BY <1>2, <1>5, <3>1, <3>2 DEF Is, From, Walking, IsFrame
    <3> QED BY <1>4, <3>3, <3>4
  <2>4. g.cls \in Indexed => Result(g, Raise(g, "IndexError"))
    BY <1>1, <1>2, RaisesKnown DEF Exceptions
  <2> QED BY <2>1, <2>2, <2>3, <2>4 DEF ISISTLVs
<1>6. CASE First(g)
  <2>1. Result(g, Raise(g, "AttributeError"))
    BY <1>1, <1>2, RaisesKnown DEF Exceptions
  <2>2. ASSUME g.cls \in Indexed PROVE Result(g, Raise(g, "IndexError"))
    BY <1>1, <1>2, <2>2, RaisesKnown DEF Exceptions
  <2>3. ASSUME NEW k \in Nat PROVE Result(g, Loop([g EXCEPT !.n = Monus(@, k)], "tlvs", 0))
    <3> DEFINE n == Monus(g.n, k)
               y == [g EXCEPT !.n = n]
               h == Loop(y, "tlvs", 0)
    <3>1. n \in Nat /\ n <= g.n
      BY <1>2 DEF Monus
    <3>2. Is(y, g, g.at, n, g.lim, g.len, g.out, g.claim)
      <4> HIDE DEF n
      <4> QED BY <1>2, <3>1, Moved
    <3>3. [g EXCEPT !.n = Monus(@, k)] = y
      BY <1>2 DEF IsFrame
    <3> HIDE DEF y, n
    <3>4. Is(h, y, "tlvs", y.n, 0, y.len, y.out, y.claim)
      BY <3>2, LoopIs DEF Is
    <3> HIDE DEF h
    <3>5. From(g, h)
      BY <1>2, <3>1, <3>2, <3>4 DEF Is, From, IsFrame
    <3>6. Walking(h)
      BY <1>6, <3>2, <3>4 DEF Is, Walking, First
    <3>7. Result(g, h)
      BY <1>4, <3>5, <3>6
    <3> QED BY <3>3, <3>7 DEF h
  <2>4. ASSUME NEW packed, NEW indexed \in BOOLEAN, NEW k \in Nat, indexed => g.cls \in Indexed
        PROVE  \A h \in PDU(g, packed, indexed, k) : Result(g, h)
    BY <1>6, <2>1, <2>2, <2>3, <2>4 DEF PDU, First
  <2>5. CASE g.cls \in Indexed
    <3>1. RoutingStep(g) \in {{Raise(g, "IndexError")}, PDU(g, 11, TRUE, 19), PDU(g, 11, TRUE, 12),
                              PDU(g, 18, TRUE, 19)}
      BY <2>5 DEF RoutingStep, ISISLANHelloL1, ISISP2PHello, ISISLSPL1
    <3> QED BY <2>2, <2>4, <2>5, <3>1
  <2>6. CASE g.cls \in {"ISISCSNPL1", "ISISPSNPL1"}
    <3>1. RoutingStep(g) \in {PDU(g, 2, FALSE, 26), PDU(g, 2, FALSE, 10)}
      BY <2>6 DEF RoutingStep, ISISCSNPL1, ISISPSNPL1
    <3> QED BY <2>4, <3>1
  <2> QED BY <2>5, <2>6 DEF PDUs
<1> QED BY <1>3, <1>5, <1>6

(* Elements that know their size before they look at their value.          *)
Valued(h) == h.at = "value" /\ h.len >= 0 /\ h.out >= 0 /\ Kept(h)

(* Its value may be cut further or left.                                   *)
LEMMA ValueGoesOn ==
  ASSUME NEW g, g.cls \in Values, NEW h, From(g, h), Valued(h)
  PROVE  Result(g, h) /\ Result(g, Return(h))
<1>1. h.cls \in Values
  BY DEF From
<1>2. Going(h)
  BY <1>1 DEF Going, OtherLoop, Valued
<1>3. h.at \notin {"returned", "UnpackError", "endless"} \cup Exceptions
  BY DEF Valued, Exceptions
<1> QED BY <1>2, <1>3, GoesOn, ReturnFrom DEF Valued

(* A cut leaves the sizes alone.                                           *)
LEMMA ValueMoves ==
  ASSUME NEW g, NEW h, From(g, h), Valued(h), NEW n \in Nat, n <= h.n
  PROVE  From(g, [h EXCEPT !.n = n]) /\ Valued([h EXCEPT !.n = n])
<1> DEFINE y == [h EXCEPT !.n = n]
<1>1. Is(y, h, h.at, n, h.lim, h.len, h.out, h.claim)
  BY Moved DEF From
<1> HIDE DEF y
<1>2. From(g, y)
  BY <1>1 DEF Is, From, IsFrame
<1>3. Kept(y)
  BY <1>1 DEF Valued, Kept, Is, Caveats
<1>4. Valued(y)
  BY <1>1, <1>3 DEF Valued, Is
<1> QED BY <1>2, <1>4 DEF y

(* The value of h cut by k bytes, as far as there are any.                 *)
LEMMA ValueCut ==
  ASSUME NEW g, g.cls \in Values, NEW h, From(g, h), Valued(h), NEW k \in Nat
  PROVE  /\ Result(g, [h EXCEPT !.n = Monus(@, k)])
         /\ k <= h.n => Result(g, [h EXCEPT !.n = @ - k])
<1>0. IsFrame(h) /\ h.n \in Nat
  BY DEF From, IsFrame
<1> DEFINE n == Monus(h.n, k)
           less == h.n - k
<1>1. n \in Nat /\ n <= h.n
  BY <1>0 DEF Monus
<1>2. Result(g, [h EXCEPT !.n = n])
  <2> HIDE DEF n
  <2> QED BY <1>1, ValueMoves, ValueGoesOn
<1>3. ASSUME k <= h.n PROVE Result(g, [h EXCEPT !.n = less])
  <2>1. less \in Nat /\ less <= h.n
    BY <1>0, <1>3
  <2> HIDE DEF less
  <2> QED BY <2>1, ValueMoves, ValueGoesOn
<1>4. [h EXCEPT !.n = Monus(@, k)] = [h EXCEPT !.n = n] /\ [h EXCEPT !.n = @ - k] = [h EXCEPT !.n = less]
  BY <1>0 DEF IsFrame
<1> QED BY <1>2, <1>3, <1>4

(* The element has its sizes before its value is looked at.                *)
LEMMA Entered ==
  ASSUME NEW g, IsFrame(g), NEW n \in Nat, NEW len \in Int, NEW out \in Int
  PROVE  Is([g EXCEPT !.at = "value", !.n = n, !.len = len, !.out = out], g, "value", n, g.lim, len, out, g.claim)
<1> SUFFICES ASSUME NEW h, h = [g EXCEPT !.at = "value", !.n = n, !.len = len, !.out = out]
             PROVE  Is(h, g, "value", n, g.lim, len, out, g.claim)
  OBVIOUS
<1>1. IsFrame(h)
  BY DEF IsFrame
<1> QED BY <1>1 DEF IsFrame, Is

(* The TLVs of ISIS: entries of a fixed size or with a length of their     *)
(* own.                                                                    *)
LEMMA ISISValueRight ==
  ASSUME RoutingTable, NEW g, Ready(g),
         g.cls \in {"ISISTLV", "ISISNeighborsTLV", "ISISEISReachTLV", "ISISIPIntReachTLV"}
  PROVE  \A h \in RoutingStep(g) : Result(g, h)
<1>0. From(g, g) /\ IsFrame(g) /\ g.n \in Nat /\ g.n0 \in Nat /\ g.n <= g.n0 /\ g.cls \in Values
  BY DEF Ready, From, IsFrame, Values
<1>1. Owes(g, 2, 2, {"IndexError"})
  <2>1. ASSUME NEW c \in {"ISISTLV", "ISISNeighborsTLV", "ISISEISReachTLV", "ISISIPIntReachTLV"}
        PROVE  RoutingPromise(c) = Over(2, 2, {"IndexError"}) /\ c \in RoutingClasses
    BY DEF RoutingPromise, RoutingClasses
  <2> QED BY <2>1, TableOver
<1>2. First(g) \/ Valued(g)
  BY DEF Ready, Going, Restarted, Restart, BGPLoop, OSPFLoop, OtherLoop, PDUs, Values, Valued
<1>3. ASSUME NEW k \in Nat, NEW Extra, \A x \in Extra : x \in Nat
      PROVE  \A h \in ISISValue(g, k, Extra) : Result(g, h)
  <2>1. CASE Valued(g)
    <3>1. Result(g, Return(g))
      BY <1>0, <2>1, ValueGoesOn
    <3>2. ASSUME NEW x \in Extra PROVE Result(g, [g EXCEPT !.n = Monus(@, k + x)])
      <4> DEFINE t == k + x
      <4>1. t \in Nat
        BY <1>3, <3>2
      <4> HIDE DEF t
      <4>2. Result(g, [g EXCEPT !.n = Monus(@, t)])
        BY <1>0, <2>1, <4>1, ValueCut
      <4> QED BY <4>2 DEF t
    <3>3. ISISValue(g, k, Extra) = IF g.n < k THEN {Return(g)} ELSE {[g EXCEPT !.n = Monus(@, k + x)] : x \in Extra}
      BY <2>1 DEF ISISValue, Valued
    <3> QED BY <3>1, <3>2, <3>3
  <2>2. CASE First(g)
    <3>1. g.at = "start" /\ g.n = g.n0 /\ g.len = 0 /\ g.out = 0 /\ g.claim = -1
      BY <2>2 DEF First
    <3>2. CASE g.n = 0
      <4>1. ISISValue(g, k, Extra) = {Return([g EXCEPT !.len = 2, !.out = 2])}
        BY <3>1, <3>2 DEF ISISValue
      <4> DEFINE y == [g EXCEPT !.len = 2, !.out = 2]
      <4>2. Is(y, g, g.at, g.n, g.lim, 2, 2, g.claim)
        <5>1. 2 \in Int
          OBVIOUS
        <5> QED BY <1>0, <5>1, Measured
      <4> HIDE DEF y
      <4>3. From(g, y) /\ y.claim = -1 /\ y.out = y.len /\ y.len >= 2 /\ y.len <= y.n0 + 2
        BY <1>0, <3>1, <4>2 DEF Is, From
      <4>4. Result(g, Return(y))
        BY <1>1, <4>3, OverReturns
      <4> QED BY <4>1, <4>4 DEF y
    <3>3. CASE g.n = 1
      <4>1. ISISValue(g, k, Extra) = {Raise(g, "IndexError")}
        BY <3>1, <3>3 DEF ISISValue
      <4>2. Result(g, Raise(g, "IndexError"))
        BY <1>0, <1>1, OwesIs, RaisesKnown DEF Exceptions
      <4> QED BY <4>1, <4>2
    <3>4. CASE g.n > 1
      <4> DEFINE V(l) == LET v == Least(l, g.n - 2)
                         IN Declare([g EXCEPT !.at = "value", !.n = v, !.len = 2 + v, !.out = 2 + v], 2 + l)
      <4>1. ISISValue(g, k, Extra) = {V(l) : l \in 0 .. g.n}
        <5> DEFINE A == {Return([g EXCEPT !.len = 2, !.out = 2])}
                   B == {Raise(g, "IndexError")}
                   C == {V(l) : l \in 0 .. g.n}
                   D == IF g.n < k THEN {Return(g)} ELSE {[g EXCEPT !.n = Monus(@, k + x)] : x \in Extra}
        <5>1. ISISValue(g, k, Extra) = CASE g.at = "start" /\ g.n = 0 -> A [] g.at = "start" /\ g.n = 1 -> B
                                         [] g.at = "start" /\ g.n > 1 -> C [] g.at = "value" -> D
          BY DEF ISISValue
        <5> HIDE DEF A, B, C, D
        <5>2. ISISValue(g, k, Extra) = C
          BY <1>0, <3>1, <3>4, <5>1
        <5> QED BY <5>2 DEF C
      <4>2. ASSUME NEW l \in 0 .. g.n PROVE Result(g, V(l))
        <5> DEFINE v == Least(l, g.n - 2)
                   len == 2 + v
                   claim == 2 + l
                   y == [g EXCEPT !.at = "value", !.n = v, !.len = len, !.out = len]
                   h == Declare(y, claim)
        <5>1. v \in Nat /\ v <= l /\ v <= g.n - 2 /\ (l <= g.n - 2 => v = l) /\ l \in Nat
          BY <1>0, <3>4, <4>2 DEF Least
        <5> HIDE DEF v
        <5>2. len \in Int /\ claim \in Int
          BY <5>1
        <5>3. Is(y, g, "value", v, g.lim, len, len, g.claim)
          <6> HIDE DEF len
          <6> QED BY <1>0, <5>1, <5>2, Entered
        <5> HIDE DEF y
        <5>4. Is(h, y, y.at, y.n, y.lim, y.len, y.out, claim)
          <6> HIDE DEF claim
          <6> QED BY <5>2, <5>3, DeclareIs DEF Is
        <5> HIDE DEF h
        <5>5. /\ From(g, h) /\ h.at = "value" /\ h.len = 2 + v /\ h.out = 2 + v /\ h.claim = 2 + l /\ h.n0 = g.n
          BY <1>0, <3>1, <5>1, <5>3, <5>4 DEF Is, From
        <5>6. /\ h.len >= 2 /\ h.len <= h.n0 + 2 /\ h.out = h.len
              /\ h.claim \in 2 .. h.n0 => h.len = h.claim
          BY <1>0, <5>1, <5>5
        <5>7. Kept(h)
          BY <1>1, <5>5, <5>6, OverKept
        <5>8. Valued(h)
          BY <5>1, <5>5, <5>7 DEF Valued
        <5>9. Result(g, h)
          BY <1>0, <5>5, <5>8, ValueGoesOn
        <5> QED BY <5>9 DEF h, y, v
      <4> HIDE DEF V
      <4> QED BY <4>1, <4>2
    <3> QED BY <1>0, <3>2, <3>3, <3>4
  <2> QED BY <1>2, <2>1, <2>2
<1>4. CASE g.cls = "ISISTLV"
  <2>1. RoutingStep(g) = ISISValue(g, 1, 1 .. g.n) /\ \A x \in 1 .. g.n : x \in Nat
    BY <1>0, <1>4 DEF RoutingStep, ISISTLV
  <2> QED BY <1>3, <2>1
<1>5. CASE g.cls = "ISISNeighborsTLV"
  <2>1. RoutingStep(g) = ISISValue(g, 6, {0}) /\ \A x \in {0} : x \in Nat
    BY <1>5 DEF RoutingStep, ISISNeighborsTLV
  <2> QED BY <1>3, <2>1
<1>6. CASE g.cls = "ISISEISReachTLV"
  <2>1. RoutingStep(g) = ISISValue(g, 11, 0 .. (g.n - 9)) /\ \A x \in 0 .. (g.n - 9) : x \in Nat
    BY <1>0, <1>6 DEF RoutingStep, ISISEISReachTLV
  <2> QED BY <1>3, <2>1
<1>7. CASE g.cls = "ISISIPIntReachTLV"
  <2>1. RoutingStep(g) = ISISValue(g, 12, {0}) /\ \A x \in {0} : x \in Nat
    BY <1>7 DEF RoutingStep, ISISIPIntReachTLV
  <2> QED BY <1>3, <2>1
<1> QED BY <1>4, <1>5, <1>6, <1>7

(* EIGRP.unpack: the header and a class for the rest.                      *)
LEMMA EIGRPRight ==
  ASSUME RoutingTable, NEW g, First(g), g.cls = "EIGRP"
  PROVE  \A h \in EIGRP(g) : Result(g, h)
<1> DEFINE caveats == {"IndexError", "unsized"}
<1>0. From(g, g) /\ g.n \in Nat /\ g.n0 \in Int
  BY FirstIs DEF First, IsFrame
<1>1. OwesAll(g, 20, caveats)
  <2>1. RoutingPromise("EIGRP") = Whole(20, caveats) /\ "EIGRP" \in RoutingClasses
    BY DEF RoutingPromise, RoutingClasses
  <2> QED BY <2>1, TableWhole
<1>2. Caveats(g) = caveats /\ HasNoSize(g)
  BY <1>1, OwesAllIs DEF HasNoSize
<1>3. \A c \in {"EIGRPMessage"} : Numbered(c, Caveats(g))
  <2>1. RoutingPromise("EIGRPMessage") = Over(0, 0, caveats) /\ "EIGRPMessage" \in RoutingClasses
    BY DEF RoutingPromise, RoutingClasses, Upto
  <2> QED BY <1>2, <2>1, TableNumbered
<1>4. CASE g.n < 20
  BY <1>0, <1>4, RaisesShort DEF EIGRP
<1>5. CASE ~(g.n < 20)
  <2> DEFINE y == Take(g, 20)
  <2>1. Headed(g, y, 20)
    BY <1>0, <1>5, HeaderRead
  <2>2. EIGRP(g) = Keep(y) \cup {[h EXCEPT !.len = -1, !.out = g.n0] : h \in Inner(y, {"EIGRPMessage"})}
    BY <1>5 DEF EIGRP
  <2> HIDE DEF y
  <2>3. \A h \in Keep(y) : Result(g, h)
    <3>1. From(g, y) /\ y.len >= 20 /\ y.len + y.n = y.n0 /\ y.out = y.len /\ Fits(y, caveats)
      BY <2>1 DEF Headed, Fits
    <3> QED BY <1>1, <3>1, KeepsAll
  <2>4. \A h \in Inner(y, {"EIGRPMessage"}) : Result(g, [h EXCEPT !.len = -1, !.out = g.n0])
    <3>1. From(g, y) /\ y.claim = -1
      BY <2>1 DEF Headed
    <3> QED BY <1>0, <1>2, <1>3, <3>1, UnsizedInner
  <2> QED BY <2>2, <2>3, <2>4
<1> QED BY <1>4, <1>5

(* A class that starts anew on what an element leaves of its buffer.       *)
Fresh(h) == h.at = "start" /\ h.len = 0 /\ h.out = 0 /\ h.claim = -1
(* The frame then is the one it was, on fewer bytes.                       *)
LEMMA RestartRight ==
  ASSUME NEW g, g.cls \in Restart, From(g, g), Fresh(g), NEW n \in Nat, n <= g.n
  PROVE  Result(g, [g EXCEPT !.n = n])
<1> DEFINE y == [g EXCEPT !.n = n]
<1>1. Is(y, g, g.at, n, g.lim, g.len, g.out, g.claim)
  BY Moved DEF From
<1> HIDE DEF y
<1>2. From(g, y) /\ Fresh(y)
  BY <1>1 DEF Is, From, IsFrame, Fresh
<1>3. Restarted(y)
  BY <1>2 DEF Restarted, Fresh, From
<1>4. Going(y)
  BY <1>2, <1>3 DEF Going, Fresh
<1>5. y.at \notin {"returned", "UnpackError", "endless"} \cup Exceptions
  BY <1>2 DEF Fresh, Exceptions
<1>6. Result(g, y)
  BY <1>2, <1>4, <1>5, GoesOn
<1> QED BY <1>6 DEF y

(* Those two classes are always at the start.                              *)
LEMMA ReadyToRestart ==
  ASSUME NEW g, Ready(g), g.cls \in Restart
  PROVE  From(g, g) /\ Fresh(g) /\ g.claim = -1 /\ g.n \in Nat /\ g.n0 \in Int
<1>1. First(g) \/ Restarted(g)
  BY DEF Ready, Going, BGPLoop, OSPFLoop, OtherLoop, PDUs, Values, Restart
<1> QED BY <1>1 DEF Ready, First, Restarted, From, Fresh, IsFrame

(* The loop over the TLVs of an EIGRP message.                             *)
LEMMA EIGRPMessageRight ==
  ASSUME RoutingTable, NEW g, Ready(g), g.cls = "EIGRPMessage"
  PROVE  \A h \in EIGRPMessage(g) : Result(g, h)
<1> DEFINE caveats == {"IndexError", "unsized"}
<1>0. g.cls \in Restart /\ From(g, g) /\ Fresh(g) /\ g.claim = -1 /\ g.n \in Nat /\ g.n0 \in Int
  BY ReadyToRestart DEF Restart
<1>1. Caveats(g) = caveats /\ HasNoSize(g)
  <2>1. RoutingPromise("EIGRPMessage") = Over(0, 0, caveats) /\ "EIGRPMessage" \in RoutingClasses
    BY DEF RoutingPromise, RoutingClasses, Upto
  <2>2. Owes(g, 0, 0, caveats)
    BY <2>1, TableOver
  <2> QED BY <2>2, OwesIs DEF HasNoSize
<1>2. \A h \in Unsized(g, g.n0) : Result(g, h)
  BY <1>0, <1>1, UnsizedRight
<1>3. ASSUME NEW k \in 4 .. g.n PROVE Result(g, [g EXCEPT !.n = @ - k])
  <2> DEFINE n == g.n - k
  <2>1. n \in Nat /\ n <= g.n
    BY <1>0, <1>3
  <2>2. [g EXCEPT !.n = @ - k] = [g EXCEPT !.n = n]
    BY <1>0 DEF From, IsFrame
  <2> HIDE DEF n
  <2>3. Result(g, [g EXCEPT !.n = n])
    BY <1>0, <2>1, RestartRight
  <2> QED BY <2>2, <2>3
<1>4. Result(g, Raise(g, "IndexError"))
  BY <1>0, <1>1, RaisesKnown DEF Exceptions
<1> QED BY <1>2, <1>3, <1>4 DEF EIGRPMessage

(* TopologyBuilder.build: the loop over the BGP messages of one direction. *)
LEMMA TopologyBuildRight ==
  ASSUME RoutingTable, NEW g, Ready(g), g.cls = "TopologyBuild"
  PROVE  \A h \in TopologyBuild(g) : Result(g, h)
<1>0. g.cls \in Restart /\ From(g, g) /\ Fresh(g) /\ g.claim = -1 /\ g.n \in Nat
  BY ReadyToRestart DEF Restart
<1>1. HasNoSize(g)
  <2>1. RoutingPromise("TopologyBuild") = Sizeless({}) /\ "TopologyBuild" \in RoutingClasses
    BY DEF RoutingPromise, RoutingClasses
  <2>2. Promise(g.cls) = Sizeless({})
    BY <2>1 DEF RoutingTable
  <2>3. Sizeless({}).caveats = {"unsized"} /\ Sizeless({}).least = 0
    BY DEF Sizeless, Upto, Over
  <2> QED BY <2>2, <2>3 DEF HasNoSize, Caveats
<1>2. \A h \in Unsized(g, -1) : Result(g, h)
  <2>1. -1 \in Int
    OBVIOUS
  <2> QED BY <1>0, <1>1, <2>1, UnsizedRight
<1>3. ASSUME NEW l \in Nat PROVE Result(g, [g EXCEPT !.n = Monus(@, l)])
  <2> DEFINE n == Monus(g.n, l)
  <2>1. n \in Nat /\ n <= g.n
    BY <1>0 DEF Monus
  <2>2. [g EXCEPT !.n = Monus(@, l)] = [g EXCEPT !.n = n]
    BY <1>0 DEF From, IsFrame
  <2> HIDE DEF n
  <2>3. Result(g, [g EXCEPT !.n = n])
    BY <1>0, <2>1, RestartRight
  <2> QED BY <2>2, <2>3
<1>4. \A l \in Reports("BGP", g.n) : l \in Nat
  <2>1. RoutingPromise("BGP") = Over(19, 2, {"AttributeError", "IndexError", "uneven", "drifts"})
        /\ "BGP" \in RoutingClasses
    BY DEF RoutingPromise, RoutingClasses
  <2>2. Relied("BGP", 19, 2, {"AttributeError", "IndexError", "uneven", "drifts"})
    BY <2>1, TableOver
  <2> QED BY <1>0, <2>2 DEF Relied
<1>5. \A l \in (1 .. (g.n + 2)) \cup Reports("BGP", g.n) : l \in Nat
  BY <1>0, <1>4
<1> QED BY <1>2, <1>3, <1>5 DEF TopologyBuild

(* EIGRP's TLVs: what they have when the buffer is empty or cut inside the *)
(* header, and when a value follows it.                                    *)
EIGRPOwed(g, caveats) == Owes(g, 0, 4, caveats) /\ "struct.error" \in caveats /\ "uneven" \in caveats

(* An empty buffer leaves the defaults; one of one to three bytes raises   *)
(* struct.error.                                                           *)
LEMMA EIGRPNoValueRight ==
  ASSUME NEW g, First(g), NEW caveats, EIGRPOwed(g, caveats)
  PROVE  \A h \in EIGRPNoValue(g) : Result(g, h)
<1>0. From(g, g) /\ g.n \in Nat /\ g.n0 \in Nat /\ g.claim = -1
  BY FirstIs DEF First, IsFrame
<1>1. Result(g, Return([g EXCEPT !.len = 4, !.out = 4]))
  <2>1. 4 \in Int /\ 4 >= 0 /\ 4 <= g.n0 + 4
    BY <1>0
  <2> QED BY <1>0, <2>1, MeasuredRight DEF EIGRPOwed
<1>2. Result(g, Raise(g, "struct.error"))
  <2>1. "struct.error" \in Caveats(g)
    BY OwesIs DEF EIGRPOwed
  <2> QED BY <1>0, <2>1, RaisesKnown DEF Exceptions
<1> QED BY <1>0, <1>1, <1>2 DEF EIGRPNoValue

(* The same with the declared length as the size.                          *)
LEMMA EnteredWhole ==
  ASSUME NEW g, IsFrame(g), NEW n \in Nat, NEW len \in Int, NEW out \in Int, NEW claim \in Int
  PROVE  Is([g EXCEPT !.at = "value", !.n = n, !.len = len, !.out = out, !.claim = claim],
            g, "value", n, g.lim, len, out, claim)
<1> SUFFICES ASSUME NEW h, h = [g EXCEPT !.at = "value", !.n = n, !.len = len, !.out = out, !.claim = claim]
             PROVE  Is(h, g, "value", n, g.lim, len, out, claim)
  OBVIOUS
<1>1. IsFrame(h)
  BY DEF IsFrame
<1> QED BY <1>1 DEF IsFrame, Is

(* With four bytes and more len() is the declared length, at most four     *)
(* more than there are.                                                    *)
LEMMA EIGRPValueIs ==
  ASSUME NEW g, First(g), NEW caveats, EIGRPOwed(g, caveats), NEW h \in EIGRPValue(g)
  PROVE  From(g, h) /\ Valued(h)
<1>0. IsFrame(g) /\ g.n \in Nat /\ g.n0 = g.n
  BY DEF First, IsFrame
<1>1. CASE g.n < 4
  BY <1>1 DEF EIGRPValue
<1>2. CASE ~(g.n < 4)
  <2> DEFINE V(k) == LET v == Least(Monus(k, 4), g.n - 4)
                     IN [g EXCEPT !.at = "value", !.n = v, !.len = k, !.out = 4 + v, !.claim = k]
  <2>1. EIGRPValue(g) = {V(k) : k \in 0 .. (g.n + 2)}
    BY <1>2 DEF EIGRPValue
  <2> HIDE DEF V
  <2>2. PICK k \in 0 .. (g.n + 2) : h = V(k)
    BY <2>1
  <2> DEFINE v == Least(Monus(k, 4), g.n - 4)
             out == 4 + v
  <2>3. v \in Nat /\ v <= g.n - 4 /\ k \in Nat /\ k <= g.n + 2
    BY <1>0, <1>2, <2>2 DEF Least, Monus
  <2>4. h = [g EXCEPT !.at = "value", !.n = v, !.len = k, !.out = out, !.claim = k]
    BY <2>2 DEF V
  <2> HIDE DEF v
  <2>5. out \in Int /\ out >= 0 /\ k \in Int
    BY <2>3
  <2> HIDE DEF out
  <2>6. Is(h, g, "value", v, g.lim, k, out, k)
    BY <1>0, <2>3, <2>4, <2>5, EnteredWhole
  <2>7. From(g, h)
    BY <1>0, <2>3, <2>6 DEF Is, From
  <2>8. /\ h.len >= 0 /\ h.len <= h.n0 + 4 /\ "uneven" \in caveats
        /\ h.claim \in 0 .. h.n0 => h.len = h.claim
    BY <1>0, <2>3, <2>6 DEF Is, EIGRPOwed
  <2>9. Kept(h)
    BY <2>7, <2>8, OverKept DEF EIGRPOwed
  <2> QED BY <2>3, <2>5, <2>6, <2>7, <2>9 DEF Is, Valued
<1> QED BY <1>1, <1>2

(* EIGRPTLV, which looks no further.                                       *)
LEMMA EIGRPTLVRight ==
  ASSUME RoutingTable, NEW g, First(g), g.cls = "EIGRPTLV"
  PROVE  \A h \in EIGRPTLV(g) : Result(g, h)
<1> DEFINE caveats == {"struct.error", "uneven"}
<1>1. EIGRPOwed(g, caveats)
  <2>1. RoutingPromise("EIGRPTLV") = Over(0, 4, caveats) /\ "EIGRPTLV" \in RoutingClasses
    BY DEF RoutingPromise, RoutingClasses
  <2> QED BY <2>1, TableOver DEF EIGRPOwed
<1>2. ASSUME NEW h \in EIGRPValue(g) PROVE Result(g, Return(h))
  <2>1. From(g, h) /\ Kept(h)
    BY <1>1, EIGRPValueIs DEF Valued
  <2> QED BY <2>1, ReturnFrom
<1>3. \A h \in EIGRPNoValue(g) : Result(g, h)
  BY <1>1, EIGRPNoValueRight
<1> QED BY <1>2, <1>3 DEF EIGRPTLV

(* EIGRPExternalRouteTLV, with the byte that is read and was not asked     *)
(* for.                                                                    *)
LEMMA EIGRPExternalRouteTLVRight ==
  ASSUME RoutingTable, NEW g, First(g), g.cls = "EIGRPExternalRouteTLV"
  PROVE  \A h \in EIGRPExternalRouteTLV(g) : Result(g, h)
<1> DEFINE caveats == {"struct.error", "IndexError", "uneven"}
<1>1. EIGRPOwed(g, caveats)
  <2>1. RoutingPromise("EIGRPExternalRouteTLV") = Over(0, 4, caveats)
        /\ "EIGRPExternalRouteTLV" \in RoutingClasses
    BY DEF RoutingPromise, RoutingClasses
  <2> QED BY <2>1, TableOver DEF EIGRPOwed
<1>2. ASSUME NEW h \in EIGRPValue(g) PROVE Result(g, Return(h)) /\ Result(g, Raise(h, "IndexError"))
  <2>1. From(g, h) /\ Kept(h)
    BY <1>1, EIGRPValueIs DEF Valued
  <2>2. "IndexError" \in Caveats(g)
    BY <1>1, OwesIs DEF EIGRPOwed
  <2> QED BY <2>1, <2>2, ReturnFrom, RaisesKnown DEF Exceptions
<1>3. \A h \in EIGRPNoValue(g) : Result(g, h)
  BY <1>1, EIGRPNoValueRight
<1>4. ASSUME NEW h \in EIGRPExternalRouteTLV(g), h \notin EIGRPNoValue(g)
      PROVE  \E v \in EIGRPValue(g) : h \in {Return(v), Raise(v, "IndexError")}
  BY <1>4 DEF EIGRPExternalRouteTLV
<1> QED BY <1>2, <1>3, <1>4

(* EIGRPInternalRouteTLV: a prefix, then metrics.                          *)
LEMMA EIGRPInternalRouteTLVRight ==
  ASSUME RoutingTable, NEW g, Ready(g), g.cls = "EIGRPInternalRouteTLV"
  PROVE  \A h \in EIGRPInternalRouteTLV(g) : Result(g, h)
<1> DEFINE caveats == {"struct.error", "uneven"}
<1>0. From(g, g) /\ IsFrame(g) /\ g.n \in Nat /\ g.cls \in Values
  BY DEF Ready, From, IsFrame, Values
<1>1. First(g) \/ Valued(g)
  BY DEF Ready, Going, Restarted, Restart, BGPLoop, OSPFLoop, OtherLoop, PDUs, Values, Valued
<1>2. CASE First(g)
  <2>1. EIGRPOwed(g, caveats)
    <3>1. RoutingPromise("EIGRPInternalRouteTLV") = Over(0, 4, caveats)
          /\ "EIGRPInternalRouteTLV" \in RoutingClasses
      BY DEF RoutingPromise, RoutingClasses
    <3> QED BY <3>1, TableOver DEF EIGRPOwed
  <2>2. \A h \in EIGRPNoValue(g) : Result(g, h)
    BY <1>2, <2>1, EIGRPNoValueRight
  <2>3. ASSUME NEW v \in EIGRPValue(g)
        PROVE  /\ Result(g, Return(v))
               /\ \A p \in 0 .. (g.n - 19) : Result(g, [v EXCEPT !.n = Monus(@, 21 + p)])
    <3>1. From(g, v) /\ Valued(v)
      BY <1>2, <2>1, EIGRPValueIs
    <3>2. Result(g, Return(v))
      BY <1>0, <3>1, ValueGoesOn
    <3>3. ASSUME NEW p \in 0 .. (g.n - 19) PROVE Result(g, [v EXCEPT !.n = Monus(@, 21 + p)])
      <4> DEFINE t == 21 + p
      <4>1. t \in Nat
        OBVIOUS
      <4> HIDE DEF t
      <4>2. Result(g, [v EXCEPT !.n = Monus(@, t)])
        BY <1>0, <3>1, <4>1, ValueCut
      <4> QED BY <4>2 DEF t
    <3> QED BY <3>2, <3>3
  <2>4. ASSUME NEW h \in EIGRPInternalRouteTLV(g), h \notin EIGRPNoValue(g)
        PROVE  \E v \in EIGRPValue(g) :
                  h = Return(v) \/ \E p \in 0 .. (g.n - 19) : h = [v EXCEPT !.n = Monus(@, 21 + p)]
    BY <1>2, <2>4 DEF EIGRPInternalRouteTLV, First
  <2> QED BY <2>2, <2>3, <2>4
<1>3. CASE Valued(g)
  <2>1. Result(g, Return(g))
    BY <1>0, <1>3, ValueGoesOn
  <2>2. ASSUME NEW k \in 4 .. g.n PROVE Result(g, [g EXCEPT !.n = @ - k])
    <3>1. k \in Nat /\ k <= g.n
      BY <1>0, <2>2
    <3> QED BY <1>0, <1>3, <3>1, ValueCut
  <2>3. EIGRPInternalRouteTLV(g) = {Return(g)} \cup {[g EXCEPT !.n = @ - k] : k \in 4 .. g.n}
    BY <1>3 DEF EIGRPInternalRouteTLV, Valued
  <2> QED BY <2>1, <2>2, <2>3
<1> QED BY <1>1, <1>2, <1>3

(* A frame that returns with sizes of its own, and need not be aligned.    *)
LEMMA DriftReturns ==
  ASSUME NEW g, NEW least, NEW slack, NEW caveats, Owes(g, least, slack, caveats), "drifts" \in caveats,
         NEW x, From(g, x), NEW len \in Int, NEW out \in Int, len >= least, len <= x.n0 + slack,
         out = len \/ "uneven" \in caveats
  PROVE  Result(g, Return([x EXCEPT !.len = len, !.out = out]))
<1> DEFINE y == [x EXCEPT !.len = len, !.out = out]
<1>1. Is(y, x, x.at, x.n, x.lim, len, out, x.claim)
  BY Measured DEF From
<1> HIDE DEF y
<1>2. From(g, y) /\ y.len = len /\ y.out = out /\ y.n0 = x.n0
  BY <1>1 DEF Is, From, IsFrame
<1>3. Kept(y)
  BY <1>2, OverKept
<1>4. Result(g, Return(y))
  BY <1>2, <1>3, ReturnFrom
<1> QED BY <1>4 DEF y

(* VRRP.unpack: len() counts the addresses the count claims.               *)
LEMMA VRRPRight ==
  ASSUME RoutingTable, NEW g, First(g), g.cls = "VRRP"
  PROVE  \A h \in VRRP(g) : Result(g, h)
<1> DEFINE caveats == {"uneven", "drifts"}
<1>0. From(g, g) /\ IsFrame(g) /\ g.n \in Nat /\ g.n \in Int
  BY FirstIs
<1>1. Owes(g, 8, 16, caveats) /\ "uneven" \in caveats /\ "drifts" \in caveats
  <2>1. RoutingPromise("VRRP") = Over(8, 16, caveats) /\ "VRRP" \in RoutingClasses
    BY DEF RoutingPromise, RoutingClasses
  <2> QED BY <2>1, TableOver
<1>2. CASE g.n < 8
  BY <1>0, <1>2, RaisesShort DEF VRRP
<1>3. CASE ~(g.n < 8)
  <2> DEFINE y == Take(g, 8)
             A(k) == Monus(y.n, IF k = 0 THEN 4 ELSE 4 * k)
             L(k) == 8 + 4 * k + A(k)
             O(k) == 8 + Least(4 * k, y.n) + A(k)
  <2>1. Headed(g, y, 8)
    BY <1>0, <1>3, HeaderRead
  <2>2. VRRP(g) = {Declare(Return([y EXCEPT !.len = L(k), !.out = O(k)]), g.n) : k \in 0 .. 4}
    BY <1>3 DEF VRRP
  <2> HIDE DEF y
  <2>3. ASSUME NEW k \in 0 .. 4 PROVE Result(g, Declare(Return([y EXCEPT !.len = L(k), !.out = O(k)]), g.n))
    <3>1. y.n \in Nat /\ y.n0 = y.n + 8
      BY <2>1 DEF Headed
    <3> DEFINE len == L(k)
               out == O(k)
    <3>2. A(k) \in Nat /\ (4 * k + A(k) <= y.n \/ A(k) = 0)
      BY <3>1 DEF Monus
    <3>3. Least(4 * k, y.n) \in Int
      BY <3>1 DEF Least
    <3> HIDE DEF A
    <3>4. len \in Int /\ len >= 8 /\ len <= y.n0 + 16 /\ out \in Int
      BY <3>1, <3>2, <3>3
    <3> HIDE DEF len, out
    <3> DEFINE z == [y EXCEPT !.len = len, !.out = out]
               r == Return(z)
               h == Declare(r, g.n)
    <3>5. Is(z, y, y.at, y.n, y.lim, len, out, y.claim)
      BY <2>1, <3>4, Measured DEF Headed
    <3> HIDE DEF z
    <3>6. Is(r, z, "returned", z.n, z.lim, z.len, z.out, z.claim)
      BY <3>5, ReturnIs DEF Is
    <3> HIDE DEF r
    <3>7. Is(h, r, r.at, r.n, r.lim, r.len, r.out, g.n)
      BY <1>0, <3>6, DeclareIs DEF Is
    <3> HIDE DEF h
    <3>8. From(g, h) /\ h.at = "returned" /\ h.len = len /\ h.out = out /\ h.n0 = y.n0
      BY <2>1, <3>5, <3>6, <3>7 DEF Is, From, Headed
    <3>9. Kept(h)
      BY <1>1, <3>4, <3>8, OverKept
    <3>10. Result(g, h)
      BY <3>8, <3>9, Returns
    <3> QED BY <3>10 DEF h, r, z, len, out
  <2> QED BY <2>2, <2>3
<1> QED BY <1>2, <1>3

(* RIP.unpack: entries of 20 bytes, of which one may be an authentication. *)
LEMMA RIPRight ==
  ASSUME RoutingTable, NEW g, Ready(g), g.cls = "RIP"
  PROVE  \A h \in RIP(g) : Result(g, h)
<1> DEFINE caveats == {"drifts"}
           Routed(h) == h.at = "rtes" /\ h.out >= 0 /\ Within(h, 4)
<1>0. From(g, g) /\ IsFrame(g) /\ g.n \in Nat /\ g.n0 \in Nat /\ g.n <= g.n0
  BY DEF Ready, From, IsFrame
<1>1. Owes(g, 4, 0, caveats)
  <2>1. RoutingPromise("RIP") = Over(4, 0, caveats) /\ "RIP" \in RoutingClasses
    BY DEF RoutingPromise, RoutingClasses, Upto
  <2> QED BY <2>1, TableOver
<1>2. Caveats(g) = caveats /\ Promise(g.cls).slack = 0
  BY <1>1, OwesIs
<1>3. First(g) \/ Routed(g)
  BY DEF Ready, Going, Restarted, Restart, BGPLoop, OSPFLoop, OtherLoop, PDUs, Values
<1>4. ASSUME NEW h, From(g, h), h.at = "rtes", h.len >= 4, h.n > 0 => h.len + h.n <= h.n0, h.out = h.len,
             h.len <= h.n0
      PROVE  Result(g, h)
  <2>1. h.cls = "RIP" /\ Caveats(h) = caveats /\ Promise(h.cls).slack = 0 /\ h.n0 \in Nat
    BY <1>2, <1>4 DEF From, Caveats, IsFrame
  <2>2. Within(h, 4)
    BY <1>4, <2>1 DEF Within, Past
  <2> HIDE DEF caveats
  <2>3. h.len >= 0 /\ h.out >= 0
    BY <1>4 DEF From, IsFrame
  <2>4. Going(h)
    BY <1>4, <2>1, <2>2, <2>3 DEF Going, OtherLoop
  <2> QED BY <1>4, <2>4, GoesOn DEF Exceptions
<1>5. CASE First(g)
  <2>1. CASE g.n < 4
    BY <1>0, <1>5, <2>1, RaisesShort DEF RIP, First
  <2>2. CASE ~(g.n < 4)
    <3> DEFINE d == Declare(g, g.n)
               y == Take(d, 4)
               h == Loop(y, "rtes", 0)
    <3>1. RIP(g) = {h}
      BY <1>5, <2>2 DEF RIP, First
    <3>2. Is(d, g, g.at, g.n, g.lim, g.len, g.out, g.n)
      BY <1>0, DeclareIs DEF Is
    <3> HIDE DEF d
    <3>3. Is(y, d, d.at, d.n - 4, d.lim, d.len + 4, d.out + 4, d.claim)
      <4>1. IsFrame(d) /\ 4 <= d.n
        BY <1>0, <2>2, <3>2 DEF Is
      <4> QED BY <4>1, TakeHere
    <3> HIDE DEF y
    <3>4. Is(h, y, "rtes", y.n, 0, y.len, y.out, y.claim)
      BY <3>3, LoopIs DEF Is
    <3> HIDE DEF h
    <3>5. From(g, h) /\ h.at = "rtes" /\ h.len = 4 /\ h.out = 4 /\ h.n = g.n - 4 /\ h.n0 = g.n
      BY <1>0, <1>5, <2>2, <3>2, <3>3, <3>4 DEF Is, From, First
    <3>6. Result(g, h)
      BY <1>0, <1>4, <2>2, <3>5
    <3> QED BY <3>1, <3>6
  <2> QED BY <2>1, <2>2
<1>6. CASE Routed(g)
  <2>0. g.at = "rtes" /\ g.len \in Int /\ g.len >= 4 /\ (g.n > 0 => g.len + g.n <= g.n0) /\ g.out = g.len
    BY <1>0, <1>2, <1>6 DEF Within, Past, IsFrame
  <2>1. CASE g.n = 0
    <3>1. RIP(g) = {Return(g)}
      BY <2>0, <2>1 DEF RIP
    <3>2. Result(g, Return(g))
      BY <1>0, <1>1, <1>6, WithinReturns
    <3> QED BY <3>1, <3>2
  <2>2. CASE g.n > 0 /\ g.n < 20
    <3>1. RIP(g) = Short(g)
      BY <2>0, <2>2 DEF RIP
    <3> QED BY <1>0, <3>1, RaisesShort
  <2>3. CASE ~(g.n < 20)
    <3> DEFINE y == Take(g, 20)
               one == 1
               z == [y EXCEPT !.lim = one]
               n == g.n - 20
               w == [g EXCEPT !.n = n]
    <3>1. RIP(g) \subseteq {y, z, w}
      <4>1. [g EXCEPT !.n = @ - 20] = w
        BY <1>0 DEF IsFrame
      <4>2. RIP(g) = {y, IF g.lim = 0 THEN z ELSE [g EXCEPT !.n = @ - 20]}
        BY <1>0, <2>0, <2>3 DEF RIP
      <4> QED BY <4>1, <4>2
    <3>2. Is(y, g, g.at, g.n - 20, g.lim, g.len + 20, g.out + 20, g.claim)
      BY <1>0, <2>3, TakeHere
    <3> HIDE DEF y
    <3>3. one \in Int /\ n \in Nat
      BY <1>0, <2>3
    <3>4. Is(z, y, y.at, y.n, one, y.len, y.out, y.claim)
      <4> HIDE DEF one
      <4> QED BY <3>2, <3>3, Limited DEF Is
    <3>5. Is(w, g, g.at, n, g.lim, g.len, g.out, g.claim)
      <4> HIDE DEF n
      <4> QED BY <1>0, <3>3, Moved
    <3> HIDE DEF z, w
    <3>6. Result(g, y)
      <4>1. /\ From(g, y) /\ y.at = "rtes" /\ y.len >= 4 /\ y.len + y.n <= y.n0 /\ y.out = y.len
            /\ y.len <= y.n0
        BY <1>0, <2>0, <2>3, <3>2 DEF Is, From
      <4> QED BY <1>4, <4>1
    <3>7. Result(g, z)
      <4>1. /\ From(g, z) /\ z.at = "rtes" /\ z.len >= 4 /\ z.len + z.n <= z.n0 /\ z.out = z.len
            /\ z.len <= z.n0
        BY <1>0, <2>0, <2>3, <3>2, <3>4 DEF Is, From
      <4> QED BY <1>4, <4>1
    <3>8. Result(g, w)
      <4>1. /\ From(g, w) /\ w.at = "rtes" /\ w.len >= 4 /\ w.len + w.n <= w.n0 /\ w.out = w.len
            /\ w.len <= w.n0
        BY <1>0, <2>0, <2>3, <3>3, <3>5 DEF Is, From
      <4> QED BY <1>4, <4>1
    <3> QED BY <3>1, <3>6, <3>7, <3>8
  <2> QED BY <1>0, <2>1, <2>2, <2>3
<1> QED BY <1>3, <1>5, <1>6

(* TableDump.unpack: attributes that len() and bytes() leave out.          *)
LEMMA MRTTableDumpRight ==
  ASSUME RoutingTable, NEW g, Ready(g), g.cls = "MRTTableDump"
  PROVE  \A h \in MRTTableDump(g) : Result(g, h)
<1> DEFINE caveats == {"AttributeError", "IndexError", "drifts"}
           Dumped(h) == h.at = "attributes" /\ h.claim = h.n0 /\ h.n + 22 <= h.n0
<1>0. From(g, g) /\ IsFrame(g) /\ g.n \in Nat /\ g.n0 \in Nat /\ g.n <= g.n0
  BY DEF Ready, From, IsFrame
<1>1. Owes(g, 22, 0, caveats) /\ "drifts" \in caveats
  <2>1. RoutingPromise("MRTTableDump") = Over(22, 0, caveats) /\ "MRTTableDump" \in RoutingClasses
    BY DEF RoutingPromise, RoutingClasses, Upto
  <2> QED BY <2>1, TableOver
<1>2. Caveats(g) = caveats
  BY <1>1, OwesIs
<1>3. First(g) \/ Dumped(g)
  BY DEF Ready, Going, Restarted, Restart, BGPLoop, OSPFLoop, OtherLoop, PDUs, Values
<1>4. ASSUME NEW h, From(g, h), Dumped(h), h.len >= 0, h.out >= 0 PROVE Result(g, h)
  <2>1. h.cls = "MRTTableDump"
    BY <1>4 DEF From
  <2>2. Going(h)
    BY <1>4, <2>1 DEF Going, OtherLoop
  <2> QED BY <1>4, <2>2, GoesOn DEF Exceptions
<1>5. CASE First(g)
  <2>1. CASE g.n < 22
    BY <1>0, <1>5, <2>1, RaisesShort DEF MRTTableDump, First
  <2>2. CASE ~(g.n < 22)
    <3> DEFINE d == Declare(g, g.n)
               y == Take(d, 22)
               h(l) == Loop(y, "attributes", l)
    <3>1. MRTTableDump(g) = {h(l) : l \in 0 .. (y.n + 2)}
      BY <1>5, <2>2 DEF MRTTableDump, First, Loops, Claims
    <3>2. Is(d, g, g.at, g.n, g.lim, g.len, g.out, g.n)
      BY <1>0, DeclareIs DEF Is
    <3> HIDE DEF d
    <3>3. Is(y, d, d.at, d.n - 22, d.lim, d.len + 22, d.out + 22, d.claim)
      <4>1. IsFrame(d) /\ 22 <= d.n
        BY <1>0, <2>2, <3>2 DEF Is
      <4> QED BY <4>1, TakeHere
    <3> HIDE DEF y
    <3>4. ASSUME NEW l \in 0 .. (y.n + 2) PROVE Result(g, h(l))
      <4>1. Is(h(l), y, "attributes", y.n, l, y.len, y.out, y.claim)
        <5>1. IsFrame(y) /\ l \in Int
          BY <3>3 DEF Is
        <5> QED BY <5>1, LoopIs
      <4> HIDE DEF h
      <4>2. From(g, h(l)) /\ Dumped(h(l)) /\ h(l).len = 22 /\ h(l).out = 22
        BY <1>0, <1>5, <2>2, <3>2, <3>3, <4>1 DEF Is, From, First
      <4> HIDE DEF Dumped
      <4>3. h(l).len >= 0 /\ h(l).out >= 0
        BY <4>2
      <4> QED BY <1>4, <4>2, <4>3
    <3> QED BY <3>1, <3>4
  <2> QED BY <2>1, <2>2
<1>6. CASE Dumped(g)
  <2> DEFINE dump == 22
             all == 22 + g.n
             x == [g EXCEPT !.len = dump, !.out = dump]
  <2>0. g.at = "attributes" /\ g.claim = g.n0 /\ all <= g.n0 /\ all >= 22
    BY <1>0, <1>6
  <2>1. \/ MRTTableDump(g) = Element(x, "BGPAttribute")
        \/ MRTTableDump(g) = {Return([g EXCEPT !.len = all, !.out = all])}
    BY <2>0 DEF MRTTableDump, WhileLeft
  <2>2. dump \in Int /\ all \in Int
    BY <1>0
  <2>3. Result(g, Return([g EXCEPT !.len = all, !.out = all]))
    <3> HIDE DEF all
    <3>1. all >= 22 /\ all <= g.n0 + 0
      BY <1>0, <2>0, <2>2
    <3> QED BY <1>0, <1>1, <2>2, <3>1, DriftReturns
  <2>4. Is(x, g, g.at, g.n, g.lim, dump, dump, g.claim)
    <3> HIDE DEF dump
    <3> QED BY <1>0, <2>2, Measured
  <2> HIDE DEF x
  <2>5. From(g, x) /\ x.n0 = g.n0 /\ x.n = g.n /\ x.at = "attributes" /\ x.claim = g.n0 /\ x.len = 22 /\ x.out = 22
    BY <1>0, <2>0, <2>4 DEF Is, From
  <2>6. Relied("BGPAttribute", 3, 2, BGPCaveats)
    BY BGPRelied
  <2>7. ASSUME NEW e \in Errors("BGPAttribute") PROVE Result(g, Raise(x, e))
    <3>1. e = "UnpackError" \/ (e \in Exceptions /\ e \in BGPCaveats)
      BY <2>6, <2>7, ErrorsAre
    <3>2. Declared(g, e)
      BY <1>2, <3>1 DEF Declared, BGPCaveats, Exceptions
    <3> QED BY <2>5, <3>2, Raises
  <2>8. ASSUME NEW r \in Gives("BGPAttribute", x.n) PROVE Result(g, [Hold(x, r) EXCEPT !.lim = @ - r[1]])
    <3>1. x.n \in Nat /\ IsFrame(x)
      BY <1>0, <2>5 DEF From
    <3>2. r \in Nat \X Nat
      <4>1. 3 \in Nat /\ 2 \in Nat
        OBVIOUS
      <4> QED BY <2>6, <2>8, <3>1, <4>1, GivesIs
    <3> DEFINE y == Hold(x, r)
               lim == y.lim - r[1]
               h == [y EXCEPT !.lim = lim]
    <3>3. Is(y, x, x.at, Monus(x.n, r[1]), x.lim, x.len + r[1], x.out + r[2], x.claim)
      BY <3>1, <3>2, HoldIs
    <3>4. [Hold(x, r) EXCEPT !.lim = @ - r[1]] = h
      <4>1. IsFrame(Hold(x, r))
        BY <3>3 DEF Is
      <4> QED BY <4>1 DEF IsFrame
    <3> HIDE DEF y
    <3>5. lim \in Int
      BY <3>2, <3>3 DEF Is, IsFrame
    <3>6. Is(h, y, y.at, y.n, lim, y.len, y.out, y.claim)
      <4> HIDE DEF lim
      <4> QED BY <3>3, <3>5, Limited DEF Is
    <3> HIDE DEF h, lim
    <3>7. Monus(x.n, r[1]) \in Nat /\ Monus(x.n, r[1]) <= x.n
      BY <3>1, <3>2 DEF Monus
    <3>8. /\ From(g, h) /\ h.at = "attributes" /\ h.claim = h.n0 /\ h.n + 22 <= h.n0
          /\ h.len >= 0 /\ h.out >= 0
      BY <1>0, <1>6, <2>5, <3>2, <3>3, <3>6, <3>7 DEF Is, From
    <3>9. Result(g, h)
      BY <1>4, <3>8
    <3> QED BY <3>4, <3>9
  <2>9. \A h \in Element(x, "BGPAttribute") : Result(g, h)
    BY <2>7, <2>8 DEF Element
  <2> QED BY <2>1, <2>3, <2>9
<1> QED BY <1>3, <1>5, <1>6
-----------------------------------------------------------------------------
(* Every class of the family keeps its own invariant, step by step.        *)
OwnOnce == {"BGP", "BGPAttribute", "RouteEVPN", "ISIS", "EIGRP", "EIGRPTLV", "EIGRPExternalRouteTLV", "VRRP"}
(* Classes walked in one step.                                             *)
LEMMA OwnOnceRight ==
  ASSUME RoutingTable, NEW g, Ready(g), g.cls \in OwnOnce
  PROVE  \A h \in RoutingStep(g) : Result(g, h)
<1>1. First(g)
  BY NoLoop DEF OwnOnce, Loopers, PDUs, Values, Restart
<1>2. CASE g.cls = "BGP"
  BY <1>1, <1>2, BGPRight DEF RoutingStep
<1>3. CASE g.cls = "BGPAttribute"
  BY <1>1, <1>3, BGPAttributeRight DEF RoutingStep
<1>4. CASE g.cls = "RouteEVPN"
  BY <1>1, <1>4, RouteEVPNRight DEF RoutingStep
<1>5. CASE g.cls = "ISIS"
  BY <1>1, <1>5, ISISRight DEF RoutingStep
<1>6. CASE g.cls = "EIGRP"
  BY <1>1, <1>6, EIGRPRight DEF RoutingStep
<1>7. CASE g.cls = "EIGRPTLV"
  BY <1>1, <1>7, EIGRPTLVRight DEF RoutingStep
<1>8. CASE g.cls = "EIGRPExternalRouteTLV"
  BY <1>1, <1>8, EIGRPExternalRouteTLVRight DEF RoutingStep
<1>9. CASE g.cls = "VRRP"
  BY <1>1, <1>9, VRRPRight DEF RoutingStep
<1> QED BY <1>2, <1>3, <1>4, <1>5, <1>6, <1>7, <1>8, <1>9 DEF OwnOnce

OwnLoop == {"BGPOpen", "BGPUpdate", "BGPASPath", "BGPCommunities", "BGPClusterList", "BGPMPReachNLRI",
            "BGPMPUnreachNLRI", "LSAIntraAreaPrefix", "EIGRPMessage", "EIGRPInternalRouteTLV", "RIP",
            "MRTTableDump", "TopologyBuild"}
(* Classes with a loop of their own.                                       *)
LEMMA OwnLoopRight ==
  ASSUME RoutingTable, NEW g, Ready(g), g.cls \in OwnLoop
  PROVE  \A h \in RoutingStep(g) : Result(g, h)
<1>1. CASE g.cls = "BGPOpen"
  BY <1>1, BGPOpenRight DEF RoutingStep
<1>2. CASE g.cls = "BGPUpdate"
  BY <1>2, BGPUpdateRight DEF RoutingStep
<1>3. CASE g.cls = "BGPASPath"
  BY <1>3, BGPASPathRight DEF RoutingStep
<1>4. CASE g.cls \in {"BGPCommunities", "BGPClusterList"}
  BY <1>4, FourByteValuesRight DEF RoutingStep, BGPCommunities, BGPClusterList
<1>5. CASE g.cls = "BGPMPReachNLRI"
  BY <1>5, BGPMPReachRight DEF RoutingStep
<1>6. CASE g.cls = "BGPMPUnreachNLRI"
  BY <1>6, BGPMPUnreachRight DEF RoutingStep
<1>7. CASE g.cls = "LSAIntraAreaPrefix"
  BY <1>7, LSAIntraAreaPrefixRight DEF RoutingStep
<1>8. CASE g.cls = "EIGRPMessage"
  BY <1>8, EIGRPMessageRight DEF RoutingStep
<1>9. CASE g.cls = "EIGRPInternalRouteTLV"
  BY <1>9, EIGRPInternalRouteTLVRight DEF RoutingStep
<1>10. CASE g.cls = "RIP"
  BY <1>10, RIPRight DEF RoutingStep
<1>11. CASE g.cls = "MRTTableDump"
  BY <1>11, MRTTableDumpRight DEF RoutingStep
<1>12. CASE g.cls = "TopologyBuild"
  BY <1>12, TopologyBuildRight DEF RoutingStep
<1> QED BY <1>1, <1>2, <1>3, <1>4, <1>5, <1>6, <1>7, <1>8, <1>9, <1>10, <1>11, <1>12 DEF OwnLoop

BGPOnce  == {"BGPParameter", "BGPCapability", "BGPSNPA", "RouteGeneric", "BGPAtomicAggregate", "BGPKeepalive",
             "BGPASPathSegment", "BGPASPathSegment4", "RouteIPV4", "RouteIPV6", "ExtendedRouteIPV4"}
OSPFOnce == {"OSPFv2Hello", "OSPFv3Hello", "OSPFv2LSR", "OSPFv3LSR", "OSPFv2LSAck", "OSPFv3LSAck", "LSANetwork",
             "OSPF", "OSPFv2", "OSPFv3", "LSARouter", "LSAInterAreaPrefix", "LSALink", "LSAASExternalV3",
             "LSASummaryIP", "LSAASExternal", "LSAInterAreaRouter", "LSARouterV3", "LSANetworkV3"}
(* Classes that share their steps.                                         *)
LEMMA SharedRight ==
  ASSUME RoutingTable, NEW g, Ready(g), g.cls \in BGPOnce \cup OSPFOnce
  PROVE  \A h \in RoutingStep(g) : Result(g, h)
<1>1. First(g)
  BY NoLoop DEF BGPOnce, OSPFOnce, Loopers, PDUs, Values, Restart
<1>2. CASE g.cls \in BGPOnce
  BY <1>1, <1>2, BGPTlvsRight, BGPEmptyRight, BGPSegmentRight, BGPRoutesRight DEF BGPOnce
<1>3. CASE g.cls \in OSPFOnce
  BY <1>1, <1>3, OSPFListsRight, OSPFRight, LSAPlainRight, LSAFixedRight, LSAUnevenRight DEF OSPFOnce
<1> QED BY <1>2, <1>3

(* All of them.                                                            *)
LEMMA RoutingStepRight ==
  ASSUME RoutingTable, NEW g, Ready(g), g.cls \in RoutingClasses
  PROVE  \A h \in RoutingStep(g) : Result(g, h)
<1> DEFINE ISISValues == {"ISISTLV", "ISISNeighborsTLV", "ISISEISReachTLV", "ISISIPIntReachTLV"}
           Updates    == {"OSPFv2LSU", "OSPFv3LSU"}
<1>1. \/ g.cls \in Plains
      \/ g.cls \in OwnOnce
      \/ g.cls \in OwnLoop
      \/ g.cls \in BGPOnce \cup OSPFOnce
      \/ g.cls \in PDUs
      \/ g.cls \in ISISValues
      \/ g.cls \in Updates
  BY DEF RoutingClasses, Plains, Plain1, Plain4, Plain8, Plain20, OwnOnce, OwnLoop, BGPOnce, OSPFOnce, PDUs
<1> QED BY <1>1, PlainClasses, OwnOnceRight, OwnLoopRight, SharedRight, PDURight, ISISValueRight, OSPFUpdateRight
-----------------------------------------------------------------------------
(* The invariant of the walk.                                              *)
LEMMA StartRight ==
  ASSUME NEW c, NEW m \in Nat
  PROVE  Shaped(Start(c, m)) /\ Start(c, m).cls = c /\ Right(Start(c, m))
<1> DEFINE s == Start(c, m)
<1>1. Shaped(s) /\ s.cls = c
  BY DEF Start, Shaped
<1>2. First(s) /\ s.n <= s.n0
  BY DEF Start, First, IsFrame
<1>3. Going(s) /\ IsFrame(s) /\ s.at = "start"
  BY <1>2 DEF Going, First
<1>4. Right(s)
  BY <1>2, <1>3 DEF Right, Finished, Exceptions
<1> QED BY <1>1, <1>4

(* A frame marked endless.                                                 *)
LEMMA EndlessIs ==
  ASSUME NEW g, Shaped(g)
  PROVE  /\ Shaped(Endless(g)) /\ Endless(g).cls = g.cls
         /\ IsFrame(g) => Is(Endless(g), g, "endless", g.n, g.lim, g.len, g.out, g.claim)
         /\ g.at = "endless" => Endless(g) = g
<1>1. Shaped(Endless(g)) /\ Endless(g).cls = g.cls
  BY DEF Shaped, Endless
<1>2. IsFrame(g) => Is(Endless(g), g, "endless", g.n, g.lim, g.len, g.out, g.claim)
  BY Placed DEF Endless
<1>3. g.at = "endless" => Endless(g) = g
  BY DEF Shaped, Endless
<1> QED BY <1>1, <1>2, <1>3

(* A step of a routing class.                                              *)
LEMMA StepKeepsRight ==
  ASSUME RoutingWalked, NEW g, Right(g), g.cls \in RoutingClasses, ~Finished(g), g # Endless(g),
         NEW h \in Walks(g), NEW r, r = IF h = g THEN Endless(g) ELSE h
  PROVE  Shaped(r) /\ r.cls = g.cls /\ Right(r)
<1>1. IsFrame(g) /\ g.n <= g.n0 /\ Shaped(g)
  BY DEF Right, IsFrame, Shaped
<1>2. g.at # "endless"
  BY <1>1, EndlessIs
<1>3. Ready(g)
  BY <1>1, <1>2 DEF Right, Ready
<1>4. Result(g, h)
  BY <1>3, RoutingStepRight DEF RoutingWalked
<1>5. CASE h = g
  <2>1. Is(r, g, "endless", g.n, g.lim, g.len, g.out, g.claim)
    BY <1>1, <1>5, EndlessIs
  <2>2. IsFrame(r) /\ r.n <= r.n0 /\ r.at = "endless" /\ r.len >= 0 /\ r.out >= 0 /\ r.cls = g.cls
    BY <1>1, <1>3, <2>1 DEF Is, Ready, Going
  <2>3. Right(r)
    BY <2>2 DEF Right, Finished, Exceptions
  <2> QED BY <2>2, <2>3 DEF IsFrame, Shaped
<1>6. CASE h # g
  <2>1. r = h
    BY <1>6
  <2>2. From(g, r) /\ IF Finished(r) THEN Ended(r) ELSE r.at # "endless" /\ Going(r)
    BY <1>4, <2>1 DEF Result
  <2>3. IsFrame(r) /\ r.n <= r.n0 /\ r.cls = g.cls
    BY <2>2 DEF From
  <2>4. Finished(r) => r.at # "endless"
    BY DEF Finished, Exceptions
  <2>5. Right(r)
    BY <2>2, <2>3, <2>4 DEF Right
  <2> QED BY <2>3, <2>5 DEF IsFrame, Shaped
<1> QED BY <1>5, <1>6

(* Whatever the frame's class, its class stays; and a routing class keeps  *)
(* its invariant.                                                          *)
LEMMA WalkInvariant ==
  ASSUME RoutingWalked
  PROVE  Spec => []WalkInv
<1>1. Init => WalkInv
  <2> SUFFICES ASSUME Init PROVE WalkInv
    OBVIOUS
  <2>1. PICK c \in DOMAIN Sizes : \E m \in Sizes[c] : f = Start(c, m)
    BY DEF Init
  <2>2. PICK m \in Sizes[c] : f = Start(c, m)
    BY <2>1
  <2>3. Shaped(f) /\ f.cls = c
    BY <2>2 DEF Start, Shaped
  <2>4. ASSUME c \in RoutingClasses PROVE Right(f)
    <3>1. m \in Nat
      BY <2>4 DEF RoutingWalked
    <3> QED BY <2>2, <3>1, StartRight
  <2> QED BY <2>3, <2>4 DEF WalkInv
<1>2. WalkInv /\ [Next]_f => WalkInv'
  <2> SUFFICES ASSUME WalkInv, [Next]_f PROVE WalkInv'
    OBVIOUS
  <2>1. CASE f' = f
    BY <2>1 DEF WalkInv, Shaped, Right, IsFrame, Going, First, Restarted, BGPLoop, OSPFLoop, OtherLoop, Ended, Finished,
                Kept, Declared, Past, Within, Caveats
  <2>2. CASE Next
    <3>1. PICK h \in Walks(f) : f' = IF h = f THEN Endless(f) ELSE h
      BY <2>2 DEF Next
    <3>2. ~Finished(f) /\ f # Endless(f)
      BY <2>2 DEF Next
    <3>3. CASE f.cls \in RoutingClasses
      <4>1. Shaped(f') /\ f'.cls = f.cls /\ Right(f')
        BY <3>1, <3>2, <3>3, StepKeepsRight DEF WalkInv
      <4> QED BY <4>1 DEF WalkInv
    <3>4. CASE f.cls \notin RoutingClasses
      <4>1. Shaped(h) /\ h.cls = f.cls
        BY <3>4 DEF WalkInv, RoutingWalked
      <4>2. Shaped(f') /\ f'.cls = f.cls
        BY <3>1, <4>1, EndlessIs DEF WalkInv
      <4> QED BY <3>4, <4>2 DEF WalkInv
    <3> QED BY <3>3, <3>4
  <2> QED BY <2>1, <2>2
<1> QED BY <1>1, <1>2, PTL DEF Spec

(* What the invariant says of the frame in each of its states.             *)
LEMMA WalkInvGives ==
  ASSUME WalkInv, f.cls \in RoutingClasses
  PROVE  TypeOK /\ OnlyDeclared /\ KeepsPromise /\ BytesMatchLen /\ Aligned
<1>1. IsFrame(f) /\ f.n <= f.n0 /\ Right(f)
  BY DEF WalkInv, Right
<1>2. ~Finished(f) => f.len >= 0 /\ f.out >= 0
  BY <1>1 DEF Right, Going
<1>3. f.n \in 0 .. f.n0
  BY <1>1 DEF IsFrame
<1>4. Finished(f) => Ended(f)
  <2>1. Finished(f) => f.at # "endless"
    BY DEF Finished, Exceptions
  <2> QED BY <1>1, <2>1 DEF Right
<1>5. f.at = "returned" => Kept(f)
  BY <1>4 DEF Ended, Finished
<1>6. f.at \in Exceptions => f.at \in Caveats(f)
  BY <1>4 DEF Ended, Finished, Declared, Exceptions
<1>7. TypeOK
  BY <1>2, <1>3 DEF TypeOK
<1>8. OnlyDeclared
  BY <1>6 DEF OnlyDeclared, Has, Caveats
<1>9. KeepsPromise /\ BytesMatchLen /\ Aligned
  BY <1>5 DEF Kept, KeepsPromise, BytesMatchLen, Aligned, Returned, Has, Caveats
<1> QED BY <1>7, <1>8, <1>9

(* unpack() never holds more bytes than it was given, and an object that   *)
(* is still being built has sizes: whatever the length fields of a BGP,    *)
(* OSPF, IS-IS, EIGRP, RIP, MRT, PIM, HSRP or VRRP buffer say, and however *)
(* long it is.                                                             *)
THEOREM RoutingStaysInside ==
  ASSUME RoutingWalked
  PROVE  Spec => [](f.cls \in RoutingClasses => TypeOK)
<1>1. WalkInv => (f.cls \in RoutingClasses => TypeOK)
  BY WalkInvGives
<1> QED BY <1>1, WalkInvariant, PTL

(* Beside dpkt.UnpackError no exception leaves the parser of a routing     *)
(* message but those its class is known for, raised in it or passed on     *)
(* from the classes it hands its data to.                                  *)
THEOREM RoutingRaisesOnlyDeclared ==
  ASSUME RoutingWalked
  PROVE  Spec => [](f.cls \in RoutingClasses => OnlyDeclared)
<1>1. WalkInv => (f.cls \in RoutingClasses => OnlyDeclared)
  BY WalkInvGives
<1> QED BY <1>1, WalkInvariant, PTL

(* The len() of a routing message is what those that advance by it rely    *)
(* on: with a child of every class within its promise, the parent is       *)
(* within its own.                                                         *)
THEOREM RoutingKeepsPromises ==
  ASSUME RoutingWalked
  PROVE  Spec => [](f.cls \in RoutingClasses => KeepsPromise)
<1>1. WalkInv => (f.cls \in RoutingClasses => KeepsPromise)
  BY WalkInvGives
<1> QED BY <1>1, WalkInvariant, PTL

(* bytes() of a routing message is as long as its len(), but for the       *)
(* classes that are known to differ.                                       *)
THEOREM RoutingBytesMatchLen ==
  ASSUME RoutingWalked
  PROVE  Spec => [](f.cls \in RoutingClasses => BytesMatchLen)
<1>1. WalkInv => (f.cls \in RoutingClasses => BytesMatchLen)
  BY WalkInvGives
<1> QED BY <1>1, WalkInvariant, PTL

(* An element of a routing message whose declared size is there reports    *)
(* that size, so its neighbour is read from where it starts, but for the   *)
(* classes that are known to drift.                                        *)
THEOREM RoutingAligned ==
  ASSUME RoutingWalked
  PROVE  Spec => [](f.cls \in RoutingClasses => Aligned)
<1>1. WalkInv => (f.cls \in RoutingClasses => Aligned)
  BY WalkInvGives
<1> QED BY <1>1, WalkInvariant, PTL
=============================================================================
