-------------------------- MODULE CaptureFileProofs --------------------------
(***************************************************************************)
(* Proofs about CaptureFile, for every set of packet lengths and times,    *)
(* every resolution and any number of packets.                             *)
(***************************************************************************)
EXTENDS CaptureFile, NaturalLemmas, SequenceTheorems

-----------------------------------------------------------------------------
(* Times.                                                                  *)
LEMMA DivMod ==
  ASSUME NEW n \in Nat, NEW d \in Nat \ {0}
  PROVE  /\ n \div d \in Nat /\ n % d \in Nat /\ n % d < d
         /\ n = d * (n \div d) + (n % d)
  OBVIOUS

(* Rounding is off by half a unit at most.                                 *)
LEMMA RoundNear ==
  ASSUME NEW ticks \in Nat
  PROVE  /\ Round(ticks) \in Nat
         /\ 2 * Distance(Round(ticks) * TicksPerUnit, ticks) <= TicksPerUnit
<1> DEFINE d == TicksPerUnit
           q == ticks \div d
           r == ticks % d
<1>1. d \in Nat \ {0}
  BY FileAssumption
<1>2. /\ q \in Nat /\ r \in Nat /\ r < d
      /\ ticks = d * q + r
  BY <1>1, DivMod
<1>3. Round(ticks) = IF 2 * r < d \/ (2 * r = d /\ q % 2 = 0) THEN q ELSE q + 1
  BY DEF Round
<1> HIDE DEF d, q, r
<1>4. q * d = d * q /\ (q + 1) * d = d * q + d /\ d * q \in Nat
  BY <1>1, <1>2
<1>5. CASE Round(ticks) = q /\ 2 * r <= d
  <2> DEFINE m == d * q
  <2>1. m \in Nat /\ Round(ticks) * d = m /\ ticks = m + r
    BY <1>2, <1>4, <1>5
  <2> HIDE DEF m
  <2>2. 2 * Distance(m, m + r) <= d
    BY <1>1, <1>2, <1>5, <2>1 DEF Distance
  <2> QED BY <1>2, <1>5, <2>1, <2>2 DEF d
<1>6. CASE Round(ticks) = q + 1 /\ 2 * r >= d
  <2> DEFINE m == d * q
  <2>1. m \in Nat /\ Round(ticks) * d = m + d /\ ticks = m + r
    BY <1>2, <1>4, <1>6
  <2> HIDE DEF m
  <2>2. 2 * Distance(m + d, m + r) <= d
    BY <1>1, <1>2, <1>6, <2>1 DEF Distance
  <2> QED BY <1>2, <1>6, <2>1, <2>2 DEF d
<1> QED BY <1>1, <1>2, <1>3, <1>5, <1>6

(* What a writer puts into a record for ts.                                *)
Near(fields, ts) ==
  2 * Distance(TimeOf(fields) * TicksPerUnit, ts) <= TicksPerUnit

LEMMA FieldsNear ==
  ASSUME NEW ts \in Nat
  PROVE  TimeFields(ts) \in Nat \X Nat /\ Near(TimeFields(ts), ts)
<1>1. CASE format = "pcapng"
  <2> DEFINE u == Round(ts)
  <2>1. u \in Nat /\ 2 * Distance(u * TicksPerUnit, ts) <= TicksPerUnit
    BY RoundNear
  <2>2. TimeFields(ts) = <<u \div Word, u % Word>>
    BY <1>1 DEF TimeFields, HighAndLow
  <2> HIDE DEF u
  <2>3. /\ u \div Word \in Nat /\ u % Word \in Nat
        /\ u = Word * (u \div Word) + (u % Word)
    BY <2>1, FileAssumption, DivMod
  <2> DEFINE hi == u \div Word
             lo == u % Word
  <2>4. TimeFields(ts) = <<hi, lo>> /\ hi \in Nat /\ lo \in Nat /\ u = Word * hi + lo
    BY <2>2, <2>3
  <2> HIDE DEF hi, lo
  <2>5. hi * Word = Word * hi
    BY <2>4, FileAssumption
  <2>6. TimeOf(<<hi, lo>>) = u
    BY <1>1, <2>4, <2>5 DEF TimeOf
  <2> QED BY <2>1, <2>4, <2>6 DEF Near
<1>2. CASE format # "pcapng"
  <2> DEFINE sec  == ts \div TicksPerSec
             rest == ts % TicksPerSec
             f    == Round(rest)
             t    == TicksPerUnit
             u    == UnitsPerSec
  <2>1. t \in Nat \ {0} /\ u \in Nat \ {0}
    BY FileAssumption
  <2>2. TicksPerSec = t * u /\ t * u \in Nat \ {0}
    BY <2>1 DEF TicksPerSec
  <2>3. sec \in Nat /\ rest \in Nat /\ ts = TicksPerSec * sec + rest
    BY <2>2, DivMod
  <2> HIDE DEF sec, rest
  <2>4. f \in Nat /\ 2 * Distance(f * t, rest) <= t
    BY <2>3, RoundNear
  <2>5. TimeFields(ts) = <<sec, f>>
    BY <1>2 DEF TimeFields, SecondsAndFraction, sec, rest
  <2> HIDE DEF f, t, u
  <2>6. TimeOf(<<sec, f>>) = sec * u + f
    BY <1>2 DEF TimeOf, u
  <2>7. (sec * u + f) * t = (t * u) * sec + f * t
    BY <2>1, <2>3, <2>4
  <2> DEFINE m == (t * u) * sec
             k == f * t
  <2>8. m \in Nat /\ k \in Nat
    BY <2>1, <2>2, <2>3, <2>4
  <2>9. (sec * u + f) * t = m + k /\ ts = m + rest
    BY <2>2, <2>3, <2>7
  <2>10. 2 * Distance(k, rest) <= t
    BY <2>4
  <2> HIDE DEF m, k
  <2>11. Distance(m + k, m + rest) = Distance(k, rest)
    BY <2>3, <2>8 DEF Distance
  <2>12. 2 * Distance(TimeOf(<<sec, f>>) * t, ts) <= t
    BY <2>6, <2>9, <2>10, <2>11
  <2> QED BY <2>3, <2>4, <2>5, <2>12 DEF Near, t
<1> QED BY <1>1, <1>2
-----------------------------------------------------------------------------
(* The file: headers, then packets, one after the other.                   *)
Items == [kind : {"file", "shb", "idb", "packet"}, start : Nat, len : Nat \ {0},
          caplen : Nat, ts : Nat, time : Nat \X Nat]

(* Items that follow each other: the first h of them are headers.          *)
Chained(its, h) ==
  /\ its \in Seq(Items)
  /\ h \in 1 .. Len(its)
  /\ \A i \in 1 .. Len(its) : its[i].kind = "packet" <=> i > h
  /\ its[1].start = 0
  /\ \A i \in 1 .. Len(its) - 1 : its[i + 1].start = End(its, i)

FileSound(h) ==
  /\ format \in Formats
  /\ Chained(items, h)
  /\ h \in (IF format = "pcapng" THEN {2, 3} ELSE {1})
  /\ format = "pcap" => items[1].len = 24
  /\ format = "snoop" => items[1].len = 16
  /\ \A i \in h + 1 .. Len(items) : items[i].len = RecordLen(items[i].caplen)
  /\ \A i \in h + 1 .. Len(items) : Near(items[i].time, items[i].ts)
  /\ writing \in BOOLEAN
  /\ size \in 0 .. End(items, Len(items))
  /\ writing => size = End(items, Len(items))
  /\ Len(items) > h => End(items, Len(items) - 1) <= size

LEMMA EndOf ==
  ASSUME NEW its \in Seq(Items), NEW i \in 1 .. Len(its)
  PROVE  /\ its[i] \in Items
         /\ its[i].start \in Nat /\ its[i].len \in Nat \ {0} /\ its[i].caplen \in Nat
         /\ End(its, i) \in Nat /\ its[i].start < End(its, i)
<1>1. its[i] \in Items
  BY ElementOfSeq
<1>2. its[i].start \in Nat /\ its[i].len \in Nat \ {0} /\ its[i].caplen \in Nat
  BY <1>1 DEF Items
<1> QED BY <1>1, <1>2 DEF End

(* Later items start where or after earlier ones end.                      *)
LEMMA ChainGrows ==
  ASSUME NEW its, NEW h, Chained(its, h),
         NEW i \in 1 .. Len(its), NEW j \in 1 .. Len(its), i < j
  PROVE  End(its, i) <= its[j].start
<1> DEFINE n == Len(its)
           Bad == {k \in i + 1 .. n : ~ (End(its, i) <= its[k].start)}
<1>1. its \in Seq(Items) /\ n \in Nat /\ End(its, i) \in Nat
  BY EndOf, LenProperties DEF Chained
<1>2. ASSUME Bad # {} PROVE FALSE
  <2>1. Bad \in SUBSET Nat
    OBVIOUS
  <2>2. PICK k \in Bad : \A m \in Bad : k <= m
    BY <1>2, <2>1, LeastNatural
  <2>3. k \in i + 1 .. n /\ ~ (End(its, i) <= its[k].start)
    OBVIOUS
  <2>4. CASE k = i + 1
    <3>1. its[k].start = End(its, i)
      BY <1>1, <2>3, <2>4 DEF Chained
    <3> QED BY <1>1, <2>3, <3>1
  <2>5. CASE k # i + 1
    <3>1. k - 1 \in i + 1 .. n /\ k - 1 \notin Bad
      BY <1>1, <2>2, <2>3, <2>5
    <3>2. End(its, i) <= its[k - 1].start
      BY <3>1
    <3>3. its[k].start = End(its, k - 1)
      <4>1. k - 1 \in 1 .. n - 1 /\ (k - 1) + 1 = k
        BY <1>1, <2>3, <3>1
      <4> QED BY <4>1 DEF Chained
    <3>4. /\ its[k - 1].start \in Nat /\ End(its, k - 1) \in Nat
          /\ its[k - 1].start < End(its, k - 1)
      <4>1. k - 1 \in 1 .. n
        BY <1>1, <3>1
      <4> QED BY <1>1, <4>1, EndOf
    <3> QED BY <1>1, <2>3, <3>2, <3>3, <3>4
  <2> QED BY <2>4, <2>5
<1>3. j \in i + 1 .. n
  BY <1>1
<1> QED BY <1>2, <1>3

LEMMA ChainOrder ==
  ASSUME NEW its, NEW h, Chained(its, h),
         NEW i \in 1 .. Len(its), NEW j \in 1 .. Len(its)
  PROVE  /\ i < j => End(its, i) < End(its, j) /\ its[i].start < its[j].start
         /\ i <= j => End(its, i) <= End(its, j)
         /\ its[i].start = its[j].start => i = j
<1>1. its \in Seq(Items)
  BY DEF Chained
<1>2. /\ its[i].start \in Nat /\ End(its, i) \in Nat /\ its[i].start < End(its, i)
      /\ its[j].start \in Nat /\ End(its, j) \in Nat /\ its[j].start < End(its, j)
  BY <1>1, EndOf
<1>3. i < j => End(its, i) <= its[j].start
  BY ChainGrows
<1>4. j < i => End(its, j) <= its[i].start
  BY ChainGrows
<1> QED BY <1>2, <1>3, <1>4

LEMMA ItemAtFound ==
  ASSUME NEW h, Chained(items, h), NEW i \in 1 .. Len(items)
  PROVE  ItemAt(items[i].start) = i
<1> DEFINE p  == items[i].start
           at == {j \in 1 .. Len(items) : items[j].start = p}
<1>1. at = {i}
  BY ChainOrder
<1>2. ItemAt(p) = IF at = {} THEN 0 ELSE CHOOSE j \in at : TRUE
  BY Zenon DEF ItemAt
<1> HIDE DEF at, p
<1>3. ItemAt(p) = i
  BY <1>1, <1>2
<1> QED BY <1>3 DEF p

LEMMA PacketsAre ==
  ASSUME NEW h, Chained(items, h)
  PROVE  /\ Packets = h + 1 .. Len(items)
         /\ Cardinality(Packets) = Len(items) - h
<1>1. h \in 1 .. Len(items) /\ Len(items) \in Nat
  BY LenProperties DEF Chained
<1>2. Packets = h + 1 .. Len(items)
  BY <1>1 DEF Packets, Chained
<1>3. Cardinality(h + 1 .. Len(items)) = Len(items) - h
  <2>1. h + 1 \in Int /\ Len(items) \in Int
    BY <1>1
  <2>2. Cardinality(h + 1 .. Len(items))
          = IF h + 1 > Len(items) THEN 0 ELSE Len(items) - (h + 1) + 1
    BY <2>1, FS_Interval
  <2> QED BY <1>1, <2>2
<1> QED BY <1>2, <1>3

LEMMA AlignUp ==
  ASSUME NEW n \in Nat
  PROVE  Align(n) \in Nat /\ Align(n) >= n
<1>1. /\ (n + 3) \div 4 \in Nat /\ (n + 3) % 4 < 4 /\ (n + 3) % 4 \in Nat
      /\ n + 3 = 4 * ((n + 3) \div 4) + ((n + 3) % 4)
  BY DivMod
<1> QED BY <1>1 DEF Align

(* The packet whose block comes next, and that none does.                  *)
LEMMA NextBlockFound ==
  ASSUME NEW h, Chained(items, h), NEW p \in Nat, NEW i \in h + 1 .. Len(items),
         p <= items[i].start,
         \A k \in h + 1 .. Len(items) : k < i => items[k].start < p
  PROVE  NextPacketBlock(p) = items[i].start
<1> DEFINE later == {items[k].start : k \in {m \in Packets : items[m].start >= p}}
           q == items[i].start
<1>1. h \in Nat /\ Len(items) \in Nat
  BY LenProperties DEF Chained
<1>2. \A k \in h + 1 .. Len(items) : k \in 1 .. Len(items) /\ items[k].start \in Nat
  BY <1>1, EndOf DEF Chained
<1>3. q \in later
  BY <1>2, PacketsAre
<1>4. \A r \in later : r \in Nat /\ q <= r
  <2> SUFFICES ASSUME NEW k \in h + 1 .. Len(items), items[k].start >= p
               PROVE  items[k].start \in Nat /\ q <= items[k].start
    BY PacketsAre
  <2>1. ~ (k < i)
    BY <1>2
  <2>2. k = i \/ i < k
    BY <1>1, <2>1
  <2> QED BY <1>2, <2>2, ChainOrder
<1>5. NextPacketBlock(p)
        = IF later = {} THEN size ELSE CHOOSE m \in later : \A r \in later : m <= r
  BY Zenon DEF NextPacketBlock
<1> HIDE DEF later
<1>6. (CHOOSE m \in later : \A r \in later : m <= r) = q
  <2> DEFINE m == CHOOSE m \in later : \A r \in later : m <= r
  <2>1. m \in later /\ \A r \in later : m <= r
    BY <1>3, <1>4, Zenon
  <2> HIDE DEF m
  <2>2. m = q
    BY <1>3, <1>4, <2>1
  <2> QED BY <2>2 DEF m
<1> QED BY <1>3, <1>5, <1>6

LEMMA NoNextBlock ==
  ASSUME NEW h, Chained(items, h), NEW p \in Nat, size \in Nat,
         \A k \in h + 1 .. Len(items) : items[k].start >= p => items[k].start = size
  PROVE  NextPacketBlock(p) = size
<1> DEFINE later == {items[k].start : k \in {m \in Packets : items[m].start >= p}}
<1>1. \A r \in later : r = size
  BY PacketsAre
<1>2. NextPacketBlock(p)
        = IF later = {} THEN size ELSE CHOOSE m \in later : \A r \in later : m <= r
  BY Zenon DEF NextPacketBlock
<1> HIDE DEF later
<1>3. CASE later = {}
  BY <1>2, <1>3
<1>4. CASE later # {}
  <2>1. later = {size} /\ size \in later
    BY <1>1, <1>4
  <2>2. \A r \in later : size <= r
    BY <1>1
  <2> DEFINE m == CHOOSE m \in later : \A r \in later : m <= r
  <2>3. m \in later
    BY <2>1, <2>2, Zenon
  <2> HIDE DEF m
  <2>4. m = size
    BY <1>1, <2>3
  <2> QED BY <1>2, <1>4, <2>4 DEF m
<1> QED BY <1>3, <1>4
-----------------------------------------------------------------------------
(* One read.                                                               *)
LEMMA RecordLengths ==
  ASSUME NEW h, FileSound(h), NEW i \in h + 1 .. Len(items)
  PROVE  /\ i \in 1 .. Len(items) /\ h \in Nat /\ Len(items) \in Nat /\ size \in Nat
         /\ items[i].start \in Nat /\ items[i].caplen \in Nat
         /\ End(items, i) = items[i].start + items[i].len
         /\ format = "pcap" => items[i].len = 16 + items[i].caplen
         /\ format = "snoop" => items[i].len = 24 + Align(items[i].caplen)
         /\ format = "pcapng" => items[i].len = 28 + Align(items[i].caplen) + 4
         /\ Align(items[i].caplen) \in Nat
         /\ Align(items[i].caplen) >= items[i].caplen
<1>1. /\ items \in Seq(Items) /\ h \in 1 .. Len(items) /\ Len(items) \in Nat
      /\ items[i].len = RecordLen(items[i].caplen)
      /\ size \in 0 .. End(items, Len(items))
  BY LenProperties DEF FileSound, Chained
<1>2. i \in 1 .. Len(items) /\ h \in Nat /\ Len(items) \in 1 .. Len(items)
  BY <1>1
<1>3. items[i].start \in Nat /\ items[i].caplen \in Nat /\ End(items, Len(items)) \in Nat
  BY <1>1, <1>2, EndOf
<1>4. size \in Nat
  BY <1>1, <1>3
<1>5. Align(items[i].caplen) \in Nat /\ Align(items[i].caplen) >= items[i].caplen
  BY <1>3, AlignUp
<1> QED
  BY <1>1, <1>2, <1>3, <1>4, <1>5
  DEF RecordLen, PcapLen, SnoopLen, BlockLen, HdrLen, End

(* A reader in front of packet i: at its record, or, in pcapng, anywhere   *)
(* behind the start of the packet before.                                  *)
InFront(h, p, i) ==
  /\ p \in Nat
  /\ i \in h + 1 .. Len(items)
  /\ \/ p = items[i].start
     \/ /\ format = "pcapng"
        /\ p <= items[i].start
        /\ \A k \in h + 1 .. Len(items) : k < i => items[k].start < p

LEMMA FrontBlock ==
  ASSUME NEW h, FileSound(h), NEW p, NEW i, InFront(h, p, i), format = "pcapng"
  PROVE  NextPacketBlock(p) = items[i].start
<1>1. /\ p \in Nat /\ i \in h + 1 .. Len(items) /\ Chained(items, h)
      /\ items[i].start \in Nat
  BY RecordLengths DEF InFront, FileSound
<1>2. CASE p = items[i].start
  <2>1. ASSUME NEW k \in h + 1 .. Len(items), k < i
        PROVE  items[k].start < p
    <3>1. k \in 1 .. Len(items) /\ i \in 1 .. Len(items)
      BY <1>1, RecordLengths
    <3> QED BY <1>1, <1>2, <2>1, <3>1, ChainOrder
  <2> QED BY <1>1, <1>2, <2>1, NextBlockFound
<1>3. CASE p # items[i].start
  BY <1>1, <1>3, NextBlockFound DEF InFront
<1> QED BY <1>2, <1>3

(* A packet that is in the file completely is returned completely.         *)
LEMMA ReadWhole ==
  ASSUME NEW h, FileSound(h), NEW p, NEW i, InFront(h, p, i), End(items, i) <= size
  PROVE  ReadPacket(p) = Result("packet", End(items, i), i, items[i].caplen)
<1> DEFINE it == items[i]
           n  == it.caplen
<1>1. /\ i \in h + 1 .. Len(items) /\ i \in 1 .. Len(items)
      /\ size \in Nat /\ it.start \in Nat /\ n \in Nat
      /\ End(items, i) = it.start + it.len /\ it.start + it.len <= size
      /\ Align(n) \in Nat /\ Align(n) >= n
  BY RecordLengths DEF InFront
<1>2. /\ format = "pcap" => it.len = 16 + n
      /\ format = "snoop" => it.len = 24 + Align(n)
      /\ format = "pcapng" => it.len = 28 + Align(n) + 4
  BY <1>1, RecordLengths
<1>3. ItemAt(it.start) = i
  BY <1>1, ItemAtFound DEF FileSound
<1>4. format \in {"pcap", "snoop", "pcapng"}
  BY FileAssumption DEF FileSound
<1>5. CASE format = "pcapng"
  <2>1. ReadPacket(p) = ReadBlock(it.start)
    BY <1>5, FrontBlock DEF ReadPacket
  <2> QED BY <1>1, <1>2, <1>3, <1>5, <2>1 DEF ReadBlock
<1>6. CASE format = "pcap"
  <2>1. ReadPacket(p) = ReadRecord(it.start)
    BY <1>6 DEF ReadPacket, InFront
  <2>2. HdrLen[format] = 16
    BY <1>6 DEF HdrLen
  <2>3. Least(n, size - it.start - 16) = n /\ Least(n, n) = n
    BY <1>1, <1>2, <1>6 DEF Least
  <2> HIDE DEF n
  <2> QED
    BY <1>1, <1>2, <1>3, <1>6, <2>1, <2>2, <2>3 DEF ReadRecord, PcapBody, n
<1>7. CASE format = "snoop"
  <2>1. ReadPacket(p) = ReadRecord(it.start)
    BY <1>7 DEF ReadPacket, InFront
  <2>2. HdrLen[format] = 24 /\ HdrLen.snoop = 24
    BY <1>7 DEF HdrLen
  <2>3. SnoopBody(i) = Align(n)
    BY <1>1, <1>2, <1>7, <2>2 DEF SnoopBody
  <2>4. Least(Align(n), size - it.start - 24) = Align(n) /\ Least(Align(n), n) = n
    BY <1>1, <1>2, <1>7 DEF Least
  <2> QED
    BY <1>1, <1>2, <1>3, <1>7, <2>1, <2>2, <2>3, <2>4 DEF ReadRecord
<1> QED BY <1>4, <1>5, <1>6, <1>7

(* What a read of a packet that was cut off comes to.                      *)
Torn(r, i) ==
  /\ r.pos = size
  /\ \/ r.kind \in {"eof", "error"}
     \/ /\ r.kind = "packet" /\ format # "pcapng"
        /\ r.item = i /\ r.len \in 0 .. items[i].caplen

LEMMA ReadTorn ==
  ASSUME NEW h, FileSound(h), NEW p, NEW i, InFront(h, p, i),
         items[i].start <= size, size < End(items, i)
  PROVE  Torn(ReadPacket(p), i)
<1> DEFINE it == items[i]
           n  == it.caplen
<1>1. /\ i \in h + 1 .. Len(items) /\ i \in 1 .. Len(items)
      /\ size \in Nat /\ it.start \in Nat /\ n \in Nat
      /\ End(items, i) = it.start + it.len /\ size < it.start + it.len
      /\ Align(n) \in Nat /\ Align(n) >= n
  BY RecordLengths DEF InFront
<1>2. /\ format = "pcap" => it.len = 16 + n
      /\ format = "snoop" => it.len = 24 + Align(n)
      /\ format = "pcapng" => it.len = 28 + Align(n) + 4
  BY <1>1, RecordLengths
<1>3. ItemAt(it.start) = i
  BY <1>1, ItemAtFound DEF FileSound
<1>4. format \in {"pcap", "snoop", "pcapng"}
  BY FileAssumption DEF FileSound
<1>5. CASE format = "pcapng"
  <2>1. ReadPacket(p) = ReadBlock(it.start)
    BY <1>5, FrontBlock DEF ReadPacket
  <2> QED BY <1>1, <1>2, <1>3, <1>5, <2>1 DEF ReadBlock, Result, Torn
<1>6. CASE format = "pcap"
  <2>1. ReadPacket(p) = ReadRecord(it.start)
    BY <1>6 DEF ReadPacket, InFront
  <2>2. HdrLen[format] = 16
    BY <1>6 DEF HdrLen
  <2>3. size - it.start >= 16 =>
          /\ Least(n, size - it.start - 16) = size - it.start - 16
          /\ Least(size - it.start - 16, n) \in 0 .. n
    BY <1>1, <1>2, <1>6 DEF Least
  <2> QED
    BY <1>1, <1>2, <1>3, <1>6, <2>1, <2>2, <2>3
    DEF ReadRecord, PcapBody, Result, Torn
<1>7. CASE format = "snoop"
  <2>1. ReadPacket(p) = ReadRecord(it.start)
    BY <1>7 DEF ReadPacket, InFront
  <2>2. HdrLen[format] = 24 /\ HdrLen.snoop = 24
    BY <1>7 DEF HdrLen
  <2>3. SnoopBody(i) = Align(n)
    BY <1>1, <1>2, <1>7, <2>2 DEF SnoopBody
  <2>4. size - it.start >= 24 =>
          /\ Least(Align(n), size - it.start - 24) = size - it.start - 24
          /\ Least(size - it.start - 24, n) \in 0 .. n
    BY <1>1, <1>2, <1>7 DEF Least
  <2>5. size - it.start \in Nat /\ i # 0 /\ it.start \in Nat
    BY <1>1
  <2> DEFINE a == size - it.start
  <2>6. a = 0 => ReadPacket(p) = Result("eof", it.start, 0, 0) /\ it.start = size
    BY <1>1, <2>1 DEF ReadRecord
  <2>7. a # 0 /\ a < 24 => ReadPacket(p) = Result("error", size, 0, 0)
    BY <2>1, <2>2, <2>5 DEF ReadRecord
  <2>8. a >= 24 => /\ ReadPacket(p) = Result("packet", it.start + 24 + (a - 24), i,
                                              Least(a - 24, n))
                   /\ it.start + 24 + (a - 24) = size
    BY <1>1, <1>3, <1>7, <2>1, <2>2, <2>3, <2>4, <2>5 DEF ReadRecord
  <2> HIDE DEF n
  <2> QED BY <1>7, <2>4, <2>5, <2>6, <2>7, <2>8 DEF Result, Torn, n
<1> QED BY <1>4, <1>5, <1>6, <1>7

(* At the end of the file, and where no packet follows.                    *)
LEMMA ReadNothing ==
  ASSUME NEW h, FileSound(h), NEW p \in Nat,
         p = size \/ (format = "pcapng" /\ Len(items) = h)
  PROVE  ReadPacket(p) = Result("eof", size, 0, 0)
<1>1. /\ Chained(items, h) /\ h \in 1 .. Len(items) /\ Len(items) \in Nat
      /\ End(items, Len(items)) \in Nat /\ size \in 0 .. End(items, Len(items))
  <2>1. Chained(items, h) /\ size \in 0 .. End(items, Len(items))
    BY DEF FileSound
  <2>2. items \in Seq(Items) /\ h \in 1 .. Len(items) /\ Len(items) \in Nat
    BY <2>1, LenProperties DEF Chained
  <2>3. Len(items) \in 1 .. Len(items)
    BY <2>2
  <2> QED BY <2>1, <2>2, <2>3, EndOf
<1>2. size \in Nat
  BY <1>1
<1>3. CASE format # "pcapng"
  <2>1. size - p = 0
    BY <1>2, <1>3
  <2> QED BY <1>2, <1>3, <2>1 DEF ReadPacket, ReadRecord
<1>4. CASE format = "pcapng"
  <2>1. ASSUME NEW k \in h + 1 .. Len(items), items[k].start >= p
        PROVE  items[k].start = size
    <3>1. p = size /\ Len(items) > h
      BY <1>1, <2>1
    <3>2. End(items, Len(items) - 1) <= size
      BY <3>1 DEF FileSound
    <3>3. items[k].start \in Nat /\ k \in 1 .. Len(items)
      BY <2>1, RecordLengths
    <3>4. CASE k = Len(items)
      <4>1. Len(items) - 1 \in 1 .. Len(items) - 1 /\ (Len(items) - 1) + 1 = k
        BY <1>1, <3>1, <3>4
      <4>2. items[k].start = End(items, Len(items) - 1)
        BY <1>1, <4>1 DEF Chained
      <4> QED BY <1>2, <2>1, <3>1, <3>2, <3>3, <4>2
    <3>5. CASE k # Len(items)
      <4>1. k < Len(items) /\ Len(items) - 1 \in 1 .. Len(items) /\ k <= Len(items) - 1
        BY <1>1, <3>3, <3>5
      <4>2. End(items, k) <= End(items, Len(items) - 1)
        BY <1>1, <3>3, <4>1, ChainOrder
      <4>3. /\ items[k].start < End(items, k) /\ End(items, k) \in Nat
            /\ End(items, Len(items) - 1) \in Nat
        BY <1>1, <3>3, <4>1, EndOf DEF Chained
      <4> QED BY <1>2, <2>1, <3>1, <3>2, <3>3, <4>2, <4>3
    <3> QED BY <3>4, <3>5
  <2>2. NextPacketBlock(p) = size
    BY <1>1, <1>2, <2>1, NoNextBlock
  <2> QED BY <1>2, <1>4, <2>2 DEF ReadPacket, ReadBlock
<1> QED BY <1>3, <1>4
-----------------------------------------------------------------------------
(* What has been handed out, and where the reader stands.                  *)
Hand == [item : Nat, len : Nat]

(* The packets handed over, those readpkts still holds back at the end.    *)
All == given \o call.list

(* s holds the first packets of the file, only the last one cut short.     *)
InOrder(h, its, s) ==
  /\ h + Len(s) <= Len(its)
  /\ \A k \in 1 .. Len(s) :
       /\ s[k].item = h + k
       /\ s[k].len < its[h + k].caplen => k = Len(s)

LastShort(h, its, s) ==
  /\ Len(s) # 0
  /\ s[Len(s)].len < its[h + Len(s)].caplen

(* The end of a file of which a dead writer left the last record unfinished. *)
AtTornEnd == pos = size /\ ~ writing /\ format # "pcapng"

Done(h, c) == \A i \in Whole : i <= h + c

(* After c packets: behind the last of them, behind the headers the reader *)
(* asks for, or at the end of a file that grows no more.                   *)
Standing(h, c, p) ==
  \/ p = End(items, h + c) /\ p <= size
  \/ c = 0 /\ h = 3 /\ p = End(items, 2) /\ p <= size
  \/ p = size /\ ~ writing /\ (lost \/ Done(h, c))

ReaderTyped ==
  /\ reader \in {"none", "open", "failed"}
  /\ iters \in [{"main", "loop"} -> {"live", "done"}]
  /\ given \in Seq(Hand)
  /\ call \in [op : {"none", "dispatch", "readpkts"},
               left : {Unlimited} \cup 0 .. MaxCount, list : Seq(Hand)]
  /\ outcome \in {"none", "packet", "eof", "error"}
  /\ lost \in BOOLEAN

ReaderSound(h) ==
  /\ ReaderTyped
  /\ call.op # "readpkts" => call.list = << >>
  /\ reader # "open" => pos = 0 /\ All = << >> /\ call = NoCall /\ ~ lost
  /\ reader = "open" => Standing(h, Len(All), pos)
  /\ lost => ~ writing /\ pos = size
  /\ outcome \in {"eof", "error"} /\ reader = "open" => lost \/ Done(h, Len(All))
  /\ InOrder(h, items, All)
  /\ LastShort(h, items, All) => AtTornEnd

IInv == \E h \in 1 .. 3 : FileSound(h) /\ ReaderSound(h)

(* What a read gives a reader that handed out c packets.                   *)
Answer(h, c, r) ==
  \/ /\ r.kind = "packet" /\ r.item = h + c + 1 /\ h + c + 1 <= Len(items)
     /\ r.pos = End(items, h + c + 1) /\ r.pos <= size
     /\ r.len = items[h + c + 1].caplen
     /\ ~ lost
  \/ /\ r.kind = "packet" /\ r.item = h + c + 1 /\ h + c + 1 = Len(items)
     /\ r.pos = size /\ ~ writing /\ format # "pcapng"
     /\ r.len \in 0 .. items[h + c + 1].caplen
     /\ ~ lost
  \/ /\ r.kind \in {"eof", "error"} /\ r.pos = size
     /\ lost \/ Done(h, c)
     /\ writing => h + c = Len(items)
     /\ r.kind = "error" => ~ writing

LEMMA FileBounds ==
  ASSUME NEW h, FileSound(h)
  PROVE  /\ items \in Seq(Items) /\ h \in 1 .. 3 /\ h \in 1 .. Len(items)
         /\ Len(items) \in Nat /\ size \in Nat
         /\ End(items, Len(items)) \in Nat /\ size <= End(items, Len(items))
         /\ \A i \in 1 .. Len(items) : End(items, i) \in Nat
         /\ \A i \in Whole : i \in h + 1 .. Len(items) /\ End(items, i) <= size
<1>1. Chained(items, h) /\ size \in 0 .. End(items, Len(items)) /\ h \in 1 .. 3
  BY DEF FileSound
<1>2. items \in Seq(Items) /\ h \in 1 .. Len(items) /\ Len(items) \in Nat
  BY <1>1, LenProperties DEF Chained
<1>3. \A i \in 1 .. Len(items) : End(items, i) \in Nat
  BY <1>2, EndOf
<1>4. Len(items) \in 1 .. Len(items)
  BY <1>2
<1>5. \A i \in Whole : i \in h + 1 .. Len(items) /\ End(items, i) <= size
  BY <1>1, PacketsAre DEF Whole
<1> QED BY <1>1, <1>2, <1>3, <1>4, <1>5

LEMMA ReadAnswer ==
  ASSUME NEW h, FileSound(h), NEW c \in Nat, NEW p, Standing(h, c, p),
         h + c <= Len(items), lost => p = size /\ ~ writing, lost \in BOOLEAN,
         writing \in BOOLEAN
  PROVE  Answer(h, c, ReadPacket(p))
<1> DEFINE i == h + c + 1
           r == ReadPacket(p)
<1>1. /\ items \in Seq(Items) /\ h \in 1 .. 3 /\ h \in 1 .. Len(items)
      /\ Len(items) \in Nat /\ size \in Nat
      /\ End(items, Len(items)) \in Nat /\ size <= End(items, Len(items))
      /\ \A j \in 1 .. Len(items) : End(items, j) \in Nat
      /\ \A j \in Whole : j \in h + 1 .. Len(items) /\ End(items, j) <= size
  BY FileBounds
<1>2. h + c \in 1 .. Len(items) /\ End(items, h + c) \in Nat
  BY <1>1
<1>3. Chained(items, h)
  BY DEF FileSound
<1>4. p \in Nat
  <2>1. h = 3 => 2 \in 1 .. Len(items)
    BY <1>1
  <2> QED BY <1>1, <1>2, <2>1 DEF Standing
<1>5. CASE p = size
  <2>1. r = Result("eof", size, 0, 0)
    BY <1>4, <1>5, ReadNothing
  <2>2. lost \/ Done(h, c)
    <3>1. CASE p = End(items, h + c)
      <4>1. ASSUME NEW j \in Whole PROVE j <= h + c
        <5>1. j \in 1 .. Len(items) /\ End(items, j) <= End(items, h + c)
          BY <1>1, <1>5, <3>1
        <5>2. h + c < j => End(items, h + c) < End(items, j)
          BY <1>2, <1>3, <5>1, ChainOrder
        <5> QED BY <1>1, <1>2, <5>1, <5>2
      <4> QED BY <4>1 DEF Done
    <3>2. CASE c = 0 /\ h = 3 /\ p = End(items, 2)
      <4>1. ASSUME NEW j \in Whole PROVE FALSE
        <5>1. j \in 1 .. Len(items) /\ End(items, j) <= End(items, 2) /\ 2 < j
          BY <1>1, <1>5, <3>2
        <5>2. 2 \in 1 .. Len(items)
          BY <1>1, <3>2
        <5>3. End(items, 2) < End(items, j)
          BY <1>3, <5>1, <5>2, ChainOrder
        <5> QED BY <1>1, <5>1, <5>2, <5>3
      <4> QED BY <4>1 DEF Done
    <3>3. CASE lost \/ Done(h, c)
      BY <3>3
    <3> QED BY <3>1, <3>2, <3>3 DEF Standing
  <2>3. writing => h + c = Len(items)
    <3>1. SUFFICES ASSUME writing PROVE h + c = Len(items)
      OBVIOUS
    <3>2. Done(h, c) /\ size = End(items, Len(items))
      BY <2>2, <3>1 DEF FileSound
    <3>3. CASE Len(items) = h
      BY <1>1, <3>3
    <3>4. CASE Len(items) # h
      <4>1. Len(items) \in h + 1 .. Len(items)
        BY <1>1, <3>4
      <4>2. Len(items) \in Whole
        BY <1>1, <1>3, <3>2, <4>1, PacketsAre DEF Whole
      <4> QED BY <1>1, <3>2, <4>2 DEF Done
    <3> QED BY <3>3, <3>4
  <2> QED BY <2>1, <2>2, <2>3 DEF Result, Answer
<1>6. CASE p # size
  <2>1. ~ lost
    BY <1>6
  <2>2. p < size /\ (p = End(items, h + c) \/ (c = 0 /\ h = 3 /\ p = End(items, 2)))
    BY <1>1, <1>4, <1>6 DEF Standing
  <2>3. CASE h + c = Len(items)
    <3>1. c = 0 /\ h = 3 /\ Len(items) = h
      BY <1>1, <2>2, <2>3
    <3>2. format = "pcapng"
      BY <3>1 DEF FileSound
    <3>3. r = Result("eof", size, 0, 0)
      BY <1>4, <3>1, <3>2, ReadNothing
    <3>4. Done(h, c)
      BY <1>1, <3>1 DEF Done
    <3> QED BY <2>3, <3>3, <3>4 DEF Result, Answer
  <2>4. CASE h + c # Len(items)
    <3>1. i \in h + 1 .. Len(items) /\ i \in 1 .. Len(items) /\ i - 1 = h + c
      BY <1>1, <1>2, <2>4
    <3>2. items[i].start = End(items, h + c) /\ items[i].start \in Nat
      <4>1. h + c \in 1 .. Len(items) - 1 /\ (h + c) + 1 = i
        BY <1>1, <1>2, <2>4
      <4> QED BY <1>2, <1>3, <4>1 DEF Chained
    <3>3. InFront(h, p, i)
      <4>1. CASE p = End(items, h + c)
        BY <1>4, <3>1, <3>2, <4>1 DEF InFront
      <4>2. CASE c = 0 /\ h = 3 /\ p = End(items, 2)
        <5>1. format = "pcapng"
          BY <4>2 DEF FileSound
        <5>2. 2 \in 1 .. Len(items) /\ 3 \in 1 .. Len(items) /\ h + c = 3 /\ i = 4
          BY <1>1, <4>2
        <5>3. End(items, 2) < End(items, 3)
          BY <1>3, <5>2, ChainOrder
        <5>4. p <= items[i].start
          BY <1>1, <3>2, <4>2, <5>2, <5>3
        <5>5. \A k \in h + 1 .. Len(items) : ~ (k < i)
          BY <1>1, <4>2, <5>2
        <5> QED BY <1>4, <3>1, <5>1, <5>4, <5>5 DEF InFront
      <4> QED BY <2>2, <4>1, <4>2
    <3>4. CASE End(items, i) <= size
      <4>1. r = Result("packet", End(items, i), i, items[i].caplen)
        BY <3>3, <3>4, ReadWhole
      <4>2. i <= Len(items)
        BY <3>1
      <4> QED BY <2>1, <3>4, <4>1, <4>2 DEF Result, Answer
    <3>5. CASE ~ (End(items, i) <= size)
      <4>1. i = Len(items)
        <5>1. ASSUME i # Len(items) PROVE FALSE
          <6>1. Len(items) - 1 \in 1 .. Len(items) /\ i <= Len(items) - 1
            BY <1>1, <3>1, <5>1
          <6>2. End(items, i) <= End(items, Len(items) - 1)
            BY <1>3, <3>1, <6>1, ChainOrder
          <6>3. End(items, Len(items) - 1) <= size
            BY <1>1, <3>1 DEF FileSound
          <6>4. /\ size \in Nat /\ End(items, i) \in Nat
                /\ End(items, Len(items) - 1) \in Nat
            BY <1>1, <3>1, <6>1
          <6> HIDE DEF i
          <6> QED BY <3>5, <6>2, <6>3, <6>4
        <5> QED BY <5>1
      <4>2. ~ writing
        BY <1>1, <3>5, <4>1 DEF FileSound
      <4>3. items[i].start <= size
        BY <1>1, <1>2, <3>1, <3>2, <4>1 DEF FileSound
      <4>4. Torn(r, i)
        BY <1>1, <3>1, <3>3, <3>5, <4>3, ReadTorn
      <4>5. ASSUME NEW j \in Whole PROVE j <= h + c
        <5>1. j # i
          BY <1>1, <3>5
        <5> QED BY <1>1, <3>1, <4>1, <5>1
      <4>6. Done(h, c)
        BY <4>5 DEF Done
      <4> HIDE DEF r
      <4>7. Answer(h, c, r)
        BY <2>1, <4>1, <4>2, <4>4, <4>6 DEF Torn, Answer
      <4> QED BY <4>7 DEF r
    <3> QED BY <3>4, <3>5
  <2> QED BY <2>3, <2>4
<1> QED BY <1>5, <1>6
-----------------------------------------------------------------------------
(* The invariant holds at first.                                           *)
LEMMA HeadersSound ==
  ASSUME Init
  PROVE  \E h \in 1 .. 3 : FileSound(h) /\ h = Len(items)
<1>1. /\ format \in Formats /\ format \in {"pcap", "snoop", "pcapng"}
      /\ items \in Headers(format)
  BY FileAssumption DEF Init
<1>2. \A start \in Nat, len \in Nat \ {0}, kind \in {"file", "shb", "idb"} :
        /\ Block(kind, start, len) \in Items
        /\ Block(kind, start, len).kind = kind
        /\ Block(kind, start, len).start = start
        /\ Block(kind, start, len).len = len
  BY DEF Block, Item, Items
<1>3. \E h \in 1 .. 3 :
        /\ Chained(items, h) /\ h = Len(items)
        /\ h \in (IF format = "pcapng" THEN {2, 3} ELSE {1})
        /\ format = "pcap" => items[1].len = 24
        /\ format = "snoop" => items[1].len = 16
  <2>1. CASE format \in {"pcap", "snoop"}
    <3>1. PICK n \in {16, 24} : /\ items = << Block("file", 0, n) >>
                                /\ n = IF format = "pcap" THEN 24 ELSE 16
      BY <1>1, <2>1 DEF Headers
    <3> DEFINE b == Block("file", 0, n)
    <3>2. b \in Items /\ b.kind = "file" /\ b.start = 0 /\ b.len = n
      BY <1>2
    <3> HIDE DEF b
    <3>3. Len(items) = 1 /\ items[1] = b /\ items \in Seq(Items)
      BY <3>1, <3>2 DEF b
    <3>4. Chained(items, 1)
      BY <3>2, <3>3 DEF Chained
    <3> QED BY <2>1, <3>1, <3>2, <3>3, <3>4
  <2>2. CASE format = "pcapng"
    <3> DEFINE a == Block("shb", 0, 28)
               b == Block("idb", 28, 20)
               d == Block("idb", 48, 20)
    <3>1. /\ a \in Items /\ a.kind = "shb" /\ a.start = 0 /\ a.len = 28
          /\ b \in Items /\ b.kind = "idb" /\ b.start = 28 /\ b.len = 20
          /\ d \in Items /\ d.kind = "idb" /\ d.start = 48 /\ d.len = 20
      BY <1>2
    <3>2. items \in { <<a, b>>, <<a, b, d>> }
      BY <1>1, <2>2 DEF Headers
    <3> HIDE DEF a, b, d
    <3>3. CASE items = <<a, b>>
      <4>1. /\ Len(items) = 2 /\ items[1] = a /\ items[2] = b
            /\ items \in Seq(Items)
        BY <3>1, <3>3
      <4>2. Chained(items, 2)
        BY <3>1, <4>1 DEF Chained, End
      <4> QED BY <2>2, <4>1, <4>2
    <3>4. CASE items = <<a, b, d>>
      <4>1. /\ Len(items) = 3 /\ items[1] = a /\ items[2] = b /\ items[3] = d
            /\ items \in Seq(Items)
        BY <3>1, <3>4
      <4>2. Chained(items, 3)
        BY <3>1, <4>1 DEF Chained, End
      <4> QED BY <2>2, <4>1, <4>2
    <3> QED BY <3>2, <3>3, <3>4
  <2> QED BY <1>1, <2>1, <2>2
<1>4. PICK h \in 1 .. 3 :
        /\ Chained(items, h) /\ h = Len(items)
        /\ h \in (IF format = "pcapng" THEN {2, 3} ELSE {1})
        /\ format = "pcap" => items[1].len = 24
        /\ format = "snoop" => items[1].len = 16
  BY <1>3
<1>5. /\ writing \in BOOLEAN /\ size \in 0 .. End(items, Len(items))
      /\ writing => size = End(items, Len(items))
  <2>1. End(items, Len(items)) \in Nat
    BY <1>4, EndOf DEF Chained
  <2> DEFINE e == End(items, Len(items))
  <2>2. \/ writing = TRUE /\ size = e
        \/ writing = FALSE /\ size \in Nat /\ size < e
    BY FileAssumption DEF Init
  <2> HIDE DEF e
  <2>3. size = e \/ (size \in Nat /\ size < e)
    BY <2>2
  <2>4. size \in 0 .. e
    BY <2>1, <2>3 DEF e
  <2>5. writing \in BOOLEAN /\ (writing => size = e)
    BY <2>2, Zenon
  <2> QED BY <2>4, <2>5 DEF e
<1>6. FileSound(h)
  <2>1. h + 1 .. Len(items) = {}
    BY <1>4
  <2>2. ~ (Len(items) > h)
    BY <1>4
  <2> QED BY <1>1, <1>4, <1>5, <2>1, <2>2 DEF FileSound
<1> QED BY <1>4, <1>6

LEMMA InitSound == Init => IInv
<1> SUFFICES ASSUME Init PROVE IInv
  OBVIOUS
<1>1. PICK h \in 1 .. 3 : FileSound(h) /\ h = Len(items)
  BY HeadersSound
<1>2. /\ reader = "none" /\ pos = 0 /\ given = << >> /\ call = NoCall
      /\ iters = [it \in {"main", "loop"} |-> "done"]
      /\ lost = FALSE /\ outcome = "none"
  BY DEF Init
<1>3. NoCall.list = << >> /\ NoCall.op = "none" /\ NoCall.left = 0
  BY DEF NoCall
<1>4. All = << >>
  BY <1>2, <1>3 DEF All
<1>5. ReaderTyped
  <2>1. MaxCount \in Nat
    BY FileAssumption
  <2>2. call \in [op : {"none", "dispatch", "readpkts"},
                  left : {Unlimited} \cup 0 .. MaxCount, list : Seq(Hand)]
    BY <1>2, <2>1 DEF NoCall
  <2>3. given \in Seq(Hand)
    BY <1>2
  <2>4. iters \in [{"main", "loop"} -> {"live", "done"}]
    BY <1>2
  <2> QED BY <1>2, <2>2, <2>3, <2>4 DEF ReaderTyped
<1>6. InOrder(h, items, All) /\ ~ LastShort(h, items, All)
  BY <1>1, <1>4 DEF InOrder, LastShort
<1>7. ReaderSound(h)
  BY <1>2, <1>3, <1>4, <1>5, <1>6 DEF ReaderSound
<1> QED BY <1>1, <1>7 DEF IInv

(* A step of the writer: n bytes of a record for a packet are added.       *)
Appended(caplen, ts, n) ==
  /\ writing
  /\ items' = Append(items, Record(caplen, ts))
  /\ size' = size + n
  /\ n \in 0 .. RecordLen(caplen)
  /\ writing' \in BOOLEAN
  /\ writing' => n = RecordLen(caplen)
  /\ format' = format

LEMMA RecordIs ==
  ASSUME NEW caplen \in Nat, NEW ts \in Nat, size \in Nat,
         format \in {"pcap", "snoop", "pcapng"}
  PROVE  LET rec == Record(caplen, ts)
         IN  /\ rec \in Items /\ rec.kind = "packet" /\ rec.start = size
             /\ rec.caplen = caplen /\ rec.ts = ts
             /\ rec.len = RecordLen(caplen) /\ RecordLen(caplen) \in Nat \ {0}
             /\ Near(rec.time, rec.ts)
<1>1. TimeFields(ts) \in Nat \X Nat /\ Near(TimeFields(ts), ts)
  BY FieldsNear
<1>2. RecordLen(caplen) \in Nat \ {0}
  <2>1. Align(caplen) \in Nat
    BY AlignUp
  <2> QED BY <2>1 DEF RecordLen, PcapLen, SnoopLen, BlockLen, HdrLen
<1> QED BY <1>1, <1>2 DEF Record, Item, Items

LEMMA AppendedFile ==
  ASSUME NEW h, FileSound(h), NEW caplen \in CapLens, NEW ts \in Times,
         NEW n, Appended(caplen, ts, n)
  PROVE  /\ FileSound(h)'
         /\ Len(items') = Len(items) + 1
         /\ \A i \in 1 .. Len(items) : items'[i] = items[i]
<1> DEFINE rec == Record(caplen, ts)
           m == Len(items)
<1>1. /\ items \in Seq(Items) /\ h \in 1 .. m /\ m \in Nat /\ size \in Nat
      /\ End(items, m) = size /\ Chained(items, h) /\ m \in 1 .. m
  BY FileBounds DEF FileSound, Appended
<1>2. caplen \in Nat /\ ts \in Nat /\ format \in {"pcap", "snoop", "pcapng"}
  BY FileAssumption DEF FileSound
<1>3. /\ rec \in Items /\ rec.kind = "packet" /\ rec.start = size
      /\ rec.caplen = caplen /\ rec.ts = ts
      /\ rec.len = RecordLen(caplen) /\ RecordLen(caplen) \in Nat \ {0}
      /\ Near(rec.time, rec.ts)
  BY <1>1, <1>2, RecordIs
<1> HIDE DEF rec
<1>4. /\ items' = Append(items, rec) /\ items' \in Seq(Items)
      /\ Len(items') = m + 1 /\ items'[m + 1] = rec
      /\ \A i \in 1 .. m : items'[i] = items[i]
  <2>1. items' = Append(items, rec)
    BY DEF Appended, rec
  <2> QED BY <1>1, <1>3, <2>1, AppendProperties
<1> HIDE DEF m
<1>5. Chained(items', h)
  <2>1. h \in 1 .. m + 1
    BY <1>1
  <2>2. ASSUME NEW i \in 1 .. m + 1
        PROVE  items'[i].kind = "packet" <=> i > h
    <3>1. CASE i = m + 1
      BY <1>1, <1>3, <1>4, <3>1
    <3>2. CASE i # m + 1
      <4>1. i \in 1 .. m
        BY <1>1, <3>2
      <4> QED BY <1>1, <1>4, <4>1 DEF Chained, m
    <3> QED BY <3>1, <3>2
  <2>3. ASSUME NEW i \in 1 .. (m + 1) - 1
        PROVE  items'[i + 1].start = End(items', i)
    <3>1. i \in 1 .. m /\ items'[i] = items[i] /\ End(items', i) = End(items, i)
      BY <1>1, <1>4 DEF End
    <3>2. CASE i = m
      BY <1>1, <1>3, <1>4, <3>1, <3>2
    <3>3. CASE i # m
      <4>1. i \in 1 .. m - 1 /\ i + 1 \in 1 .. m
        BY <1>1, <3>1, <3>3
      <4>2. items[i + 1].start = End(items, i)
        BY <1>1, <4>1 DEF Chained, m
      <4> QED BY <1>4, <3>1, <4>1, <4>2
    <3> QED BY <3>2, <3>3
  <2>4. items'[1] = items[1] /\ items[1].start = 0
    BY <1>1, <1>4 DEF Chained
  <2> QED BY <1>4, <2>1, <2>2, <2>3, <2>4 DEF Chained
<1>6. ASSUME NEW i \in h + 1 .. m + 1
      PROVE  /\ items'[i].len = RecordLen(items[i].caplen)'
             /\ Near(items[i].time, items[i].ts)'
  <2>1. /\ items'[i].len = RecordLen(items'[i].caplen)
        /\ Near(items'[i].time, items'[i].ts)
    <3>1. CASE i = m + 1
      BY <1>3, <1>4, <3>1
    <3>2. CASE i # m + 1
      <4>1. i \in h + 1 .. m /\ i \in 1 .. m
        BY <1>1, <3>2
      <4> QED BY <1>4, <4>1 DEF FileSound, m
    <3> QED BY <3>1, <3>2
  <2>2. format' = format
    BY DEF Appended
  <2>3. RecordLen(items[i].caplen)' = RecordLen(items'[i].caplen)
    BY <2>2 DEF RecordLen, PcapLen, SnoopLen, BlockLen
  <2>4. Near(items[i].time, items[i].ts)' <=> Near(items'[i].time, items'[i].ts)
    BY <2>2 DEF Near, TimeOf
  <2> QED BY <2>1, <2>3, <2>4
<1>7. /\ End(items', m + 1) = size + RecordLen(caplen)
      /\ End(items', (m + 1) - 1) = size
  <2>1. (m + 1) - 1 = m /\ items'[m] = items[m]
    BY <1>1, <1>4
  <2> QED BY <1>1, <1>3, <1>4, <2>1 DEF End
<1>8. /\ size' \in 0 .. End(items', m + 1)
      /\ writing' \in BOOLEAN
      /\ writing' => size' = End(items', m + 1)
      /\ End(items', (m + 1) - 1) <= size'
  <2> DEFINE e == End(items', m + 1)
             d == RecordLen(caplen)
  <2>1. /\ e = size + d /\ d \in Nat /\ size' = size + n /\ n \in 0 .. d
        /\ writing' \in BOOLEAN /\ (writing' => n = d)
    BY <1>3, <1>7 DEF Appended
  <2> HIDE DEF e, d
  <2>2. size' \in 0 .. e /\ (writing' => size' = e) /\ size <= size'
    BY <1>1, <2>1
  <2> QED BY <1>7, <2>1, <2>2 DEF e
<1>9. FileSound(h)'
  <2>1. /\ format' \in Formats
        /\ h \in (IF format' = "pcapng" THEN {2, 3} ELSE {1})
        /\ format' = "pcap" => items'[1].len = 24
        /\ format' = "snoop" => items'[1].len = 16
    BY <1>1, <1>4 DEF FileSound, Appended
  <2> QED BY <1>4, <1>5, <1>6, <1>8, <2>1 DEF FileSound
<1> QED BY <1>4, <1>9 DEF m
(* The writer's steps leave the reader sound.                              *)
LEMMA WriteSound ==
  ASSUME NEW h, FileSound(h), ReaderSound(h), Write
  PROVE  FileSound(h)' /\ ReaderSound(h)'
<1>1. PICK caplen \in CapLens, ts \in Times, n \in Nat : Appended(caplen, ts, n)
  <2>1. PICK caplen \in CapLens : \E ts \in Times :
               \/ WritePkt(caplen, ts)
               \/ \E n \in Cuts : Die(caplen, ts, n)
    BY DEF Write
  <2>2. PICK ts \in Times :
               \/ WritePkt(caplen, ts)
               \/ \E n \in Cuts : Die(caplen, ts, n)
    BY <2>1
  <2>3. RecordLen(caplen) \in Nat
    BY FileBounds, RecordIs, FileAssumption DEF FileSound
  <2>4. /\ format' = format /\ writing' \in BOOLEAN /\ writing
        /\ Cuts \subseteq Nat
    <3>1. format' = format /\ writing
      BY <2>2 DEF WritePkt, Die
    <3>2. writing' = writing \/ writing' = FALSE
      BY <2>2 DEF WritePkt, Die
    <3>3. writing' \in BOOLEAN
      BY <3>1, <3>2 DEF FileSound
    <3> QED BY <3>1, <3>3, FileAssumption
  <2>5. CASE WritePkt(caplen, ts)
    <3>1. Appended(caplen, ts, RecordLen(caplen))
      BY <2>3, <2>4, <2>5 DEF WritePkt, Appended
    <3> QED BY <2>3, <3>1
  <2>6. ASSUME NEW n \in Cuts, Die(caplen, ts, n)
        PROVE  Appended(caplen, ts, n) /\ n \in Nat
    BY <2>3, <2>4, <2>6 DEF Die, Appended
  <2> QED BY <2>2, <2>5, <2>6
<1>2. /\ writing /\ outcome' = "none"
      /\ UNCHANGED <<reader, pos, iters, call, given, lost>>
  BY DEF Write, WritePkt, Die
<1>3. /\ FileSound(h)'
      /\ Len(items') = Len(items) + 1
      /\ \A i \in 1 .. Len(items) : items'[i] = items[i]
  BY <1>1, AppendedFile
<1>4. /\ Len(items) \in Nat /\ h \in 1 .. Len(items) /\ h \in 1 .. 3 /\ size \in Nat
      /\ \A i \in 1 .. Len(items) : End(items, i) \in Nat
  BY FileBounds
<1>5. All' = All /\ Len(All) \in Nat /\ h + Len(All) <= Len(items)
  <2>1. given \in Seq(Hand) /\ call.list \in Seq(Hand)
    BY DEF ReaderSound, ReaderTyped
  <2>2. All \in Seq(Hand)
    BY <2>1, ConcatProperties DEF All
  <2>3. Len(All) \in Nat
    BY <2>2, LenProperties
  <2> QED BY <1>2, <2>3 DEF All, ReaderSound, InOrder
<1> DEFINE c == Len(All)
<1>6. InOrder(h, items', All') /\ ~ LastShort(h, items', All')
  <2>1. InOrder(h, items, All) /\ ~ LastShort(h, items, All)
    BY <1>2 DEF ReaderSound, AtTornEnd
  <2>2. \A k \in 1 .. c : items'[h + k] = items[h + k]
    <3>1. \A k \in 1 .. c : h + k \in 1 .. Len(items)
      BY <1>4, <1>5
    <3> QED BY <1>3, <3>1
  <2>3. c # 0 => c \in 1 .. c
    BY <1>5
  <2>4. h + c <= Len(items')
    BY <1>3, <1>4, <1>5
  <2> QED BY <1>5, <2>1, <2>2, <2>3, <2>4 DEF InOrder, LastShort
<1>7. reader = "open" => Standing(h, c, pos)'
  <2>1. SUFFICES ASSUME reader = "open" PROVE Standing(h, c, pos)'
    OBVIOUS
  <2>2. \/ pos = End(items, h + c) /\ pos <= size
        \/ c = 0 /\ h = 3 /\ pos = End(items, 2) /\ pos <= size
    BY <1>2, <2>1 DEF ReaderSound, Standing
  <2>3. size' \in Nat /\ size <= size'
    <3>1. RecordLen(caplen) \in Nat
      BY FileBounds, RecordIs, FileAssumption DEF FileSound
    <3> QED BY <1>1, <1>4, <3>1 DEF Appended
  <2>4. \A i \in 1 .. Len(items) : End(items', i) = End(items, i)
    BY <1>3 DEF End
  <2>5. h + c \in 1 .. Len(items) /\ (h = 3 => 2 \in 1 .. Len(items))
    BY <1>4, <1>5
  <2>6. \/ pos = End(items', h + c) /\ pos <= size'
        \/ c = 0 /\ h = 3 /\ pos = End(items', 2) /\ pos <= size'
    BY <1>4, <2>2, <2>3, <2>4, <2>5
  <2> QED BY <1>2, <1>5, <2>6 DEF Standing
<1>8. ReaderTyped'
  BY <1>2 DEF ReaderSound, ReaderTyped
<1>9. ~ lost
  BY <1>2 DEF ReaderSound
<1>10. /\ call'.op # "readpkts" => call'.list = << >>
       /\ reader' # "open" => pos' = 0 /\ All' = << >> /\ call' = NoCall /\ ~ lost'
  BY <1>2, <1>5 DEF ReaderSound
<1>11. ReaderSound(h)'
  BY <1>2, <1>5, <1>6, <1>7, <1>8, <1>9, <1>10 DEF ReaderSound
<1> QED BY <1>3, <1>11
-----------------------------------------------------------------------------
(* The reader's steps.                                                     *)
FileUnchanged == UNCHANGED <<format, items, size, writing>>

LEMMA FileKept ==
  ASSUME NEW h, FileSound(h), FileUnchanged
  PROVE  FileSound(h)' /\ Whole' = Whole
<1>1. format' = format /\ items' = items /\ size' = size /\ writing' = writing
  BY DEF FileUnchanged
<1>2. \A i \in h + 1 .. Len(items) :
        /\ RecordLen(items[i].caplen)' = RecordLen(items[i].caplen)
        /\ Near(items[i].time, items[i].ts)' <=> Near(items[i].time, items[i].ts)
  BY <1>1 DEF RecordLen, PcapLen, SnoopLen, BlockLen, Near, TimeOf
<1>3. Whole' = Whole
  BY <1>1 DEF Whole, Packets, End
<1>4. Chained(items, h)' /\ End(items, Len(items))' = End(items, Len(items))
  BY <1>1 DEF FileSound, Chained, End
<1>5. FileSound(h)'
  BY <1>1, <1>2, <1>4 DEF FileSound, End
<1> QED BY <1>3, <1>5

LEMMA AllTyped ==
  ASSUME ReaderTyped
  PROVE  /\ given \in Seq(Hand) /\ call.list \in Seq(Hand) /\ All \in Seq(Hand)
         /\ Len(All) \in Nat /\ Len(All) = Len(given) + Len(call.list)
         /\ Len(given) \in Nat /\ Len(call.list) \in Nat
         /\ \A k \in 1 .. Len(given) : All[k] = given[k]
         /\ \A k \in 1 .. Len(call.list) : All[Len(given) + k] = call.list[k]
<1>1. given \in Seq(Hand) /\ call.list \in Seq(Hand)
  BY DEF ReaderTyped
<1>2. Len(given) \in Nat /\ Len(call.list) \in Nat
  BY <1>1, LenProperties
<1> DEFINE g == given
           l == call.list
<1>3. /\ g \o l \in Seq(Hand) /\ Len(g \o l) = Len(g) + Len(l)
      /\ \A k \in 1 .. Len(g) + Len(l) :
           (g \o l)[k] = IF k <= Len(g) THEN g[k] ELSE l[k - Len(g)]
  <2> HIDE DEF g, l
  <2> QED BY <1>1, ConcatProperties DEF g, l
<1>4. \A k \in 1 .. Len(g) : k \in 1 .. Len(g) + Len(l) /\ k <= Len(g)
  BY <1>2
<1>5. \A k \in 1 .. Len(l) : /\ Len(g) + k \in 1 .. Len(g) + Len(l)
                             /\ ~ (Len(g) + k <= Len(g))
                             /\ (Len(g) + k) - Len(g) = k
  BY <1>2
<1>6. All = g \o l
  BY DEF All
<1> HIDE DEF g, l
<1>7. /\ \A k \in 1 .. Len(g) : All[k] = g[k]
      /\ \A k \in 1 .. Len(l) : All[Len(g) + k] = l[k]
  BY <1>3, <1>4, <1>5, <1>6
<1>8. All \in Seq(Hand) /\ Len(All) = Len(g) + Len(l) /\ Len(All) \in Nat
  BY <1>2, <1>3, <1>6 DEF g, l
<1> QED BY <1>1, <1>2, <1>7, <1>8 DEF g, l

(* A reader that is opened.                                                *)
LEMMA OpenSound ==
  ASSUME NEW h, FileSound(h), ReaderSound(h), NEW universal \in BOOLEAN,
         Open(universal)
  PROVE  FileSound(h)' /\ ReaderSound(h)'
<1>1. FileUnchanged /\ UNCHANGED <<call, given, lost>>
  BY DEF Open, FileUnchanged
<1>2. FileSound(h)' /\ Whole' = Whole
  BY <1>1, FileKept
<1>3. All = << >> /\ call = NoCall /\ lost = FALSE /\ pos = 0
  BY DEF Open, ReaderSound, ReaderTyped
<1>4. All' = All /\ Len(All) = 0
  BY <1>1, <1>3 DEF All
<1>5. NoCall.list = << >> /\ NoCall.op = "none"
  BY DEF NoCall
<1> DEFINE ok == IF universal THEN OpensUniversal
                 ELSE OpensPcap \/ OpensSnoop \/ OpensPcapng
           two == End(items, IF format = "pcapng" THEN 2 ELSE 1)
<1>6. /\ reader' = IF ok THEN "open" ELSE "failed"
      /\ pos' = IF ~ ok THEN 0 ELSE two
      /\ iters' = IF ok THEN [iters EXCEPT !["main"] = "live"] ELSE iters
      /\ outcome' = IF ok THEN "none" ELSE "error"
  BY DEF Open
<1>7. ok => two <= size
  <2>1. SUFFICES ASSUME ok PROVE two <= size
    OBVIOUS
  <2>2. OpensPcap \/ OpensSnoop \/ OpensPcapng
    BY <2>1 DEF OpensUniversal
  <2>3. CASE OpensPcap \/ OpensSnoop
    <3>1. /\ two = End(items, 1) /\ items[1].start = 0
          /\ size >= items[1].len /\ items[1].len \in Nat
      <4>1. 1 \in 1 .. Len(items)
        BY FileBounds
      <4>2. items[1].len \in Nat
        BY <4>1, FileBounds, EndOf
      <4> QED BY <2>3, <4>2 DEF OpensPcap, OpensSnoop, FileSound, Chained
    <3>2. size \in Nat
      BY FileBounds
    <3> QED BY <3>1, <3>2 DEF End
  <2>4. CASE OpensPcapng
    <3>1. size \in Nat /\ 2 \in 1 .. Len(items)
      BY <2>4, FileBounds DEF FileSound, OpensPcapng
    <3>2. End(items, 2) \in Nat
      BY <3>1, FileBounds
    <3> QED BY <2>4, <3>1, <3>2 DEF OpensPcapng
  <2> QED BY <2>2, <2>3, <2>4
<1> HIDE DEF ok
<1>8. reader' = "open" => Standing(h, 0, two)
  <2>1. SUFFICES ASSUME ok PROVE Standing(h, 0, two)
    BY <1>6
  <2>2. h \in (IF format = "pcapng" THEN {2, 3} ELSE {1}) /\ h \in 1 .. 3 /\ h + 0 = h
    BY FileBounds DEF FileSound
  <2>3. \/ two = End(items, h)
        \/ h = 3 /\ two = End(items, 2)
    BY <2>2
  <2> QED BY <1>7, <2>1, <2>2, <2>3 DEF Standing
<1>9. reader' = "open" => Standing(h, Len(All), pos)'
  <2>1. SUFFICES ASSUME reader' = "open" PROVE Standing(h, Len(All), pos)'
    OBVIOUS
  <2>2. pos' = two /\ Standing(h, 0, two)
    BY <1>6, <1>8, <2>1
  <2>3. /\ items' = items /\ size' = size /\ writing' = writing /\ lost' = lost
        /\ Len(All') = 0
    BY <1>1, <1>4 DEF FileUnchanged
  <2> HIDE DEF two
  <2> QED BY <1>2, <2>2, <2>3 DEF Standing, Done
<1>10. ReaderTyped'
  <2>1. iters' \in [{"main", "loop"} -> {"live", "done"}]
    BY <1>6 DEF ReaderSound, ReaderTyped
  <2>2. reader' \in {"none", "open", "failed"} /\ outcome' \in {"none", "packet", "eof", "error"}
    BY <1>6
  <2> QED BY <1>1, <2>1, <2>2 DEF ReaderSound, ReaderTyped
<1>11. InOrder(h, items', All') /\ ~ LastShort(h, items', All')
  <2>1. h + 0 <= Len(items)
    BY FileBounds
  <2>2. items' = items
    BY <1>1 DEF FileUnchanged
  <2> QED BY <1>3, <1>4, <2>1, <2>2 DEF InOrder, LastShort
<1>12. reader' # "open" => pos' = 0
  BY <1>6
<1>13. ~ (outcome' \in {"eof", "error"} /\ reader' = "open")
  BY <1>6
<1>14. ReaderSound(h)'
  BY <1>1, <1>3, <1>4, <1>5, <1>9, <1>10, <1>11, <1>12, <1>13 DEF ReaderSound
<1> QED BY <1>2, <1>14

(* A loop, a dispatch or a readpkts that begins, and steps that stutter.   *)
LEMMA BeginSound ==
  ASSUME NEW h, FileSound(h), ReaderSound(h),
         FileUnchanged, UNCHANGED <<reader, pos, given, lost>>,
         iters' \in [{"main", "loop"} -> {"live", "done"}],
         outcome' \in {"none", outcome},
         \/ call' = call
         \/ /\ reader = "open" /\ call = NoCall
            /\ call' \in [op : {"none", "dispatch", "readpkts"},
                          left : {Unlimited} \cup 0 .. MaxCount, list : { << >> }]
  PROVE  FileSound(h)' /\ ReaderSound(h)'
<1>1. FileSound(h)' /\ Whole' = Whole
  BY FileKept
<1>2. call'.list = call.list /\ (call' = call \/ call'.list = << >>)
  BY DEF NoCall
<1>3. All' = All
  BY <1>2 DEF All
<1>4. ReaderTyped'
  <2>1. call' \in [op : {"none", "dispatch", "readpkts"},
                   left : {Unlimited} \cup 0 .. MaxCount, list : Seq(Hand)]
    <3>1. << >> \in Seq(Hand)
      OBVIOUS
    <3> QED BY <3>1 DEF ReaderSound, ReaderTyped
  <2>2. outcome' \in {"none", "packet", "eof", "error"}
    BY DEF ReaderSound, ReaderTyped
  <2>3. /\ reader' \in {"none", "open", "failed"} /\ given' \in Seq(Hand)
        /\ lost' \in BOOLEAN
    BY DEF ReaderSound, ReaderTyped
  <2> QED BY <2>1, <2>2, <2>3 DEF ReaderTyped
<1>5. /\ items' = items /\ size' = size /\ writing' = writing /\ lost' = lost
      /\ pos' = pos /\ reader' = reader /\ format' = format
  BY DEF FileUnchanged
<1>6. reader' = "open" => Standing(h, Len(All), pos)'
  BY <1>1, <1>3, <1>5 DEF ReaderSound, Standing, Done
<1>7. InOrder(h, items', All') /\ (LastShort(h, items', All') => AtTornEnd')
  BY <1>3, <1>5 DEF ReaderSound, AtTornEnd
<1>8. outcome' \in {"eof", "error"} /\ reader' = "open" => lost' \/ Done(h, Len(All))'
  BY <1>1, <1>3, <1>5 DEF ReaderSound, Done
<1>9. /\ call'.op # "readpkts" => call'.list = << >>
      /\ reader' # "open" => pos' = 0 /\ All' = << >> /\ call' = NoCall /\ ~ lost'
      /\ lost' => ~ writing' /\ pos' = size'
  BY <1>2, <1>3, <1>5 DEF ReaderSound
<1>10. ReaderSound(h)'
  BY <1>4, <1>6, <1>7, <1>8, <1>9 DEF ReaderSound
<1> QED BY <1>1, <1>10
(* A packet that is handed over: the next one in the file.                 *)
LEMMA PacketHanded ==
  ASSUME NEW h, FileSound(h), NEW s \in Seq(Hand), NEW r,
         InOrder(h, items, s), ~ LastShort(h, items, s),
         Answer(h, Len(s), r), r.kind = "packet"
  PROVE  /\ s \o Handed(r) \in Seq(Hand)
         /\ Len(s \o Handed(r)) = Len(s) + 1
         /\ InOrder(h, items, s \o Handed(r))
         /\ LastShort(h, items, s \o Handed(r)) =>
              r.pos = size /\ ~ writing /\ format # "pcapng"
         /\ Standing(h, Len(s) + 1, r.pos)
         /\ ~ lost
<1> DEFINE n == Len(s)
           x == [item |-> r.item, len |-> r.len]
           t == s \o <<x>>
<1>1. /\ n \in Nat /\ h \in Nat /\ h \in 1 .. 3 /\ Len(items) \in Nat /\ size \in Nat
      /\ items \in Seq(Items) /\ h + n + 1 <= Len(items) /\ r.item = h + n + 1
  BY FileBounds, LenProperties DEF Answer
<1>2. h + n + 1 \in 1 .. Len(items) /\ h + n + 1 = h + (n + 1)
  BY <1>1
<1>3. items[h + n + 1].caplen \in Nat
  BY <1>1, <1>2, EndOf
<1>4. r.len \in 0 .. items[h + n + 1].caplen
  BY <1>3 DEF Answer
<1>5. x \in Hand
  BY <1>1, <1>3, <1>4 DEF Hand
<1>6. Handed(r) = <<x>>
  BY DEF Handed
<1> HIDE DEF x
<1>7. /\ t \in Seq(Hand) /\ Len(t) = n + 1 /\ t[n + 1] = x
      /\ \A k \in 1 .. n : t[k] = s[k]
  <2>1. <<x>> \in Seq(Hand) /\ Len(<<x>>) = 1 /\ <<x>>[1] = x
    BY <1>5
  <2>2. /\ t \in Seq(Hand) /\ Len(t) = n + 1
        /\ \A k \in 1 .. n + 1 : t[k] = IF k <= n THEN s[k] ELSE <<x>>[k - n]
    BY <1>1, <2>1, ConcatProperties
  <2> HIDE DEF t
  <2>3. /\ n + 1 \in 1 .. n + 1 /\ ~ (n + 1 <= n) /\ (n + 1) - n = 1
        /\ \A k \in 1 .. n : k \in 1 .. n + 1 /\ k <= n
    BY <1>1
  <2> QED BY <2>1, <2>2, <2>3
<1> HIDE DEF t
<1>8. x.item = h + n + 1 /\ x.len = r.len
  BY <1>1 DEF x
<1>9. InOrder(h, items, t)
  <2>1. ASSUME NEW k \in 1 .. n + 1
        PROVE  /\ t[k].item = h + k
               /\ t[k].len < items[h + k].caplen => k = n + 1
    <3>1. CASE k = n + 1
      BY <1>2, <1>7, <1>8, <3>1
    <3>2. CASE k # n + 1
      <4>1. k \in 1 .. n
        BY <1>1, <3>2
      <4>2. s[k].item = h + k /\ (s[k].len < items[h + k].caplen => k = n)
        BY <4>1 DEF InOrder
      <4>3. k = n => n # 0 /\ ~ (s[k].len < items[h + k].caplen)
        BY <1>1, <4>1 DEF LastShort
      <4> QED BY <1>7, <4>1, <4>2, <4>3
    <3> QED BY <3>1, <3>2
  <2>2. h + Len(t) <= Len(items)
    BY <1>1, <1>2, <1>7
  <2> QED BY <1>7, <2>1, <2>2 DEF InOrder
<1>10. LastShort(h, items, t) => r.pos = size /\ ~ writing /\ format # "pcapng"
  <2>1. SUFFICES ASSUME LastShort(h, items, t)
                 PROVE  r.pos = size /\ ~ writing /\ format # "pcapng"
    OBVIOUS
  <2>2. r.len < items[h + n + 1].caplen
    BY <1>2, <1>7, <1>8, <2>1 DEF LastShort
  <2>3. r.len # items[h + n + 1].caplen
    BY <1>3, <1>4, <2>2
  <2> QED BY <2>3 DEF Answer
<1>11. Standing(h, n + 1, r.pos)
  <2>1. CASE r.pos = End(items, h + n + 1) /\ r.pos <= size
    BY <1>2, <2>1 DEF Standing
  <2>2. CASE h + n + 1 = Len(items) /\ r.pos = size /\ ~ writing
    <3>1. \A i \in Whole : i <= h + (n + 1)
      BY <1>1, <1>2, <2>2, FileBounds
    <3> QED BY <2>2, <3>1 DEF Standing, Done
  <2> QED BY <2>1, <2>2 DEF Answer
<1>12. ~ lost
  BY DEF Answer
<1> QED BY <1>6, <1>7, <1>9, <1>10, <1>11, <1>12 DEF t

LEMMA AnswerTyped ==
  ASSUME NEW h, FileSound(h), NEW c \in Nat, NEW r, Answer(h, c, r)
  PROVE  /\ r.kind \in {"packet", "eof", "error"}
         /\ r.kind = "packet" => Handed(r) \in Seq(Hand)
<1>1. r.kind \in {"packet", "eof", "error"}
  BY DEF Answer
<1>2. ASSUME r.kind = "packet" PROVE Handed(r) \in Seq(Hand)
  <2>1. /\ items \in Seq(Items) /\ Len(items) \in Nat /\ h \in Nat
        /\ h + c + 1 <= Len(items) /\ r.item = h + c + 1
    BY <1>2, FileBounds DEF Answer
  <2>2. h + c + 1 \in 1 .. Len(items)
    BY <2>1
  <2>3. items[h + c + 1].caplen \in Nat
    BY <2>1, <2>2, EndOf
  <2>4. r.len \in Nat /\ r.item \in Nat
    BY <1>2, <2>1, <2>2, <2>3 DEF Answer
  <2> QED BY <2>4 DEF Handed, Hand
<1> QED BY <1>1, <1>2

LEMMA PosAnswer ==
  ASSUME NEW h, FileSound(h), ReaderSound(h), reader = "open"
  PROVE  Answer(h, Len(All), ReadPacket(pos))
<1>1. /\ Len(All) \in Nat /\ lost \in BOOLEAN /\ writing \in BOOLEAN
  BY AllTyped DEF ReaderSound, ReaderTyped, FileSound
<1>2. /\ Standing(h, Len(All), pos) /\ h + Len(All) <= Len(items)
      /\ lost => pos = size /\ ~ writing
  BY DEF ReaderSound, InOrder
<1> QED BY <1>1, <1>2, ReadAnswer

(* One read, by whichever of the reader's callers.                         *)
LEMMA ReadSound ==
  ASSUME NEW h, FileSound(h), ReaderSound(h), reader = "open",
         FileUnchanged, reader' = reader, ReaderTyped',
         (call.op # "readpkts" => call.list = << >>)',
         NEW r, r = ReadPacket(pos), pos' = r.pos, outcome' = r.kind,
         r.kind = "packet" => All' = All \o Handed(r) /\ lost' = lost,
         r.kind # "packet" =>
           \/ All' = All /\ lost' = lost
           \/ r.kind = "error" /\ All' = given /\ call.list # << >> /\ lost'
  PROVE  FileSound(h)' /\ ReaderSound(h)'
<1>1. FileSound(h)' /\ Whole' = Whole
  BY FileKept
<1>2. /\ items' = items /\ size' = size /\ writing' = writing /\ format' = format
  BY DEF FileUnchanged
<1>3. /\ given \in Seq(Hand) /\ call.list \in Seq(Hand) /\ All \in Seq(Hand)
      /\ Len(All) \in Nat /\ Len(All) = Len(given) + Len(call.list)
      /\ Len(given) \in Nat /\ Len(call.list) \in Nat
      /\ \A k \in 1 .. Len(given) : All[k] = given[k]
  BY AllTyped DEF ReaderSound
<1>4. Answer(h, Len(All), r)
  BY PosAnswer
<1>5. InOrder(h, items, All)
  BY DEF ReaderSound
<1>6. CASE r.kind = "packet"
  <2>1. ~ LastShort(h, items, All)
    <3>1. SUFFICES ASSUME AtTornEnd PROVE FALSE
      BY DEF ReaderSound
    <3>2. pos = size /\ pos \in Nat
      BY <3>1, FileBounds DEF AtTornEnd
    <3>3. r = Result("eof", size, 0, 0)
      BY <3>2, ReadNothing
    <3> QED BY <1>6, <3>3 DEF Result
  <2> DEFINE t == All \o Handed(r)
  <2>2. /\ Len(t) = Len(All) + 1 /\ InOrder(h, items, t)
        /\ LastShort(h, items, t) => r.pos = size /\ ~ writing /\ format # "pcapng"
        /\ Standing(h, Len(All) + 1, r.pos)
        /\ ~ lost
    BY <1>3, <1>4, <1>5, <1>6, <2>1, PacketHanded
  <2>3. All' = t /\ lost' = lost
    BY <1>6
  <2> HIDE DEF t
  <2>4. Standing(h, Len(All), pos)'
    BY <1>1, <1>2, <2>2, <2>3 DEF Standing, Done
  <2>5. InOrder(h, items', All') /\ (LastShort(h, items', All') => AtTornEnd')
    BY <1>2, <2>2, <2>3 DEF AtTornEnd
  <2>6. ReaderSound(h)'
    BY <1>6, <2>2, <2>3, <2>4, <2>5 DEF ReaderSound
  <2> QED BY <1>1, <2>6
<1>7. CASE r.kind # "packet"
  <2>1. /\ r.kind \in {"eof", "error"} /\ r.pos = size
        /\ lost \/ Done(h, Len(All))
        /\ writing => h + Len(All) = Len(items)
        /\ r.kind = "error" => ~ writing
    BY <1>4, <1>7 DEF Answer
  <2>2. CASE All' = All /\ lost' = lost
    <3>1. Standing(h, Len(All), size)
      <4>1. CASE writing
        <5>1. size = End(items, Len(items)) /\ size <= size
          BY <4>1, FileBounds DEF FileSound
        <5> QED BY <2>1, <4>1, <5>1 DEF Standing
      <4>2. CASE ~ writing
        BY <2>1, <4>2 DEF Standing
      <4> QED BY <4>1, <4>2
    <3>2. Standing(h, Len(All), pos)'
      BY <1>1, <1>2, <2>1, <2>2, <3>1 DEF Standing, Done
    <3>3. InOrder(h, items', All')
      BY <1>2, <1>5, <2>2
    <3>4. LastShort(h, items', All') => AtTornEnd'
      BY <1>2, <2>1, <2>2 DEF AtTornEnd, ReaderSound
    <3>5. lost' \/ Done(h, Len(All))'
      BY <1>1, <2>1, <2>2 DEF Done
    <3>6. lost' => ~ writing' /\ pos' = size'
      BY <1>2, <2>1, <2>2 DEF ReaderSound
    <3>7. ReaderSound(h)'
      BY <2>2, <3>2, <3>3, <3>4, <3>5, <3>6 DEF ReaderSound
    <3> QED BY <1>1, <3>7
  <2>3. CASE r.kind = "error" /\ All' = given /\ call.list # << >> /\ lost'
    <3>1. Len(call.list) # 0 /\ Len(given) < Len(All)
      BY <1>3, <2>3, EmptySeq
    <3>2. InOrder(h, items, given) /\ ~ LastShort(h, items, given)
      <4>1. \A k \in 1 .. Len(given) : k \in 1 .. Len(All) /\ k # Len(All)
        BY <1>3, <3>1
      <4>2. \A k \in 1 .. Len(given) :
              /\ given[k].item = h + k
              /\ ~ (given[k].len < items[h + k].caplen)
        BY <1>3, <1>5, <4>1 DEF InOrder
      <4>3. h + Len(given) <= Len(items)
        BY <1>3, <1>5, <3>1, FileBounds DEF InOrder
      <4>4. Len(given) # 0 => Len(given) \in 1 .. Len(given)
        BY <1>3
      <4> QED BY <4>2, <4>3, <4>4 DEF InOrder, LastShort
    <3>3. InOrder(h, items', All') /\ ~ LastShort(h, items', All')
      BY <1>2, <2>3, <3>2
    <3>4. ~ writing' /\ pos' = size'
      BY <1>2, <2>1, <2>3
    <3>5. Standing(h, Len(All), pos)'
      BY <2>3, <3>4 DEF Standing
    <3>6. ReaderSound(h)'
      BY <2>3, <3>3, <3>4, <3>5 DEF ReaderSound
    <3> QED BY <1>1, <3>6
  <2> QED BY <1>7, <2>2, <2>3
<1> QED BY <1>6, <1>7
(* next() and a round of dispatch: a packet goes straight to the owner.    *)
LEMMA StraightSound ==
  ASSUME NEW h, FileSound(h), ReaderSound(h), reader = "open", call.op # "readpkts",
         FileUnchanged, UNCHANGED <<reader, lost>>,
         NEW r, r = ReadPacket(pos), pos' = r.pos, outcome' = r.kind,
         given' = IF r.kind = "packet" THEN given \o Handed(r) ELSE given,
         iters' \in [{"main", "loop"} -> {"live", "done"}],
         call' \in [op : {"none", "dispatch"}, left : {Unlimited} \cup 0 .. MaxCount,
                    list : { << >> }]
  PROVE  FileSound(h)' /\ ReaderSound(h)'
<1>1. call.list = << >> /\ call'.list = << >> /\ call'.op # "readpkts"
  BY DEF ReaderSound
<1>2. given \in Seq(Hand) /\ Len(All) \in Nat
  BY AllTyped DEF ReaderSound
<1>3. /\ r.kind \in {"packet", "eof", "error"}
      /\ r.kind = "packet" => Handed(r) \in Seq(Hand)
  BY <1>2, PosAnswer, AnswerTyped
<1>4. given' \in Seq(Hand)
  BY <1>2, <1>3, ConcatProperties
<1>5. All = given /\ All' = given'
  BY <1>1, <1>2, <1>4, ConcatEmptySeq DEF All
<1>6. ReaderTyped'
  <2>1. call' \in [op : {"none", "dispatch", "readpkts"},
                   left : {Unlimited} \cup 0 .. MaxCount, list : Seq(Hand)]
    <3>1. << >> \in Seq(Hand)
      OBVIOUS
    <3> QED BY <3>1
  <2>2. outcome' \in {"none", "packet", "eof", "error"}
    BY <1>3
  <2>3. reader' \in {"none", "open", "failed"} /\ lost' \in BOOLEAN
    BY DEF ReaderSound, ReaderTyped
  <2> QED BY <1>4, <2>1, <2>2, <2>3 DEF ReaderTyped
<1>7. /\ r.kind = "packet" => All' = All \o Handed(r) /\ lost' = lost
      /\ r.kind # "packet" => All' = All /\ lost' = lost
  BY <1>5
<1>8. reader' = reader
  OBVIOUS
<1> QED BY <1>1, <1>6, <1>7, <1>8, ReadSound

LEMMA NextFromSound ==
  ASSUME NEW h, FileSound(h), ReaderSound(h), NEW it \in {"main", "loop"},
         call.op # "readpkts", NextFrom(it)
  PROVE  FileSound(h)' /\ ReaderSound(h)'
<1> DEFINE r == ReadPacket(pos)
<1>1. /\ reader = "open" /\ FileUnchanged /\ UNCHANGED <<reader, lost>>
      /\ pos' = r.pos /\ outcome' = r.kind /\ call' = call
      /\ given' = IF r.kind = "packet" THEN given \o Handed(r) ELSE given
      /\ iters' = IF r.kind = "packet" THEN iters
                  ELSE [iters EXCEPT ![it] = "done"]
  BY DEF NextFrom, FileUnchanged
<1> HIDE DEF r
<1>2. iters' \in [{"main", "loop"} -> {"live", "done"}]
  BY <1>1 DEF ReaderSound, ReaderTyped
<1>3. call' \in [op : {"none", "dispatch"}, left : {Unlimited} \cup 0 .. MaxCount,
                 list : { << >> }]
  BY <1>1 DEF ReaderSound, ReaderTyped
<1> QED BY <1>1, <1>2, <1>3, StraightSound DEF r

LEMMA DispatchSound ==
  ASSUME NEW h, FileSound(h), ReaderSound(h), NEW raises \in BOOLEAN,
         DispatchRound(raises)
  PROVE  FileSound(h)' /\ ReaderSound(h)'
<1> DEFINE r == ReadPacket(pos)
           over == r.kind # "packet" \/ raises \/ call.left = 1
<1>1. /\ call.op = "dispatch" /\ FileUnchanged /\ UNCHANGED <<reader, lost, iters>>
      /\ pos' = r.pos /\ outcome' = r.kind
      /\ given' = IF r.kind = "packet" THEN given \o Handed(r) ELSE given
      /\ call' = IF over THEN NoCall
                 ELSE [call EXCEPT !.left = IF @ = Unlimited THEN @ ELSE @ - 1]
  BY DEF DispatchRound, FileUnchanged
<1>2. reader = "open"
  BY <1>1 DEF ReaderSound, NoCall
<1> HIDE DEF r
<1>3. iters' \in [{"main", "loop"} -> {"live", "done"}]
  BY <1>1 DEF ReaderSound, ReaderTyped
<1>4. call' \in [op : {"none", "dispatch"}, left : {Unlimited} \cup 0 .. MaxCount,
                 list : { << >> }]
  <2>1. MaxCount \in Nat
    BY FileAssumption
  <2>2. CASE over
    <3>1. NoCall \in [op : {"none", "dispatch"}, left : {Unlimited} \cup 0 .. MaxCount,
                      list : { << >> }]
      BY <2>1 DEF NoCall
    <3> QED BY <1>1, <2>2, <3>1
  <2>3. CASE ~ over
    <3>1. /\ call \in [op : {"none", "dispatch", "readpkts"},
                       left : {Unlimited} \cup 0 .. MaxCount, list : Seq(Hand)]
          /\ call.list = << >>
      BY <1>1 DEF ReaderSound, ReaderTyped
    <3>2. (IF call.left = Unlimited THEN call.left ELSE call.left - 1)
             \in {Unlimited} \cup 0 .. MaxCount
      BY <2>1, <3>1 DEF Unlimited
    <3> QED BY <1>1, <2>3, <3>1, <3>2
  <2> QED BY <2>2, <2>3
<1>5. call.op # "readpkts" /\ UNCHANGED <<reader, lost>>
  BY <1>1
<1> HIDE DEF over
<1> QED BY <1>1, <1>2, <1>3, <1>4, <1>5, StraightSound DEF r

LEMMA ReadPktsSound ==
  ASSUME NEW h, FileSound(h), ReaderSound(h), ReadPktsRound
  PROVE  FileSound(h)' /\ ReaderSound(h)'
<1> DEFINE r == ReadPacket(pos)
<1>1. /\ call.op = "readpkts" /\ FileUnchanged /\ UNCHANGED <<reader, iters>>
      /\ pos' = r.pos /\ outcome' = r.kind
      /\ call' = IF r.kind = "packet"
                   THEN [call EXCEPT !.list = @ \o Handed(r)] ELSE NoCall
      /\ given' = IF r.kind = "eof" THEN given \o call.list ELSE given
      /\ lost' = (lost \/ (r.kind = "error" /\ call.list # << >>))
  BY DEF ReadPktsRound, FileUnchanged
<1>2. reader = "open" /\ NoCall.list = << >> /\ NoCall.op = "none"
  BY <1>1 DEF ReaderSound, NoCall
<1>3. r.kind \in {"packet", "eof", "error"} /\ (r.kind = "packet" => Handed(r) \in Seq(Hand))
  BY <1>2, AllTyped, PosAnswer, AnswerTyped DEF ReaderSound
<1> HIDE DEF r
<1>4. /\ given \in Seq(Hand) /\ call.list \in Seq(Hand) /\ All = given \o call.list
      /\ call \in [op : {"none", "dispatch", "readpkts"},
                   left : {Unlimited} \cup 0 .. MaxCount, list : Seq(Hand)]
  BY AllTyped DEF ReaderSound, ReaderTyped, All
<1>5. lost \in BOOLEAN /\ lost' \in BOOLEAN
  BY <1>1 DEF ReaderSound, ReaderTyped
<1>6. call'.op # "readpkts" => call'.list = << >>
  BY <1>1, <1>2, <1>4
<1>7. given' \in Seq(Hand)
  BY <1>1, <1>4, ConcatProperties
<1>8. CASE r.kind = "packet"
  <2>1. /\ call' = [call EXCEPT !.list = call.list \o Handed(r)]
        /\ call.list \o Handed(r) \in Seq(Hand)
    BY <1>1, <1>3, <1>4, <1>8, ConcatProperties
  <2> DEFINE l == call.list \o Handed(r)
  <2>2. call' \in [op : {"none", "dispatch", "readpkts"},
                   left : {Unlimited} \cup 0 .. MaxCount, list : Seq(Hand)]
    <3>1. l \in Seq(Hand) /\ call' = [call EXCEPT !.list = l]
      BY <2>1
    <3> HIDE DEF l
    <3> QED BY <1>4, <3>1
  <2>3. call'.list = call.list \o Handed(r) /\ given' = given
    BY <1>1, <1>4, <1>8, <2>1
  <2>4. All' = All \o Handed(r)
    <3> DEFINE g == given
               m == call.list
               d == Handed(r)
    <3>1. g \in Seq(Hand) /\ m \in Seq(Hand) /\ d \in Seq(Hand)
      BY <1>3, <1>4, <1>8
    <3>2. All = g \o m /\ All' = g \o (m \o d)
      BY <1>4, <2>3 DEF All
    <3> HIDE DEF g, m, d
    <3>3. All' = All \o d
      BY <3>1, <3>2, ConcatAssociative
    <3> QED BY <3>3 DEF d
  <2>5. lost' = lost
    BY <1>1, <1>5, <1>8
  <2>6. ReaderTyped'
    BY <1>1, <1>3, <1>5, <1>7, <2>2 DEF ReaderSound, ReaderTyped
  <2> QED BY <1>1, <1>2, <1>6, <1>8, <2>4, <2>5, <2>6, ReadSound DEF r
<1>9. CASE r.kind # "packet"
  <2>1. call' = NoCall /\ call'.list = << >>
    BY <1>1, <1>2, <1>9
  <2>2. All' = given'
    BY <1>7, <2>1, ConcatEmptySeq DEF All
  <2>3. ReaderTyped'
    <3>1. call' \in [op : {"none", "dispatch", "readpkts"},
                     left : {Unlimited} \cup 0 .. MaxCount, list : Seq(Hand)]
      BY <2>1, FileAssumption DEF NoCall
    <3> QED BY <1>1, <1>3, <1>5, <1>7, <3>1 DEF ReaderSound, ReaderTyped
  <2>4. \/ All' = All /\ lost' = lost
        \/ r.kind = "error" /\ All' = given /\ call.list # << >> /\ lost'
    <3>1. CASE r.kind = "eof"
      BY <1>1, <1>4, <1>5, <2>2, <3>1
    <3>2. CASE r.kind = "error" /\ call.list = << >>
      <4>1. given \o call.list = given
        BY <1>4, <3>2, ConcatEmptySeq
      <4> QED BY <1>1, <1>4, <1>5, <2>2, <3>2, <4>1
    <3>3. CASE r.kind = "error" /\ call.list # << >>
      BY <1>1, <2>2, <3>3
    <3> QED BY <1>3, <1>9, <3>1, <3>2, <3>3
  <2> QED BY <1>1, <1>2, <1>6, <1>9, <2>3, <2>4, ReadSound DEF r
<1> QED BY <1>8, <1>9

LEMMA NextSound == IInv /\ [Next]_vars => IInv'
<1> SUFFICES ASSUME IInv, [Next]_vars PROVE IInv'
  OBVIOUS
<1>1. PICK h \in 1 .. 3 : FileSound(h) /\ ReaderSound(h)
  BY DEF IInv
<1>2. /\ reader \in {"none", "open", "failed"}
      /\ iters \in [{"main", "loop"} -> {"live", "done"}]
      /\ outcome \in {"none", "packet", "eof", "error"}
      /\ MaxCount \in Nat
  BY <1>1, FileAssumption DEF ReaderSound, ReaderTyped
<1>3. FileSound(h)' /\ ReaderSound(h)'
  <2>1. CASE Write
    BY <1>1, <2>1, WriteSound
  <2>2. ASSUME NEW universal \in BOOLEAN, Open(universal)
        PROVE  FileSound(h)' /\ ReaderSound(h)'
    BY <1>1, <2>2, OpenSound
  <2>3. ASSUME call.op # "readpkts", NEW it \in {"main", "loop"}, NextFrom(it)
        PROVE  FileSound(h)' /\ ReaderSound(h)'
    BY <1>1, <2>3, NextFromSound
  <2>4. CASE StartLoop
    <3>1. /\ FileUnchanged /\ UNCHANGED <<reader, pos, given, lost>>
          /\ iters' \in [{"main", "loop"} -> {"live", "done"}]
          /\ outcome' \in {"none", outcome} /\ call' = call
      BY <1>2, <2>4 DEF StartLoop, FileUnchanged
    <3> QED BY <1>1, <3>1, BeginSound
  <2>5. ASSUME NEW cnt \in 0 .. MaxCount, StartDispatch(cnt)
        PROVE  FileSound(h)' /\ ReaderSound(h)'
    <3>1. /\ FileUnchanged /\ UNCHANGED <<reader, pos, given, lost>>
          /\ iters' \in [{"main", "loop"} -> {"live", "done"}]
          /\ outcome' \in {"none", outcome} /\ reader = "open" /\ call = NoCall
          /\ call' = [op |-> "dispatch", left |-> IF cnt = 0 THEN Unlimited ELSE cnt,
                      list |-> << >>]
      BY <1>2, <2>5 DEF StartDispatch, FileUnchanged
    <3>2. call' \in [op : {"none", "dispatch", "readpkts"},
                     left : {Unlimited} \cup 0 .. MaxCount, list : { << >> }]
      BY <3>1
    <3> QED BY <1>1, <3>1, <3>2, BeginSound
  <2>6. ASSUME NEW raises \in BOOLEAN, DispatchRound(raises)
        PROVE  FileSound(h)' /\ ReaderSound(h)'
    BY <1>1, <2>6, DispatchSound
  <2>7. CASE StartReadPkts
    <3>1. /\ FileUnchanged /\ UNCHANGED <<reader, pos, given, lost>>
          /\ iters' \in [{"main", "loop"} -> {"live", "done"}]
          /\ outcome' \in {"none", outcome} /\ reader = "open" /\ call = NoCall
          /\ call' = [op |-> "readpkts", left |-> Unlimited, list |-> << >>]
      BY <1>2, <2>7 DEF StartReadPkts, FileUnchanged
    <3>2. call' \in [op : {"none", "dispatch", "readpkts"},
                     left : {Unlimited} \cup 0 .. MaxCount, list : { << >> }]
      BY <3>1
    <3> QED BY <1>1, <3>1, <3>2, BeginSound
  <2>8. CASE ReadPktsRound
    BY <1>1, <2>8, ReadPktsSound
  <2>9. CASE UNCHANGED vars
    <3>1. /\ FileUnchanged /\ UNCHANGED <<reader, pos, given, lost>>
          /\ iters' \in [{"main", "loop"} -> {"live", "done"}]
          /\ outcome' \in {"none", outcome} /\ call' = call
      BY <1>2, <2>9 DEF vars, FileUnchanged
    <3> QED BY <1>1, <3>1, BeginSound
  <2> QED BY <2>1, <2>2, <2>3, <2>4, <2>5, <2>6, <2>7, <2>8, <2>9
          DEF Next, Read, Callback
<1> QED BY <1>3 DEF IInv

LEMMA FileInvariant == Spec => []IInv
<1> QED BY InitSound, NextSound, PTL DEF Spec
-----------------------------------------------------------------------------
(* The file object of a reader never leaves the file, whatever the writer  *)
(* and the reader's callers do (pcap.Reader, pcapng.Reader, snoop.Reader). *)
THEOREM ReaderInRange == Spec => []TypeOK
<1>1. IInv => TypeOK
  <2> SUFFICES ASSUME IInv PROVE TypeOK
    OBVIOUS
  <2>1. PICK h \in 1 .. 3 : FileSound(h) /\ ReaderSound(h)
    BY DEF IInv
  <2>2. pos \in 0 .. size
    <3>1. /\ size \in Nat /\ h \in 1 .. 3 /\ h \in 1 .. Len(items) /\ Len(items) \in Nat
          /\ \A i \in 1 .. Len(items) : End(items, i) \in Nat
      BY <2>1, FileBounds
    <3>2. CASE reader = "open"
      <4>1. Standing(h, Len(All), pos) /\ h + Len(All) <= Len(items) /\ Len(All) \in Nat
        BY <2>1, <3>2, AllTyped DEF ReaderSound, InOrder
      <4>2. End(items, h + Len(All)) \in Nat /\ (h = 3 => End(items, 2) \in Nat)
        <5>1. h + Len(All) \in 1 .. Len(items) /\ (h = 3 => 2 \in 1 .. Len(items))
          BY <3>1, <4>1
        <5> QED BY <3>1, <5>1
      <4>3. pos \in Nat /\ pos <= size
        BY <3>1, <4>1, <4>2 DEF Standing
      <4> QED BY <3>1, <4>3
    <3>3. CASE reader # "open"
      BY <2>1, <3>1, <3>3 DEF ReaderSound
    <3> QED BY <3>2, <3>3
  <2>3. \A i \in 1 .. Len(items) : \A k \in 1 .. 2 : items[i].time[k] \in Nat
    <3>1. ASSUME NEW i \in 1 .. Len(items) PROVE items[i].time \in Nat \X Nat
      <4>1. items[i] \in Items
        BY <2>1, EndOf DEF FileSound, Chained
      <4> QED BY <4>1 DEF Items
    <3> QED BY <3>1
  <2>4. /\ reader \in {"none", "open", "failed"}
        /\ iters \in [{"main", "loop"} -> {"live", "done"}]
        /\ given \in Seq([item : Nat, len : Nat])
        /\ outcome \in {"none", "packet", "eof", "error"}
    BY <2>1 DEF ReaderSound, ReaderTyped, Hand
  <2>5. call.op \in {"none", "dispatch", "readpkts"} /\ call.left \in {Unlimited} \cup 0 .. MaxCount
    BY <2>1 DEF ReaderSound, ReaderTyped
  <2> QED BY <2>1, <2>2, <2>3, <2>4, <2>5 DEF FileSound, TypeOK
<1> QED BY <1>1, FileInvariant, PTL

(* The owner gets the packets in the order written, none twice and none    *)
(* skipped, however next(), for loops, dispatch and raising callbacks take *)
(* turns at the one position of the file object.                           *)
THEOREM OrderKept == Spec => []PacketsInOrder
<1>1. IInv => PacketsInOrder
  <2> SUFFICES ASSUME IInv,
                      NEW k \in 1 .. Len(given)
               PROVE  given[k].item = (Len(items) - Cardinality(Packets)) + k
    BY DEF PacketsInOrder
  <2>1. PICK h \in 1 .. 3 : FileSound(h) /\ ReaderSound(h)
    BY DEF IInv
  <2>2. Len(items) - Cardinality(Packets) = h
    <3>1. Cardinality(Packets) = Len(items) - h
      BY <2>1, PacketsAre DEF FileSound
    <3> QED BY <2>1, <3>1, FileBounds
  <2>3. /\ Len(given) \in Nat /\ Len(call.list) \in Nat
        /\ Len(All) = Len(given) + Len(call.list) /\ All[k] = given[k]
    BY <2>1, AllTyped DEF ReaderSound
  <2>4. k \in 1 .. Len(All)
    BY <2>3
  <2> QED BY <2>1, <2>2, <2>3, <2>4 DEF ReaderSound, InOrder
<1> QED BY <1>1, FileInvariant, PTL

(* A packet comes out cut short only as the last one of a file whose       *)
(* writer died (and never from pcapng, which raises NeedData).             *)
THEOREM CutOnlyAtEnd == Spec => []OnlyLastShort
<1>1. IInv => OnlyLastShort
  <2> SUFFICES ASSUME IInv,
                      NEW k \in 1 .. Len(given),
                      given[k].len < items[given[k].item].caplen
               PROVE  /\ k = Len(given) /\ pos = size
                      /\ ~ writing
                      /\ format # "pcapng"
    BY DEF OnlyLastShort
  <2>1. PICK h \in 1 .. 3 : FileSound(h) /\ ReaderSound(h)
    BY DEF IInv
  <2>2. /\ Len(given) \in Nat /\ Len(call.list) \in Nat
        /\ Len(All) = Len(given) + Len(call.list) /\ All[k] = given[k]
    BY <2>1, AllTyped DEF ReaderSound
  <2>3. k \in 1 .. Len(All) /\ k <= Len(given)
    BY <2>2
  <2>4. All[k].item = h + k /\ (All[k].len < items[h + k].caplen => k = Len(All))
    BY <2>1, <2>3 DEF ReaderSound, InOrder
  <2>5. k = Len(All) /\ All[k].len < items[h + k].caplen
    BY <2>2, <2>4
  <2>6. LastShort(h, items, All)
    BY <2>3, <2>5 DEF LastShort
  <2>7. AtTornEnd
    BY <2>1, <2>6 DEF ReaderSound
  <2>8. k = Len(given)
    BY <2>2, <2>3, <2>5
  <2> QED BY <2>7, <2>8 DEF AtTornEnd
<1> QED BY <1>1, FileInvariant, PTL

(* A reader ends, normally or with an error, only when every packet that   *)
(* is completely in the file was handed out: no other block in between and *)
(* no short read ends it.                                                  *)
THEOREM EndIsTheEnd == Spec => []EndMeansAllGiven
<1>1. IInv => EndMeansAllGiven
  <2> SUFFICES ASSUME IInv, reader = "open", outcome \in {"eof", "error"}, ~ lost,
                      NEW i \in Whole
               PROVE  i \in GivenItems
    BY DEF EndMeansAllGiven
  <2>1. PICK h \in 1 .. 3 : FileSound(h) /\ ReaderSound(h)
    BY DEF IInv
  <2>2. /\ Len(given) \in Nat /\ Len(call.list) \in Nat
        /\ Len(All) = Len(given) + Len(call.list)
        /\ \A k \in 1 .. Len(given) : All[k] = given[k]
        /\ \A k \in 1 .. Len(call.list) : All[Len(given) + k] = call.list[k]
    BY <2>1, AllTyped DEF ReaderSound
  <2>3. i \in h + 1 .. Len(items) /\ h \in Nat /\ Len(items) \in Nat
    BY <2>1, FileBounds
  <2>4. i <= h + Len(All)
    BY <2>1 DEF ReaderSound, Done
  <2> DEFINE k == i - h
  <2>5. k \in 1 .. Len(All) /\ h + k = i
    BY <2>2, <2>3, <2>4
  <2> HIDE DEF k
  <2>6. All[k].item = i
    BY <2>1, <2>5 DEF ReaderSound, InOrder
  <2>7. CASE k <= Len(given)
    <3>1. k \in 1 .. Len(given)
      BY <2>2, <2>5, <2>7
    <3>2. given[k].item = i
      BY <2>2, <2>6, <3>1
    <3> QED BY <3>1, <3>2, Zenon DEF GivenItems
  <2>8. CASE ~ (k <= Len(given))
    <3> DEFINE j == k - Len(given)
    <3>1. j \in 1 .. Len(call.list) /\ Len(given) + j = k
      BY <2>2, <2>5, <2>8
    <3> HIDE DEF j
    <3>2. call.list[j].item = i
      BY <2>2, <2>6, <3>1
    <3> QED BY <3>1, <3>2, Zenon DEF GivenItems
  <2> QED BY <2>7, <2>8
<1> QED BY <1>1, FileInvariant, PTL

(* The time of every record that was written, whole or not, reads back as  *)
(* a nearest one that the file's resolution has.                           *)
THEOREM TimesNear == Spec => []TimesSurvive
<1>1. IInv => TimesSurvive
  <2> SUFFICES ASSUME IInv, NEW i \in Packets
               PROVE  2 * Distance(TimeOf(items[i].time) * TicksPerUnit, items[i].ts)
                        <= TicksPerUnit
    BY DEF TimesSurvive
  <2>1. PICK h \in 1 .. 3 : FileSound(h)
    BY DEF IInv
  <2>2. i \in h + 1 .. Len(items)
    BY <2>1, PacketsAre DEF FileSound
  <2>3. Near(items[i].time, items[i].ts)
    BY <2>1, <2>2 DEF FileSound
  <2> QED BY <2>3 DEF Near
<1> QED BY <1>1, FileInvariant, PTL
=============================================================================
