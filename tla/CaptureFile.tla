----------------------------- MODULE CaptureFile -----------------------------
(***************************************************************************)
(* dpkt/pcap.py, dpkt/pcapng.py and dpkt/snoop.py: one capture file, the   *)
(* Writer that appends to it and may die in the middle of a write, and a   *)
(* Reader over one file object whose owner mixes next(reader), for loops,  *)
(* dispatch with callbacks that may raise, and readpkts, while the file    *)
(* still grows.                                                            *)
(*                                                                         *)
(* The file is the sequence `items' of headers, blocks and packet records  *)
(* written, of which the first `size' bytes are there.  Lengths are the    *)
(* code's; the contents of packets are left out.  A time is a number of    *)
(* ticks, TicksPerUnit of them in the unit (microsecond) files store.      *)
(***************************************************************************)
EXTENDS Integers, Sequences, FiniteSets

CONSTANTS Formats,       \* file formats considered
          CapLens,       \* lengths of captured packets
          Times,         \* times packets are captured at, in ticks
          TicksPerUnit,  \* resolution of the caller's clock
          UnitsPerSec,   \* resolution of the file: 10^6
          Word,          \* values of a 32-bit field: 2^32
          Cuts,          \* bound: bytes of its last write a dying writer left
          MaxPackets,    \* bound: packets written
          MaxCount       \* bound: largest cnt given to dispatch

ASSUME FileAssumption ==
  /\ Formats \subseteq {"pcap", "pcapng", "snoop"}
  /\ CapLens \subseteq Nat
  /\ Times \subseteq Nat
  /\ Cuts \subseteq Nat
  /\ {TicksPerUnit, UnitsPerSec, Word} \subseteq Nat \ {0}
  /\ MaxPackets \in Nat
  /\ MaxCount \in Nat

VARIABLES format,   \* the file's format
          items,    \* what was written, the last item perhaps only in part
          size,     \* bytes in the file
          writing,  \* the writer is alive
          reader,   \* "none", "open" or "failed"
          pos,      \* position of the file object
          iters,    \* the iterators made by iter(reader): "live" or "done"
          call,     \* the call of dispatch, loop or readpkts that is running
          given,    \* packets handed to the owner, in order
          lost,     \* readpkts raised and the packets it had read are gone
          outcome   \* of the last call: "none", "packet", "eof" or "error"

vars == <<format, items, size, writing, reader, pos, iters, call,
          given, lost, outcome>>

Unlimited == 0 - 1

NoCall == [op |-> "none", left |-> 0, list |-> << >>]

Least(a, b) == IF a <= b THEN a ELSE b

(* _align32b *)
Align(n) == 4 * ((n + 3) \div 4)
-----------------------------------------------------------------------------
(* Timestamps.  intround: to the nearest unit, ties to the even one.       *)
Round(ticks) ==
  LET q == ticks \div TicksPerUnit
      r == ticks % TicksPerUnit
  IN  IF 2 * r < TicksPerUnit \/ (2 * r = TicksPerUnit /\ q % 2 = 0)
        THEN q ELSE q + 1

TicksPerSec == TicksPerUnit * UnitsPerSec

(* pcap and snoop: the seconds, and the fraction rounded on its own.       *)
SecondsAndFraction(ts) == << ts \div TicksPerSec, Round(ts % TicksPerSec) >>

(* pcapng: the number of units, in two 32-bit halves.                      *)
HighAndLow(ts) == << Round(ts) \div Word, Round(ts) % Word >>

(* Variant: the fraction is cut off instead of rounded.                    *)
TimeFieldsTruncated(ts) ==
  LET units == ts \div TicksPerUnit
  IN  IF format = "pcapng"
        THEN << units \div Word, units % Word >>
        ELSE << units \div UnitsPerSec, units % UnitsPerSec >>

TimeFields(ts) ==
  IF format = "pcapng" THEN HighAndLow(ts) ELSE SecondsAndFraction(ts)

(* The time, in units, that a reader makes of them.                        *)
TimeOf(fields) ==
  IF format = "pcapng"
    THEN fields[1] * Word + fields[2]
    ELSE fields[1] * UnitsPerSec + fields[2]
-----------------------------------------------------------------------------
(* Writer.__init__: the file header, or the section header and one or two  *)
(* interface descriptions.                                                 *)
Item(kind, start, len, caplen, ts, fields) ==
  [kind |-> kind, start |-> start, len |-> len, caplen |-> caplen,
   ts |-> ts, time |-> fields]

Block(kind, start, len) == Item(kind, start, len, 0, 0, <<0, 0>>)

Headers(fmt) ==
  CASE fmt = "pcap"   -> { << Block("file", 0, 24) >> }
    [] fmt = "snoop"  -> { << Block("file", 0, 16) >> }
    [] fmt = "pcapng" -> { << Block("shb", 0, 28), Block("idb", 28, 20) >>,
                           << Block("shb", 0, 28), Block("idb", 28, 20),
                              Block("idb", 48, 20) >> }

(* Length of what comes before the packet's bytes in its record.           *)
HdrLen == [pcap |-> 16, snoop |-> 24, pcapng |-> 28]

(* writepkt_time: the record's total length, padding and trailer included. *)
PcapLen(caplen)  == HdrLen.pcap + caplen
SnoopLen(caplen) == HdrLen.snoop + Align(caplen)
BlockLen(caplen) == HdrLen.pcapng + Align(caplen) + 4

RecordLen(caplen) ==
  CASE format = "pcap"   -> PcapLen(caplen)
    [] format = "snoop"  -> SnoopLen(caplen)
    [] format = "pcapng" -> BlockLen(caplen)

Record(caplen, ts) ==
  Item("packet", size, RecordLen(caplen), caplen, ts, TimeFields(ts))

End(its, i) == its[i].start + its[i].len

(* The item that starts at a position (0: none does).                      *)
ItemAt(p) ==
  LET at == {i \in 1 .. Len(items) : items[i].start = p}
  IN  IF at = {} THEN 0 ELSE CHOOSE i \in at : TRUE

Packets == {i \in 1 .. Len(items) : items[i].kind = "packet"}

(* The packets that are in the file completely.                            *)
Whole == {i \in Packets : End(items, i) <= size}

Init ==
  /\ format \in Formats
  /\ items \in Headers(format)
  /\ \/ writing = TRUE  /\ size = End(items, Len(items))
     \/ writing = FALSE /\ size \in {n \in Cuts : n < End(items, Len(items))}
  /\ reader = "none"
  /\ pos = 0
  /\ iters = [it \in {"main", "loop"} |-> "done"]
  /\ call = NoCall
  /\ given = << >>
  /\ lost = FALSE
  /\ outcome = "none"

(* writepkt, one record of writepkts: a single write call per record.      *)
WritePkt(caplen, ts) ==
  /\ writing /\ Cardinality(Packets) < MaxPackets
  /\ TimeFields(ts)[1] < Word
  /\ items' = Append(items, Record(caplen, ts))
  /\ size' = size + RecordLen(caplen)
  /\ outcome' = "none"
  /\ UNCHANGED <<format, writing, reader, pos, iters, call, given, lost>>

(* The writer dies while it writes a record: n bytes of it get there.      *)
Die(caplen, ts, n) ==
  /\ writing /\ Cardinality(Packets) < MaxPackets
  /\ TimeFields(ts)[1] < Word
  /\ n < RecordLen(caplen)
  /\ items' = Append(items, Record(caplen, ts))
  /\ size' = size + n
  /\ writing' = FALSE
  /\ outcome' = "none"
  /\ UNCHANGED <<format, reader, pos, iters, call, given, lost>>
-----------------------------------------------------------------------------
(* Reader.__init__ on a new file object: whether the headers it needs are  *)
(* there.  pcapng needs the section header and an interface description.   *)
OpensPcap   == format = "pcap" /\ size >= 24
OpensSnoop  == format = "snoop" /\ size >= 16
OpensPcapng == format = "pcapng" /\ size >= 28 /\ size >= End(items, 2)

(* UniversalReader: pcap.Reader first, and when that raises ValueError     *)
(* (but not NeedData) pcapng.Reader from the start again.                  *)
OpensUniversal == OpensPcap \/ (size >= 24 /\ OpensPcapng)

Open(universal) ==
  /\ reader # "open"
  /\ LET ok == IF universal THEN OpensUniversal
               ELSE OpensPcap \/ OpensSnoop \/ OpensPcapng
     IN  /\ reader' = IF ok THEN "open" ELSE "failed"
         /\ pos' = IF ~ ok THEN 0
                   ELSE End(items, IF format = "pcapng" THEN 2 ELSE 1)
         /\ iters' = IF ok THEN [iters EXCEPT !["main"] = "live"] ELSE iters
         /\ outcome' = IF ok THEN "none" ELSE "error"
  /\ UNCHANGED <<format, items, size, writing, call, given, lost>>

(* What one read of a record gives: the outcome, the position after it     *)
(* and the packet (its item and how many of its bytes are returned).       *)
Result(kind, p, i, n) == [kind |-> kind, pos |-> p, item |-> i, len |-> n]

(* The bytes read after a record's header.                                 *)
PcapBody(i)  == items[i].caplen
SnoopBody(i) == items[i].len - HdrLen.snoop

(* Variants: the position moves by the length announced, not the length    *)
(* read; the padding of a snoop record is not read.                        *)
ReadRecordUnbounded(p) ==
  LET avail == size - p
      hdr   == HdrLen[format]
      i     == ItemAt(p)
  IN  IF avail = 0 THEN Result("eof", p, 0, 0)
      ELSE IF avail < hdr THEN Result("error", size, 0, 0)
      ELSE Result("packet", p + items[i].len, i, items[i].caplen)

ReadRecordUnpadded(p) ==
  LET avail == size - p
      hdr   == HdrLen[format]
      i     == ItemAt(p)
      took  == Least(items[i].caplen, avail - hdr)
  IN  IF avail = 0 THEN Result("eof", p, 0, 0)
      ELSE IF avail < hdr THEN Result("error", size, 0, 0)
      ELSE IF i = 0 THEN Result("packet", size, 0, 0)
      ELSE Result("packet", p + hdr + took, i, took)

(* pcap.Reader.__iter__ and snoop.Reader.__next__, one round.  No item     *)
(* starts at p only if an earlier read went wrong: bytes that are no       *)
(* record come out as one (item 0).                                        *)
ReadRecord(p) ==
  LET avail == size - p
      hdr   == HdrLen[format]
      i     == ItemAt(p)
      body  == IF format = "pcap" THEN PcapBody(i) ELSE SnoopBody(i)
      took  == Least(body, avail - hdr)
  IN  IF avail = 0 THEN Result("eof", p, 0, 0)
      ELSE IF avail < hdr THEN Result("error", size, 0, 0)
      ELSE IF i = 0 THEN Result("packet", size, 0, 0)
      ELSE Result("packet", p + hdr + took, i, Least(took, items[i].caplen))

(* pcapng.Reader.__iter__: blocks that are not packets are read over, up   *)
(* to the next packet block or the end.                                    *)
NextPacketBlock(p) ==
  LET later == {items[i].start : i \in {k \in Packets : items[k].start >= p}}
  IN  IF later = {} THEN size ELSE CHOOSE q \in later : \A r \in later : q <= r

(* Variant: the length of a packet block is not checked.                   *)
ReadBlockUnchecked(p) ==
  LET avail == size - p
      i     == ItemAt(p)
      took  == Least(avail, items[i].len)
  IN  IF avail < HdrLen.pcapng THEN Result("eof", size, 0, 0)
      ELSE Result("packet", p + took, i,
                  Least(took - HdrLen.pcapng, items[i].caplen))

(* A packet block that is cut off raises NeedData.                         *)
ReadBlock(p) ==
  LET avail == size - p
      i     == ItemAt(p)
  IN  IF avail < 8 THEN Result("eof", size, 0, 0)
      ELSE IF avail < items[i].len THEN Result("error", size, 0, 0)
      ELSE Result("packet", p + items[i].len, i, items[i].caplen)

(* Variant: any other block ends the iteration.                            *)
ReadPacketFirst(p) ==
  IF format = "pcapng"
    THEN IF ItemAt(p) \in Packets THEN ReadBlock(p) ELSE Result("eof", p, 0, 0)
    ELSE ReadRecord(p)

(* One packet, the end or an error from position p on.                     *)
ReadPacket(p) ==
  IF format = "pcapng" THEN ReadBlock(NextPacketBlock(p)) ELSE ReadRecord(p)

(* One step of an iterator: next(reader) or a round of a for loop.  A      *)
(* generator that has ended or raised is done for good; snoop's reader is  *)
(* its own iterator and just reads on.                                     *)
Handed(r) == << [item |-> r.item, len |-> r.len] >>

NextFrom(it) ==
  /\ reader = "open"
  /\ format # "snoop" => iters[it] = "live"
  /\ LET r == ReadPacket(pos)
     IN  /\ pos' = r.pos
         /\ outcome' = r.kind
         /\ given' = IF r.kind = "packet" THEN given \o Handed(r) ELSE given
         /\ iters' = IF r.kind = "packet" THEN iters
                     ELSE [iters EXCEPT ![it] = "done"]
  /\ UNCHANGED <<format, items, size, writing, reader, call, lost>>

(* for ts, buf in reader: a new generator over the same file position.     *)
StartLoop ==
  /\ reader = "open" /\ iters["loop"] = "done"
  /\ iters' = [iters EXCEPT !["loop"] = "live"]
  /\ outcome' = "none"
  /\ UNCHANGED <<format, items, size, writing, reader, pos, call, given, lost>>

(* dispatch(cnt, callback) and loop(callback), which is dispatch(0, ...).  *)
(* The callback may do anything before the next round, use the reader's    *)
(* other iterators for example.                                            *)
StartDispatch(cnt) ==
  /\ reader = "open" /\ call = NoCall
  /\ call' = [op |-> "dispatch", left |-> IF cnt = 0 THEN Unlimited ELSE cnt,
              list |-> << >>]
  /\ outcome' = "none"
  /\ UNCHANGED <<format, items, size, writing, reader, pos, iters, given, lost>>

(* Variant: dispatch takes its packets from the reader's own iterator.     *)
DispatchRoundMain(raises) ==
  /\ call.op = "dispatch"
  /\ LET r    == IF iters["main"] = "live" THEN ReadPacket(pos)
                 ELSE Result("none", pos, 0, 0)
         over == r.kind # "packet" \/ raises \/ call.left = 1
     IN  /\ raises => r.kind = "packet"
         /\ pos' = r.pos
         /\ outcome' = r.kind
         /\ given' = IF r.kind = "packet" THEN given \o Handed(r) ELSE given
         /\ call' = IF over THEN NoCall
                    ELSE [call EXCEPT !.left = IF @ = Unlimited THEN @ ELSE @ - 1]
  /\ UNCHANGED <<format, items, size, writing, reader, iters, lost>>

(* A round of dispatch, with a generator of its own: a packet goes to the  *)
(* callback, and the call ends at the end, with an error, when cnt packets *)
(* were processed or when the callback raises.                             *)
DispatchRound(raises) ==
  /\ call.op = "dispatch"
  /\ LET r    == ReadPacket(pos)
         over == r.kind # "packet" \/ raises \/ call.left = 1
     IN  /\ raises => r.kind = "packet"
         /\ pos' = r.pos
         /\ outcome' = r.kind
         /\ given' = IF r.kind = "packet" THEN given \o Handed(r) ELSE given
         /\ call' = IF over THEN NoCall
                    ELSE [call EXCEPT !.left = IF @ = Unlimited THEN @ ELSE @ - 1]
  /\ UNCHANGED <<format, items, size, writing, reader, iters, lost>>

(* readpkts: list(self).  When an error ends it nothing is returned, and   *)
(* the packets read so far are gone.                                       *)
StartReadPkts ==
  /\ reader = "open" /\ call = NoCall
  /\ call' = [op |-> "readpkts", left |-> Unlimited, list |-> << >>]
  /\ outcome' = "none"
  /\ UNCHANGED <<format, items, size, writing, reader, pos, iters, given, lost>>

ReadPktsRound ==
  /\ call.op = "readpkts"
  /\ LET r == ReadPacket(pos)
     IN  /\ pos' = r.pos
         /\ outcome' = r.kind
         /\ call' = IF r.kind = "packet"
                      THEN [call EXCEPT !.list = @ \o Handed(r)] ELSE NoCall
         /\ given' = IF r.kind = "eof" THEN given \o call.list ELSE given
         /\ lost' = (lost \/ (r.kind = "error" /\ call.list # << >>))
  /\ UNCHANGED <<format, items, size, writing, reader, iters>>
-----------------------------------------------------------------------------
Write ==
  \E caplen \in CapLens, ts \in Times :
    \/ WritePkt(caplen, ts)
    \/ \E n \in Cuts : Die(caplen, ts, n)

Callback == \E raises \in BOOLEAN : DispatchRound(raises)

Read ==
  \/ \E universal \in BOOLEAN : Open(universal)
  \/ call.op # "readpkts" /\ \E it \in {"main", "loop"} : NextFrom(it)
  \/ StartLoop
  \/ \E cnt \in 0 .. MaxCount : StartDispatch(cnt)
  \/ Callback
  \/ StartReadPkts
  \/ ReadPktsRound

Next == Write \/ Read

(* The owner opens the file with its own format's Reader, trying again     *)
(* while the headers are not there, keeps calling dispatch(1, f), and a    *)
(* call that has begun goes on.                                            *)
Polling ==
  /\ WF_vars(Open(FALSE))
  /\ WF_vars(StartDispatch(1))
  /\ WF_vars(Callback)
  /\ WF_vars(ReadPktsRound)

Spec == Init /\ [][Next]_vars /\ Polling
-----------------------------------------------------------------------------
(* The file object stays inside the file, and the reader's state in range. *)
TypeOK ==
  /\ format \in Formats
  /\ pos \in 0 .. size
  /\ \A i \in 1 .. Len(items) : \A k \in 1 .. 2 : items[i].time[k] \in Nat
  /\ reader \in {"none", "open", "failed"}
  /\ iters \in [{"main", "loop"} -> {"live", "done"}]
  /\ given \in Seq([item : Nat, len : Nat])
  /\ call.op \in {"none", "dispatch", "readpkts"}
  /\ call.left \in {Unlimited} \cup 0 .. MaxCount
  /\ outcome \in {"none", "packet", "eof", "error"}

(* However next(), for loops, dispatch and raising callbacks are mixed     *)
(* over the one file position, the owner gets the packets in the order     *)
(* written, none twice, none skipped, and no bytes that are not a packet.  *)
PacketsInOrder ==
  LET headers == Len(items) - Cardinality(Packets)
  IN  \A k \in 1 .. Len(given) : given[k].item = headers + k

(* A packet comes out shorter than captured only at the very end of the    *)
(* file of a writer that died, and never from pcapng, whose reader raises  *)
(* NeedData instead.                                                       *)
OnlyLastShort ==
  \A k \in 1 .. Len(given) :
    given[k].len < items[given[k].item].caplen =>
      /\ k = Len(given) /\ pos = size
      /\ ~ writing
      /\ format # "pcapng"

(* An iterator ends, normally or with NeedData, only when all the packets  *)
(* completely in the file have been handed out (or were in the list that   *)
(* readpkts threw away): a block or record in between never ends it.       *)
GivenItems ==
  {given[k].item : k \in 1 .. Len(given)}
    \cup {call.list[k].item : k \in 1 .. Len(call.list)}

EndMeansAllGiven ==
  reader = "open" /\ outcome \in {"eof", "error"} /\ ~ lost =>
    Whole \subseteq GivenItems

(* A time read back is the nearest the file's resolution has to the time   *)
(* given to writepkt, also when the fraction rounds up to a full second    *)
(* (which pcap and snoop store as a fraction of 10^6) and when the low     *)
(* word of a pcapng time overflows into the high one.                      *)
Distance(a, b) == IF a <= b THEN b - a ELSE a - b

TimesSurvive ==
  \A i \in Packets :
    2 * Distance(TimeOf(items[i].time) * TicksPerUnit, items[i].ts)
      <= TicksPerUnit

(* Every packet completely written is handed out in the end, when the      *)
(* owner keeps opening the file and calling dispatch(1, f).                *)
EventuallyGiven ==
  \A i \in 1 .. MaxPackets + 3 :
    i \in Whole ~> lost \/ \E k \in 1 .. Len(given) : given[k].item = i
==============================================================================
