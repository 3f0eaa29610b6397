# A TLA+ verification of dpkt_ng

dpkt_ng is a Python library that builds and parses network packets. It has two
layers, and they are hard for different reasons.

* The **analysis layer** (`dpkt/stream.py`, its users `filecarver.py` and
  `topology.py`, the line parsers of FTP, SMTP, POP3 and IMAP) and the capture files
  it reads from (`pcap.py`, `pcapng.py`, `snoop.py`) keep state over many calls:
  everything depends on the *order* of packets, calls, exceptions and writes.
* The **parsers**, about ninety modules of `dpkt.Packet` subclasses, keep nothing
  between calls but walk one buffer by lengths and counts found in it: everything
  depends on each class going on by exactly what its children took.

This project models both, model-checks them with TLC and proves what matters most
about the analysis layer with TLAPS, for every value of the constants.

## 1. Inventory

| Component | State | Operations | Used by | Correct when |
|---|---|---|---|---|
| `DirectionBuffer` (stream.py) | isn, next_seq, fin_seq, ready bytes, list of held segments, total_buffered | `feed`, `get_data`, `is_complete` | `Connection`, `StreamReassembler` | bytes come out in order, once, all of them; accounting exact; complete means complete |
| `Connection` (stream.py) | two direction buffers, endpoints | `feed`, `is_closed`, `merged_data` | `StreamReassembler` | merging keeps each direction's order and gaps |
| `StreamReassembler` (stream.py) | dict of connections, list of callbacks | `feed`, `feed_pcap(s)`, `on_data`, `find`, eviction | `FileCarver`, `TopologyBuilder`, applications | packets reach their connection, callbacks get prefixes, table bounded |
| `FileCarver` (filecarver.py) | a reassembler, `_streams`, `files` | `process_packet`, `carve`, `export_files` | applications | its map of connections agrees with the reassembler's; every stream still held is carved |
| `TopologyBuilder` (topology.py) | a reassembler, routers, links, prefixes | `process_packet`, `build`, the extractors | applications | every prefix has its router and every link a router at one end, also after an exception; the message loop ends |
| Capture files (pcap.py, pcapng.py, snoop.py) | file position, generators, interface data | `writepkt(s)`, `next`, iteration, `dispatch`, `readpkts`, opening | `feed_pcap`, applications | packets once and in order, also from a file cut off or still growing |
| Line parsers (ftp.py, smtp.py, pop3.py, imap.py) | buffer, reply begun, commands, replies, literal awaited | `feed` | applications, on what a reassembler delivers | the parse does not depend on how the stream was cut; no line lost; replies and literals whole |
| `Packet` (dpkt.py) | header fields, bit fields | construction, pack, unpack, `len`, `in_cksum` | all protocols | only `UnpackError` for a bad buffer; `len` is what `bytes` writes |
| Protocol parsers (the other modules) | none between calls | `unpack`, `__bytes__`, `__len__` | everything above and each other | every walk advances, ends, stays in its buffer and in the element it parses |

Interactions are calls: a reader yields packets to `feed_pcap`, which parses
Ethernet, IP and TCP and calls `feed`; `feed` calls the buffers and then the
callbacks the owner registered; `FileCarver` and `TopologyBuilder` own a reassembler,
register no callback and ask the connections for their data when `carve` or `build` is
called; a parser calls the parsers of its parts, cuts what they report off its buffer and
translates some of their exceptions. Nothing runs in threads. What is hard is that
packets of many connections interleave, segments arrive reordered, repeated and
overlapping, callbacks run in the middle of `feed` or `dispatch` and may raise,
connections are evicted between two packets, a capture file ends where its
writer died, a segment ends in the middle of a line or a literal, and lengths in
a packet disagree with each other and with the buffer. `PROJECT.json` lists these
hazards line by line.

## 2. The modules

### Streams, applications and files

| Module | What it is |
|---|---|
| `DirectionBuffer` | class DirectionBuffer as operators on a record (`Feed`, `DataOf`/`AfterGetData`, `IsComplete`) |
| `ByteStream` | what a direction promises: the owner sees a growing prefix of the sender's bytes |
| `DirectionCapture` | one sender's stream, captured with loss, reordering, overlap, repetition and differing copies, fed to a buffer whose owner reads at any time |
| `Connection` | class Connection as operators, with `merged_data` |
| `ConnectionMerge` | one connection fed from both sides, merged at any time |
| `StreamReassembler` | the table of connections, its eviction, the delivery to callbacks |
| `Consumers` | `FileCarver` and `TopologyBuilder`, each composed with `StreamReassembler` |
| `LineParsers` | the incremental FTP, SMTP, POP3 and IMAP parsers |
| `CaptureFile` | writer, file and reader of the three capture formats |
| `DirectionProofs` | theorems about `DirectionCapture`: any capture, orderly captures |
| `MergeProofs` | theorems about `ConnectionMerge` |
| `ReassemblerProofs` | theorems about `StreamReassembler`: the table, what callbacks are given |
| `ConsumerProofs` | theorems about `Consumers` |
| `CaptureFileProofs` | theorems about `CaptureFile` |
| `LineParserProofs` | theorems about `LineParsers` |
| `NaturalLemmas` | least and greatest elements, runs of positions, places in a sorted list: the induction the proofs share |

### Parsers

| Module | What it is |
|---|---|
| `Frames` | the building blocks: what one call of an `unpack` does to a buffer, and the promises classes make to their callers |
| `Layers` | Ethernet with tags and labels, LLC, SLL, PPP, PPPoE, ARP, IPX, AoE, IP, IPv6 and its extension headers, ICMP, IGMP, GRE, VXLAN, TCP and its options, UDP, SCTP |
| `BGP`, `OSPF`, `Routing` | BGP messages, attributes and routes; OSPF versions 2 and 3; IS-IS, EIGRP, RIP, PIM, VRRP, HSRP, MRT, the message loop of `TopologyBuilder.build`, ... |
| `Wireless` | 802.11 frames and information elements, radiotap |
| `Telephony` | RTP, RTCP, STUN, SCCP, TPKT, H.225, asn1, GTP, L2TP, RADIUS, Diameter, Netflow |
| `Services` | DNS, NetBIOS names and sessions, DHCP, TFTP, SMB, SMB2, RPC, the port mapper, NTP, STP, CDP, DTP, EDP |
| `Web` | SSL 2, TLS, HTTP/2, HTTP/3, QUIC, QPACK, gzip |
| `Messages` | HTTP and SIP messages, telnet options, IMAP lists, AIM, Yahoo, QQ, RFB, TNS, Rx |
| `LayersWalk`, `RoutingWalk`, `WirelessWalk`, `TelephonyWalk`, `ServicesWalk`, `WebWalk`, `MessagesWalk` | for each class its walk (`...Step`) and what it promises (`...Promise`) |
| `Walk` | the specification: one call of one parser, step by step, and the properties |
| `WalkProofs` | theorems about `Walk` and the 84 classes of `BGP`, `OSPF` and `Routing` |

The `MC...` modules are the instances TLC runs.

### How state and actions correspond to the code

* **Segments.** The code keeps the out-of-order data as a sorted list of
  `(rel_seq, ack, data)` and after each insertion merges what overlaps or touches.
  The list is therefore the list of maximal runs of a set of positions, and the
  model keeps the function from held positions to bytes; `Segments` turns it back
  into the list where the code walks it. Which copy of a byte survives an overlap is
  kept: the stable sort and the overlay let the segment win that starts later.
* **Bytes of a stream** carry their position in the sender's stream (and a version, so
  that differing retransmissions can be told apart), so "in order" and "in place" are
  statements about what the owner receives and not about the buffer's own numbers.
* **`DirectionCapture`** has an action for a captured SYN (with data or without), one
  for a captured segment (with FIN or without) and one for `get_data`. Its two
  specifications differ in what may be captured and called: `Spec` allows
  everything, `OrderlySpec` the uses for which delivery must be perfect (SYN before
  data, numbers do not wrap, no gap filling).
* **`StreamReassembler`**'s actions are whole calls of `feed`: lookup, eviction,
  direction, buffer, draining, callbacks, limits. The dict is a sequence, because
  eviction depends on its order. A callback may raise at any of its calls: the rest
  of `feed` is then skipped, with the data already drained. An endpoint is a number
  since the code only compares endpoints.
* **`Consumers`** runs the reassembler's own actions with no callback. The carver adds
  the entry of `_streams`, computed from the packet by its own code; `carve` and
  `build` pull from every connection. What they list is a set, since nothing depends
  on the order. Whether bytes hold a file or an update is left to choice. An extractor is one
  action that takes the items of a packet in order and stops at the first whose address
  conversion raises. How a router is named is kept: as a dotted address, as an integer or
  by its system id, whichever the line of code writes.
* **`LineParsers`** keeps the attributes of the parser objects. A line's content is one symbol that says
  what the parser's regular expressions and prefixes would find; carriage return
  and line feed are symbols of their own so that a cut may separate them. Segments are fed
  when the owner likes.
* **`CaptureFile`** keeps the items written and how many bytes of them are in the
  file. Lengths are those of the code's headers. `Die` cuts the last write anywhere
  in `Cuts`. A reader has its own iterator (`next(reader)`), the one of a `for`
  loop, and a running `dispatch` or `readpkts`; all share one file position. The
  rounds of `dispatch` are steps of their own, since the callback is the owner's
  code and may use the reader, and the writer may append meanwhile.
* **Frames.** A frame is one call of an `unpack` (with the `__init__` around it):
  the class, the bytes it was given (`n0`), the length of `self.data` now (`n`), what a
  counter or a length still asks for (`lim`), what `len()` and `bytes()` of the packet
  will be (`len`, `out`), the size the element declares for itself on the wire
  (`claim`), and where it is: at the start, in one of its loops, returned, or
  left with an exception. Bytes have no contents: a
  field read from the buffer is any value it can have, up to two more than what the
  buffer holds, which is where every comparison with a length changes. One step of
  `Walk` is the code between two rounds of a loop, so that
  a loop that does not advance is a step that changes nothing; such a frame is marked
  `endless` and never finishes.
* **Promises.** A class that parses a part does not walk into it: it takes the part's
  promise, every length the part may report for a buffer of that size and every
  exception it may raise. Each class named in a promise is itself walked and
  `KeepsPromise` and `OnlyDeclared` say that it keeps it, so the walks compose the way the calls do. The
  promises are `Whole` (reports all it was given), `Upto` (at most that), `Over` (up
  to a few bytes more), `Twice` (parts of the buffer counted twice), `Fixed`, and `Sizeless`
  (`len()` itself raises). What the code does beyond that is
  written down as a caveat: the exceptions other than `UnpackError` that leave the
  class, `uneven` (`bytes()` and `len()` may differ), `drifts` (`len()` may differ from
  the declared size), `unsized` (`len()` may raise). A class without a caveat
  has been checked to be free of that fault; the caveats are the list of divergences.
* Definitions whose comment says *Variant* are deliberately wrong forms of the
  definition after them. No specification uses them; each shows that a property
  notices the mistake it describes.

## 3. What TLC checks

Passing runs:

| Run | Question | Properties |
|---|---|---|
| `Direction_orderly` | Is reassembly perfect for a stream captured in any order? | `InOrder`, `NothingLost`, `CompleteIffAllSeen`, `FlushAligned`, `ImplementsByteStream` |
| `Direction_any` | What holds whatever is captured and called: late SYNs, wrap, an owner who flushes gaps in the middle of a capture and reads on? | `TypeOK`, `TotalBufferedExact`, `HeldInPlace`, `FlushLosesNothing` |
| `Merge_any` | Is `merged_data` an interleaving of the two directions? | `MergeKeepsAll`, `MergeFillsGaps`, `MergeTruncates` |
| `Reassembler_subscribed` | Do callbacks get every flow, with connections evicted and coming back, and does a full table evict the right connection: a closed one first, then one with most out-of-order bytes? | `SubscriberGetsPrefix`, `GivenOrHeld`, `ClosedMeansDelivered`, `EvictionOrder` |
| `Reassembler_raise` | What if callbacks come late or raise, with packets of two connections interleaved in the table? | `TypeOK`, `NeverGivenAgain` |
| `Consumers` | Do the carver's and the topology builder's own tables agree with the reassembler's and with each other, and does the table keep its bound? | `TableBound`, `StreamsFollowTable`, `EntriesHaveRouter` |
| `Files_polled` | Are files read right while they grow and when the writer died? | `TypeOK`, `PacketsInOrder`, `OnlyLastShort`, `EndMeansAllGiven`, `TimesSurvive`, `EventuallyGiven` |
| `Walks` | Does every parser end, advance by what it took, and raise only what is known of it? | `TypeOK`, `OnlyDeclared`, `BytesMatchLen`, `KeepsPromise`, `Aligned`, `Terminates` |
| `Lines_any` | Is the parse of a command stream independent of its cuts, complete, and are replies and literals whole? | `CutFree`, `NothingLost`, `NumberedFramed`, `PopFramed`, `LiteralsWhole` |

Runs that find the code at odds with its own documentation:

| Run | What the trace shows |
|---|---|
| `Reassembler_memory` | over `max_buffer_per_dir` only the ready bytes, already drained, are dropped, so held segments exceed it (stream.py:280); the design says "Max buffered bytes per direction" and "`max_buffer_per_dir` enforced" |
| `Consumers_carve` | `feed` drains both buffers on every packet, also when no callback is registered (stream.py:266), so the `get_data` calls of `carve` ("Extract files from all reassembled streams.", filecarver.py:108) and `build` (topology.py:106) return nothing; the README's `request = conn.c2s.get_data()` meets the same |
| `Lines_pop3` | a "+OK ..." line that ends a feed is reported as a whole reply (pop3.py:163) and the data lines that follow as commands; the plan `2026-06-04-fix-email.md`, Task 4, calls this critical and wants the flush removed |

### Divergences met while modelling, without a run of their own

Streams and files:

* `rel_seq = seq - isn` is not reduced modulo 2^32 (stream.py:50): after a wrap every
  byte has a negative position and is dropped as old, where the design
  (`2026-04-29-tcp-stream-reassembly-design.md:420`) says "Detect wrap by comparing with
  isn; handle gracefully"; `FlushLosesNothing` and `OrderlySpec` leave those bytes out;
* a SYN does not reset fin_seq and fin_received (stream.py:29): a new stream on the same
  ports, with a higher initial number, is complete before its first byte, where the test at
  stream.py:407 says "is_complete only when all bytes between SYN and FIN received.";
* after `get_data(fill_gaps=True)` next_seq still points before the bytes handed out, so
  their retransmission is handed out again (stream.py:115), where the test at stream.py:386
  says "Retransmitted/overlapping data is deduplicated."; merged mode with gap filling
  does the same. `FlushLosesNothing` is the other side of it: for that, nothing is lost;
* a SYN captured again after data sets next_seq back, so retransmitted data is
  delivered twice (`Direction_any` shows what survives this);
* `merged_data` never looks at acks although its docstring says "seq/ack causality"
  (stream.py:162); with `fill_gaps=False` it outputs the first item of a direction even
  when it lies beyond a gap (stream.py:207; `MergeTruncates` is stated for directions
  that have ready bytes); `c2s` is the direction from the smaller endpoint, not from
  the client;
* `dispatch` returns the number of packets processed, its docstring says 0 for a
  savefile; a generator that met the end of a growing file never yields again, so
  `next(reader)` stays at the end while `dispatch` goes on;
* `FileCarver.load_pcap` and `TopologyBuilder.load_pcap` in the README do not exist.

Applications and line parsers:

* an OSPF external route with a forwarding address and every RIP entry hand
  `inet_ntop` an integer: the first leaves `process_packet` with TypeError, RIP never
  gives a prefix; an OSPF router is entered by its dotted address and named in links by an
  integer (topology.py:159 and 164), so links and routers do not join, and the source of a
  network advertisement's link is a router that was not entered (`EntriesHaveRouter` asks
  for one end only); BGP prefixes are attributed to the lower endpoint;
* IMAP drops a line that ends in `{0}` and takes what follows a literal for a command
  (`NothingLost` excepts the former); text lines inside an FTP or SMTP multi-line
  reply become commands (`NumberedFramed` says so: a reply is its lines with a code).

Parsers (each is a caveat of the class in its `...Promise`):

* *exceptions that are not `UnpackError`*: classes that unpack without a `__hdr__`
  (BGP Update, OSPF LSU, the IS-IS PDUs, SMB1 commands, L2TP control, TLS, QUIC
  headers) turn a short buffer into AttributeError because the translation asks for
  `__hdr_len__`; EVPN routes, OSPFv3 advertisements, radiotap, RADIUS, GTP, DHCP,
  asn1 and MPLS index unchecked bytes (IndexError); `SSL3Exception` and
  `HTTP2Exception` are no `UnpackError`; HTTP with a repeated or bad
  content-length or transfer-encoding raises AttributeError, TypeError or ValueError;
* *`len` and `bytes` differ*: BGP routes whose prefix reaches beyond the buffer,
  `LSASummaryIP` (27 of 28 bytes), 802.11 and radiotap (fields left out of `len`), GTPv1
  (optional bytes counted twice), RPC calls (data written twice), Ethernet (labels
  counted with tags but only one of them written), PPP (second protocol byte not counted),
  several SMB2 requests, gzip (optional fields not counted), DNS (`len` packs again);
* *the next element starts at the wrong place*: ATOMIC_AGGREGATE with a length,
  bytes after BGP OPEN parameters, padding of Diameter attributes, RTCP extended
  reports (four bytes too far), IPv6 routing headers of odd length, FLAP (the length is
  ignored), asn1 with indefinite length (parsed twice), IPv6 after an
  authentication header (which keeps the rest, so that `len` counts it again at each
  level: the `Twice` promise holds at the sizes walked only).

### Bounds and why they are enough

A stream of five bytes with segments of up to
three has every relation of two runs and a new segment (before, touching,
overlapping either end, containing, bridging) and two differing copies of each byte.
Four bytes and a number space of 16 with an initial number of 13 put the wrap in the
middle of a stream; `MaxPulled` = 7 lets an owner flush all of it and then be given the
three bytes of the flushed gap. In `Reassembler_subscribed` three connections, two of them
captured in one direction only, share a table of two, so a packet of the third evicts one
of the others and evicted ones come back; whom to evict is chosen among open and closed
ones, with none, one or two bytes out of order. In `Reassembler_raise` two connections
share a table that holds both, and two callbacks show what a raising
first one does to the second. The five flows of `MCConsumers` belong to three connections over a table of two and have a
service on either side, on both, and a bgp speaker that is evicted; `MaxReports` = 2 packets of up to two items (an item that raises first, last, or
alone) and one call of `carve` or `build` (`MaxAsked`; two in `Consumers_carve`, so that
there is one after a pull). `MaxSymbols` = 12 makes four complete lines, or a literal, its line and two
lines after, in every cut into segments. Two packets of lengths 0 and 5 have no and some
padding; `Cuts` hits each part of a record in every format: nothing, a short block
header, a short record header, a header without data, part of the data, part of the
padding or trailer. Ten units to the second and four ticks to the unit include a tie
and a fraction that rounds to a full second; `Word` = 8 makes the low half of a
pcapng time overflow.

`MCSizes` gives each class every buffer size from none to its least size and `MCRoom`
more, which is room for two or three of its elements: a list is walked empty, with
one, with several and with one cut off. The classes that hand their payload to any
class (Ethernet, IP and what carries them) are given the sizes where their control changes.
Length and count fields take every value up to two beyond the buffer; a larger
value takes the same branches as those two. An OSPF update has up to three
advertisements and VRRP up to four addresses; these two bounds are in the modules.

**Fairness.** `CaptureFile`: the owner keeps opening the file and
calling `dispatch(1, f)`, and a call that has begun goes on (the code loops without
waiting for anything). `EventuallyGiven` is a promise to an owner who polls; the
library has no scheduler of its own. The writer is under no fairness and callbacks
may raise at every packet. `Walk`: weak fairness of its only action, since a parser is
sequential code that waits for nothing; `Terminates` then fails exactly if a
loop can come back to where it was or go on for ever. The other specifications are
safety only, as packets may stop coming at any time.

**Deadlock** is checked except where the system stops: a parser that has returned
(`Walks`), a stream of which all symbols have come (`Lines_any`, `Lines_pop3`), and applications at
their bounds (`Consumers`, `Consumers_carve`).

## 4. What is proved

The theorems hold for every value of the constants that the modules' named
assumptions admit (`CaptureAssumption`, `ReassemblerAssumption`,
`ConsumersAssumption`, `FileAssumption`, `LinesAssumption`, `MergeAssumption`: sizes
and bounds are naturals, sets of flows and modes are of the right kind, a sent byte of
`ConnectionMerge` can be told from a filled one). What a theorem assumes
beyond them is said below and stated in its `ASSUME`; nothing else is assumed.
`PROJECT.json` lists the theorems under "theorems".

**The buffer** (`DirectionProofs`), for every stream and
segment length, set of initial numbers, number of byte versions and size of the
number space:

* `BufferSound`, `BufferTyped`: `Spec => [](TypeOK /\ TotalBufferedExact)`. The
  buffer's types need its accounting: `get_data` subtracts the ready bytes from
  total_buffered, which stays a natural number only if the count is exact. The
  inductive invariant `Sound` is therefore the two together (the type says, too,
  that held positions lie in the stream). Its core are lemmas about `RunEnd`,
  `Extend`, `InsertSegment` and `Place` on arbitrary finite sets of positions.
* `BytesHeldInPlace`: `Spec => []HeldInPlace`, for streams shorter than the sequence
  space. The bound is needed: on a longer stream two bytes share a sequence number,
  and the later one is held in the earlier one's place.
* `OrderlyDelivery`, `OrderlyNothingLost`, `OrderlyCompletion`: `InOrder`,
  `NothingLost` and `CompleteIffAllSeen` under `OrderlySpec`. The invariant
  `Orderly` adds to `Sound` and the properties themselves that fin_seq, once set, is
  the end of the stream and that the sender's numbers do not wrap. `InOrder` speaks
  of the concatenation of what was handed out and what is ready, so the proof splits
  each index at the border, and an extension at the old end, the new data and the
  held run it reaches.
* `FlushedInPlace`: `OrderlySpec => []FlushAligned`: a flush at any moment would return
  the stream from where the owner is to the last captured byte, that byte included, with
  zeros for the missing ones only. Needs no more than `Orderly`,
  but the walk of `get_data(fill_gaps=True)` over the segments does: the i-th
  segment is the run with i - 1 starts below its own (`StartsAre`), segments follow
  one another with a gap between (`SegmentsInOrder`), and the walk's value after i
  segments is `Filled`, the held bytes up to the segment's end with zeros between
  (`WalkStep`, `GapFilledIs`: the closed form is exhibited, and a least index where
  the walk differs from it refuted).
* `OrderlyRefinement`: `OrderlySpec => ImplementsByteStream`. With the invariant,
  every step appends the next positions to what the owner can see or leaves it.

**A connection's merged data** (`MergeProofs`), for every stream length, segment size
and number of calls:

* `MergeInvariant`: `Spec => []MergeInv`: in both directions the ready bytes are a
  stretch of the sender's stream that ends at next_seq and each held byte lies beyond
  it at its own position, also after `merged_data` emptied the buffers. It is
  inductive as it stands, but says nothing of what `merged_data` returns.
* `MergeLosesNothing`, `MergeZerosAreGaps`, `MergeStopsAtGap`: `MergeKeepsAll`,
  `MergeFillsGaps` and `MergeTruncates` follow from it by an argument about one call.
  (1) The items of a direction are `InRow`: stretches in rising order, no two of which
  touch (`ItemsInRow`, from the lemmas about runs). (2) The sort gives each
  item one place, and the items of a direction keep their order in it (`OrderIs`,
  `MergedAre`; no two items have the same key). (3) After i rounds of the output loop
  (`AtRound`) each direction has passed its first c items, its expected position is
  the end of the last one (without filling: of the first one), what was output
  of it is what those items hold, and the length of the output is what both
  positions have moved over; a round passes the next item of one direction and leaves
  the other alone (`OwnRound`, `OtherRound`). (4) At the end all are passed
  (`LoopIs`), and the items' bytes are the bytes the buffer holds (`DatasAre`).

**The table of connections** (`ReassemblerProofs`), in every mode, with callbacks
that come late or raise:

* `TableTyped`, `TableBounded`, `EvictionOrdered`: `TypeOK`, `TableBound` and
  `EvictionOrder`. The inductive invariant `TableSound` says that keys are unique,
  the table is within its bound, and each buffer is settled: nothing ready, and a
  count that is the number of bytes held, which `TypeOK` states of the buffers in the table
  (`AtRest`). `EvictionOrder` says that no open connection goes while a closed one is there and
  that an open one that goes has most out-of-order bytes. It needs the counts of
  `TableSound`: only of naturals is one the greatest. Core lemmas: what `Without` removes, that
  `Admit` leaves out at most one connection and only from a full table, that
  `Victim` is an index.

**Delivery** (also `ReassemblerProofs`), for the default arguments of the constructor
(`Plain`: separate output, no gap filling), for every table size and limit on the
buffers:

* `NothingGivenAgain`: `Spec => []NeverGivenAgain`, with late and raising callbacks.
* `SubscriberInOrder`, `NothingWithheld`, `ClosedIsDelivered`:
  `SubscriberGetsPrefix`, `GivenOrHeld`, `ClosedMeansDelivered` under
  `SubscribedSpec`, for callbacks that do not raise. A callback that raises loses
  the bytes of that packet for the callbacks behind it (they were drained already),
  so the three are false without that assumption. The inductive invariant
  `DeliverySound(all)` relates, for each flow and callback, the buffer, the bytes
  given and the positions captured: between two packets a buffer is `Live`, that is,
  has no ready byte and holds a set of positions beyond a gap; what was given
  increases and lies before the gap; and (`all`) it is everything before the gap. It
  must also cover the evicted: a flow whose connection is gone has a new buffer and
  keeps its history, and gets nothing until its SYN, which comes before its data, so
  a connection that comes back never repeats a byte.

**The applications** (`ConsumerProofs`):

* `ApplicationsFollowSpec`: `AppSpec => Spec`: the two applications refine the
  reassembler's specification. The step to show is that what `carve` and `build` do
  to its connections outside `feed` changes none of them, which `TableSound` gives
  (buffers are drained between packets). `ApplicationsBounded` and
  `ApplicationsEvictionOrder` follow from it.
* `StreamsMatchTable`: the carver's map has exactly the connections in the table and
  the evicted ones, each with the protocol its ports say. Needs the evicted keys in
  the invariant, and that the protocol is the same seen from both ends.
* `EntriesOfRouters`: the router of every prefix and one end of every link is entered
  as a router of the protocol, wherever an extractor raised. (Not both ends: the
  links of a network advertisement start at routers that were not entered.)

**The capture files** (`CaptureFileProofs`), for every resolution, record length,
number of packets and point where the writer dies:

* `ReaderInRange`, `OrderKept`, `CutOnlyAtEnd`, `EndIsTheEnd`, `TimesNear`:
  `TypeOK`, `PacketsInOrder`, `OnlyLastShort`, `EndMeansAllGiven` and
  `TimesSurvive`. The inductive invariant `IInv` has two halves. `FileSound(h)`: the
  file is a chain of items, the first h of which are no packets, complete while the
  writer lives and cut in the last item at most. `ReaderSound(h)`: the reader stands
  at the border behind the item it handed out last, or at the torn end, or behind
  the header blocks, whichever of its ways of reading moved it; a short packet was
  the last; an end was met only when all whole packets were out.

**The line parsers** (`LineParserProofs`), for every stream and every cut:

* `CutsMakeNoDifference`: `Spec => []CutFree`. `CutFree` compares the parser with
  one that is fed everything so far at once, so the inductive step needs that
  feeding x and then y is feeding x followed by y (`TwoFeedsAreOne`), for parsers
  whose awaited literal belongs to a line (`Good`). That rests on two facts about
  one round of the loop: a line end found in a buffer is found in a longer one
  (`LineEndKept`), and the handler does not look at the buffer behind its line.
* `RepliesAreFramed`: `Spec => []EndedOnce`, the part of `NumberedFramed` that says where
  FTP and SMTP replies end. The invariant adds what has been begun: none of the lines kept
  for the reply under way is one that ends it.
* `EveryLineKept`: `Spec => []NothingLost`. The invariant `Stored` splits what was fed
  at a position n: the buffer is the rest behind n, the parser's lines hold what was
  wanted of the first n bytes, each byte in lines of one content only, and commands,
  replies and the reply begun start in rising order. A round moves n over one line or
  literal (`LineStepKeeps`, `LiteralKeeps`), a feed leaves n alone (`FedStored`). Two
  facts about the stream itself are needed, both from the guards of `Arrive`: a
  symbol's position is its place, and a line that ends in {0} has no other content, so
  that dropping it drops nothing else (`OnlyLit`).

**The routing parsers** (`WalkProofs`), for buffers of every length, where TLC walks
those of a header and two or three elements:

* `RoutingStaysInside`, `RoutingRaisesOnlyDeclared`, `RoutingKeepsPromises`,
  `RoutingBytesMatchLen`, `RoutingAligned`: `Spec => [](f.cls \in RoutingClasses => P)`
  for the five invariants of `Walk` and the 84 classes of BGP, OSPF, IS-IS, EIGRP, RIP, MRT,
  PIM, HSRP and VRRP, with the message loop of `TopologyBuilder.build`.
* `Walk` takes the promises and the steps of the classes as constants. The
  hypothesis `RoutingWalked` gives these constants their values for the routing classes:
  promises and steps are those of `RoutingWalk`, sizes are naturals. Of other classes
  walked beside them it asks only that a step leaves a frame of the same class. `MCWalk`
  is such an instance: its step is `RoutingStep` on classes that are not in
  `LayersClasses`, every step of `Frames` and the families is an EXCEPT of the
  frame, and TLC evaluates the rest (`MCRoutingTable`).
* The argument is modular, like the calls: a class uses the promises of the classes
  it hands data to (`Relied`, and `Owes` for its own) and never their steps. That is no
  circle, since the promise is proved of each class in turn with the same
  table; a frame for one call ends before its caller goes on.
* The invariant is `WalkInv`. Its core is `Going`, what holds of a frame in the middle
  of a walk, class by class and loop by loop: mostly `Within(g, low)`, that what was taken
  and what is left lie within the buffer, that at least the bytes of the header were
  taken, and that the size overshoots the buffer by at most what the promise grants, which
  can happen only when nothing is left. Three loops need something else. Withdrawn BGP
  routes may each run past the end of an empty buffer, so only `Past` holds in
  that loop; the two bytes of the next length, which must still be there, rule out that any
  did. Each advertisement of an OSPF update may report eight bytes more than it was cut
  to, so the bound depends on the counter. The attributes of an MRT table dump
  are not counted at all, and the invariant is about the data instead.
* "Every length" is said of the buffer. What a class may read from it is as in the runs: a length
  field is at most two more than what is left, an OSPF update has at most three
  advertisements of the lengths listed in `Advertisement`, VRRP at most four addresses.
  The promises of these two (up to 24 and 16 bytes more than the buffer) depend on that bound.
* The proof has a lemma for each operator of `Frames` that the families use (`Take`,
  `Hold`, `Cut`, `Element`, `Inner`, `Tlv`, `Items`, ...), one for each class or group of
  classes (`BGPUpdateRight`, `ISISValueRight`, ...), and one that puts them together
  (`RoutingStepRight`).

**Only model-checked.**

* `Walk`'s five invariants for the other families (`Layers`, `Wireless`, `Telephony`,
  `Services`, `Web`, `Messages`). The lemmas about `Frames` would serve there too, but
  each class needs its own loop invariants, and the `Twice` promises of `Layers` hold at the
  sizes walked only.
* `FlushLosesNothing`, `PopFramed`, `LiteralsWhole` and the second half of
  `NumberedFramed`, which lines a reply has.
* `EventuallyGiven` and `Terminates`: liveness under fairness, which needs ENABLED.
* The properties of the runs that expect a violation, which are false.

## 5. Plan

1. *Done:* buffer, connection, reassembler, capture files; `FileCarver` and
   `TopologyBuilder` composed with `StreamReassembler`; the line parsers; the walks
   of all parsers.
2. *Done:* theorems about the buffer, merging, the table, delivery, the applications, the
   files, the line parsers and the walks of the routing protocols.
3. Theorems left: `FlushLosesNothing`; the walks of the other families, with the lemmas of `WalkProofs`.
   `Frames`, `Walk` and the family modules declare no RECURSIVE operator so that this
   is possible.
4. `Packet` (dpkt.py): header and bit-field packing as inverse functions, `in_cksum`
   with its carry folding; pcapng options and interfaces (resolution, offset).

## 6. What is not modelled

* Formatting, `repr`, logging, the constant tables (link types, cipher suites, status
  codes), Python 2 compatibility and address formatting (`compat.py`, `utils.py`,
  `crc32c.py`: pure functions without control flow).
* The contents of packets beyond their lengths; bit fields, `in_cksum` and the
  checksums; `pprint`. Setters that only change a bit field. Packing is followed as far
  as its length.
* `feed_pcap` and `_process_packet` only filter what reaches `feed` and are represented
  by the packets fed. `find` and the container methods of the reassembler only read.
  The ack stored with a segment and `client_isn`/`server_isn` are never read by the
  code.
* What a stream must look like to hold a file (`MIMEParser`, the FTP, HTTP and SMB
  content checks) and the export to disk or JSON, which are string processing and
  I/O without state; areas of `TopologyBuilder`, which the code never fills.
* Fields of a single FTP, SMTP, POP3 or IMAP command or reply, `FTPDataParser`.
* Packing of DNS names with compression; RTCP's `addInfo`, `addReport` and `addData`.
* QUIC keys and decryption, gzip's `compress` and `decompress`: cryptography and a
  compression library.
* In the capture files: byte order and magic variants (the same control with other
  constants), block options, the resolution and offset of further interfaces, and files that
  no `Writer` of the library wrote. Floating point error of times is left out: times are
  exact multiples of a tick.
