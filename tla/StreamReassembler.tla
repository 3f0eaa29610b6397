-------------------------- MODULE StreamReassembler --------------------------
(***************************************************************************)
(* dpkt/stream.py, class StreamReassembler: the table of connections, its  *)
(* eviction, and the delivery of reassembled bytes to callbacks, fed with  *)
(* a capture of several TCP connections in any order and with any losses   *)
(* and repetitions.                                                        *)
(*                                                                         *)
(* A flow <<src, dst>> is what endpoint src sends to dst: a stream of      *)
(* StreamLen bytes with initial sequence number 0, captured from its SYN   *)
(* on (DirectionCapture treats wrapping numbers and late SYN copies).  A   *)
(* byte is <<src, dst, position>>.                                         *)
(***************************************************************************)
EXTENDS Connection

CONSTANTS Flows,               \* pairs <<src, dst>> of endpoints captured
          StreamLen,           \* bytes src sends to dst in each flow
          max_connections,     \* constructor argument
          max_buffer_per_dir,  \* constructor argument
          output_mode,         \* constructor argument: "separate" or "merged"
          fill_gaps,           \* constructor argument
          MaxCallbacks,        \* bound: on_data calls
          MayRaise             \* whether a callback may raise an exception

ASSUME ReassemblerAssumption ==
  /\ Flows \subseteq (Nat \X Nat)
  /\ StreamLen \in Nat
  /\ max_connections \in Nat
  /\ max_buffer_per_dir \in Nat
  /\ output_mode \in {"separate", "merged"}
  /\ fill_gaps \in BOOLEAN
  /\ MaxCallbacks \in Nat
  /\ MayRaise \in BOOLEAN

(* The normalised key of a connection: smaller endpoint first.             *)
ConnId(a, b) == IF a <= b THEN <<a, b>> ELSE <<b, a>>

ConnIds == {ConnId(f[1], f[2]) : f \in Flows}

VARIABLES connections,  \* the dict, as the sequence of its values in order
          callbacks,    \* number of callbacks registered
          received,     \* bytes each callback was given for each connection
          seen,         \* positions of each flow captured since its SYN
          evicted       \* keys of connections evicted so far

vars == <<connections, callbacks, received, seen, evicted>>

Init ==
  /\ connections = << >>
  /\ callbacks = 0
  /\ received = [cb \in 1 .. MaxCallbacks |-> [id \in ConnIds |-> NoBytes]]
  /\ seen = [f \in Flows |-> {}]
  /\ evicted = {}
-----------------------------------------------------------------------------
Indices(conns) == 1 .. Len(conns)

Has(conns, id) == \E i \in Indices(conns) : conns[i].id = id

IndexOf(conns, id) == CHOOSE i \in Indices(conns) : conns[i].id = id

(* _evict_one *)
Drained(conn) ==
  /\ conn.c2s.contiguous = NoBytes /\ DOMAIN conn.c2s.segments = {}
  /\ conn.s2c.contiguous = NoBytes /\ DOMAIN conn.s2c.segments = {}

OutOfOrder(conn) ==
  (conn.c2s.total_buffered - Len(conn.c2s.contiguous))
    + (conn.s2c.total_buffered - Len(conn.s2c.contiguous))

First(S) == CHOOSE i \in S : \A j \in S : i <= j

(* Variant: the connection with most out-of-order bytes goes first.        *)
VictimWorst(conns) ==
  First({i \in Indices(conns) : \A j \in Indices(conns) :
           OutOfOrder(conns[i]) >= OutOfOrder(conns[j])})

(* Variant: of the open connections, the oldest goes.                      *)
VictimOldest(conns) ==
  LET closed == {i \in Indices(conns) : IsClosed(conns[i])}
  IN  First(IF closed # {} THEN closed ELSE Indices(conns))

Victim(conns) ==
  LET closed  == {i \in Indices(conns) : IsClosed(conns[i])}
      drained == {i \in closed : Drained(conns[i])}
      worst   == {i \in Indices(conns) : \A j \in Indices(conns) :
                    OutOfOrder(conns[i]) >= OutOfOrder(conns[j])}
  IN  First(IF drained # {} THEN drained
            ELSE IF closed # {} THEN closed ELSE worst)

Without(conns, i) == SubSeq(conns, 1, i - 1) \o SubSeq(conns, i + 1, Len(conns))

EvictOne(conns) ==
  IF conns = << >> THEN conns ELSE Without(conns, Victim(conns))

(* Variants: no lookup before a connection is added; eviction only beyond  *)
(* the limit.                                                              *)
AdmitAlways(conns, id) ==
  Append(IF Len(conns) >= max_connections THEN EvictOne(conns) ELSE conns,
         NewConnection(id))

AdmitLate(conns, id) ==
  IF Has(conns, id) THEN conns
  ELSE Append(IF Len(conns) > max_connections THEN EvictOne(conns) ELSE conns,
              NewConnection(id))

(* feed: look the connection up, making room for it when it is new.        *)
Admit(conns, id) ==
  IF Has(conns, id) THEN conns
  ELSE Append(IF Len(conns) >= max_connections THEN EvictOne(conns) ELSE conns,
              NewConnection(id))

(* feed: the data taken out of the connection, in the order of the calls   *)
(* a callback gets, and the connection that leaves.                        *)
Piece(data) == IF data = NoBytes THEN << >> ELSE << data >>

Output(conn) ==
  IF output_mode = "separate"
    THEN Piece(DataOf(conn.c2s, fill_gaps)) \o Piece(DataOf(conn.s2c, fill_gaps))
    ELSE Piece(MergedData(conn, fill_gaps))

(* Variant: only one direction is drained.                                 *)
AfterOutputOfC2s(conn) == [conn EXCEPT !.c2s = AfterGetData(@, fill_gaps)]

AfterOutput(conn) ==
  IF output_mode = "separate"
    THEN [conn EXCEPT !.c2s = AfterGetData(@, fill_gaps),
                      !.s2c = AfterGetData(@, fill_gaps)]
    ELSE AfterMergedData(conn)

(* feed: what the limit on a direction makes of its buffer.                *)
Limited(b) ==
  IF b.total_buffered > max_buffer_per_dir
    THEN AfterGetData(b, fill_gaps) ELSE b

AfterLimits(conn) == [conn EXCEPT !.c2s = Limited(@), !.s2c = Limited(@)]

(* The callbacks are called one after the other, each with every piece of  *)
(* `out'.  If call number `raised' raises, the calls after it are not made *)
(* (0: none raises).                                                       *)
PiecesGiven(cb, out, raised) ==
  LET before == (cb - 1) * Len(out)
  IN  IF raised = 0 \/ raised >= before + Len(out) THEN Len(out)
      ELSE IF raised > before THEN raised - before ELSE 0

Joined(out, n) ==
  IF n = 0 THEN NoBytes ELSE IF n = 1 THEN out[1] ELSE out[1] \o out[2]

(* StreamReassembler.feed(ip, tcp_pkt).  An exception leaves the           *)
(* connection drained and the limits unchecked.  (Bound by \E, `table' and *)
(* `fed' are computed once.)                                               *)
FeedPacket(src, dst, seq, payload, syn, fin) ==
  LET id == ConnId(src, dst)
  IN  \E table \in {Admit(connections, id)} :
  LET i == IndexOf(table, id)
  IN  \E fed \in {ConnectionFeed(table[i], src, seq, payload, syn, fin)} :
  LET out   == Output(fed)
      left  == AfterOutput(fed)
      calls == callbacks * Len(out)
  IN  \E raised \in 0 .. (IF MayRaise THEN calls ELSE 0) :
        /\ connections' = [table EXCEPT ![i] =
             IF raised = 0 THEN AfterLimits(left) ELSE left]
        /\ received' = [cb \in 1 .. MaxCallbacks |->
             IF cb > callbacks THEN received[cb]
             ELSE [received[cb] EXCEPT ![id] =
                     @ \o Joined(out, PiecesGiven(cb, out, raised))]]
        /\ evicted' = evicted \cup
             {c \in ConnIds : Has(connections, c) /\ ~ Has(table, c)}

BufferOf(src, dst) ==
  LET id == ConnId(src, dst)
      i  == IndexOf(connections, id)
  IN  IF Has(connections, id)
        THEN connections[i][DirectionFrom(connections[i], src)] ELSE NewBuffer

Byte(f, p) == <<f[1], f[2], p>>

Text(f, p, n) == [i \in 1 .. n |-> Byte(f, p + i - 1)]
-----------------------------------------------------------------------------
(* A captured SYN (its copies precede the data of its flow).               *)
Syn(f) ==
  /\ seen[f] = {}
  /\ FeedPacket(f[1], f[2], 0, NoBytes, TRUE, FALSE)
  /\ UNCHANGED <<callbacks, seen>>

(* A captured segment of n bytes from position p on; FIN on the last one.  *)
Data(f, p, n, fin) ==
  /\ p + n - 1 <= StreamLen
  /\ fin => p + n - 1 = StreamLen
  /\ FeedPacket(f[1], f[2], p, Text(f, p, n), FALSE, fin)
  /\ seen' = IF BufferOf(f[1], f[2]).isn = None THEN seen
             ELSE [seen EXCEPT ![f] = @ \cup p .. p + n - 1]
  /\ UNCHANGED callbacks

(* on_data(callback) *)
OnData ==
  /\ callbacks < MaxCallbacks
  /\ callbacks' = callbacks + 1
  /\ UNCHANGED <<connections, received, seen, evicted>>

Packet ==
  \/ \E f \in Flows : Syn(f)
  \/ \E f \in Flows, p \in 1 .. StreamLen + 1, n \in 0 .. StreamLen,
        fin \in BOOLEAN : Data(f, p, n, fin)

Next == Packet \/ OnData

Spec == Init /\ [][Next]_vars

(* The callbacks are registered before the first packet is fed.            *)
EarlyOnData == connections = << >> /\ OnData

SubscribedNext == EarlyOnData \/ (callbacks = MaxCallbacks /\ Packet)

SubscribedSpec == Init /\ [][SubscribedNext]_vars
-----------------------------------------------------------------------------
(* Where bytes of flow f stand in what a callback was given, and which.    *)
At(bytes, f) ==
  {i \in DOMAIN bytes : \E p \in 1 .. StreamLen : bytes[i] = Byte(f, p)}

Positions(bytes, f) == {bytes[i][3] : i \in At(bytes, f)}

Given(cb, f) == received[cb][ConnId(f[1], f[2])]

(* A buffer between two packets: nothing is ready, what is held lies       *)
(* beyond a gap inside the stream and is counted, the flags agree.         *)
AtRest(b) ==
  /\ b.isn \in {None, 0} /\ (b.syn_received <=> b.isn # None)
  /\ b.next_seq \in 0 .. StreamLen + 1 /\ (b.isn # None => b.next_seq >= 1)
  /\ b.fin_seq \in {None, StreamLen + 1} /\ (b.fin_received <=> b.fin_seq # None)
  /\ b.contiguous = NoBytes
  /\ DOMAIN b.segments \subseteq b.next_seq + 1 .. StreamLen
  /\ b.total_buffered = Cardinality(DOMAIN b.segments)

(* The table holds connections keyed by their normalised endpoints, each   *)
(* key once, both buffers of each are at rest between two packets, also    *)
(* when callbacks raise, and the counters and histories stay in range.     *)
TypeOK ==
  /\ \A i \in Indices(connections) :
       AtRest(connections[i].c2s) /\ AtRest(connections[i].s2c)
  /\ \A i \in Indices(connections) : connections[i].id \in ConnIds
  /\ \A i, j \in Indices(connections) :
       connections[i].id = connections[j].id => i = j
  /\ callbacks \in 0 .. MaxCallbacks
  /\ evicted \subseteq ConnIds
  /\ \A f \in Flows : seen[f] \subseteq 1 .. StreamLen

(* _evict_one makes room for every new connection: the table never grows   *)
(* beyond max_connections (beyond one, should that be zero).               *)
TableBound ==
  Len(connections) <= IF max_connections = 0 THEN 1 ELSE max_connections

(* A callback registered before the first packet gets, of each flow, the   *)
(* bytes 1, 2, ... in order and each once: whatever the order of packets,  *)
(* the interleaving of connections, and the connections evicted and        *)
(* created again in between.                                               *)
SubscriberGetsPrefix ==
  \A cb \in 1 .. callbacks, f \in Flows :
    LET g == Given(cb, f)
    IN  \A i \in At(g, f) :
          {g[j][3] : j \in {k \in At(g, f) : k < i}} = 1 .. g[i][3] - 1

(* Late subscribers and callbacks that raise: a callback may miss bytes,   *)
(* but is never given a byte of a flow again, nor an earlier one after a   *)
(* later one.                                                              *)
NeverGivenAgain ==
  \A cb \in 1 .. callbacks, f \in Flows :
    LET g == Given(cb, f)
    IN  \A i, j \in At(g, f) : i < j => g[i][3] < g[j][3]

(* Every captured byte of a flow whose buffer knows its SYN was given to   *)
(* the subscribers or is held beyond a real gap, whatever happens to the   *)
(* other connections of the table.                                         *)
GivenOrHeld ==
  \A cb \in 1 .. callbacks, f \in Flows :
    LET b   == BufferOf(f[1], f[2])
        got == Positions(Given(cb, f), f)
    IN  b.isn # None =>
          /\ seen[f] = got \cup DOMAIN b.segments
          /\ \E p \in 1 .. StreamLen + 1 : got = 1 .. p - 1 /\ p \notin seen[f]

(* max_buffer_per_dir is the most that one direction of a connection       *)
(* buffers between two packets.                                            *)
MemoryBounded ==
  \A i \in Indices(connections) :
    /\ connections[i].c2s.total_buffered <= max_buffer_per_dir
    /\ connections[i].s2c.total_buffered <= max_buffer_per_dir

(* A connection that is_closed calls closed, and which _evict_one may thus *)
(* drop first, has nothing left to give: both flows went out completely.   *)
ClosedMeansDelivered ==
  \A i \in Indices(connections), cb \in 1 .. callbacks :
    IsClosed(connections[i]) =>
      LET id == connections[i].id
      IN  /\ Drained(connections[i])
          /\ \A f \in {id, <<id[2], id[1]>>} :
               Positions(Given(cb, f), f) = 1 .. StreamLen

(* What may be dropped: a closed connection, or, when none is closed, one  *)
(* that holds as many bytes beyond a gap as any other in the table.        *)
MayGo(conns, i) ==
  \/ IsClosed(conns[i])
  \/ \A j \in Indices(conns) :
       ~ IsClosed(conns[j]) /\ OutOfOrder(conns[i]) >= OutOfOrder(conns[j])

(* Eviction happens only in a full table, takes one connection, never an   *)
(* open one while a closed one is in the table, and of the open ones one   *)
(* with most out-of-order bytes.                                           *)
EvictsClosedFirst ==
  LET gone == {i \in Indices(connections) :
                 ~ Has(connections', connections[i].id)}
  IN  gone # {} =>
        /\ Len(connections) >= max_connections
        /\ Cardinality(gone) = 1
        /\ \A i \in gone : MayGo(connections, i)

EvictionOrder == [][EvictsClosedFirst]_vars
==============================================================================
