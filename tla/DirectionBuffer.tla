--------------------------- MODULE DirectionBuffer ---------------------------
(***************************************************************************)
(* dpkt/stream.py, class DirectionBuffer: the reassembly buffer of one     *)
(* direction of a TCP connection, as operators over one record.            *)
(*                                                                         *)
(* The code keeps the out-of-order data in a list `segments' of            *)
(* (rel_seq, ack, data), sorted by rel_seq.  Every insertion ends by       *)
(* merging segments that overlap or touch, so the list is the list of      *)
(* maximal runs of the positions held.  Here it is the function from those *)
(* positions to bytes; its runs are the code's segments.  The stored ack   *)
(* is never read by the code and is left out.                              *)
(*                                                                         *)
(* Bytes are opaque but for Zero, the b'\x00' put into gaps.               *)
(***************************************************************************)
EXTENDS Integers, Sequences, FiniteSets

CONSTANT Zero  \* the byte b'\x00' that fills a gap

None == -1     \* the code's None for isn and fin_seq

NoBytes == << >>

(* DirectionBuffer.__init__ *)
NewBuffer ==
  [ isn            |-> None,
    next_seq       |-> 0,
    fin_seq        |-> None,
    syn_received   |-> FALSE,
    fin_received   |-> FALSE,
    contiguous     |-> NoBytes,
    segments       |-> NoBytes,
    total_buffered |-> 0 ]

(* A set of positions read in ascending order as bytes.                    *)
Slice(held, from, to) == [i \in 1 .. to - from |-> held[from + i - 1]]

(* The first position from `n' on that `held' has no byte for: where the   *)
(* run that covers n ends, and n itself when no run covers it.             *)
RunEnd(held, n) ==
  CHOOSE m \in n .. n + Cardinality(DOMAIN held) :
    /\ m \notin DOMAIN held
    /\ \A k \in n .. m - 1 : k \in DOMAIN held

(* Variant: the SYN flag is not recorded.                                  *)
FeedSynUnmarked(b, seq, payload) ==
  [b EXCEPT !.isn            = seq,
            !.next_seq       = 1 + Len(payload),
            !.contiguous     = @ \o payload,
            !.total_buffered = @ + Len(payload)]

(* SYN: the sequence space starts over, whatever was buffered stays.       *)
FeedSyn(b, seq, payload) ==
  [b EXCEPT !.isn            = seq,
            !.syn_received   = TRUE,
            !.next_seq       = 1 + Len(payload),
            !.contiguous     = @ \o payload,
            !.total_buffered = @ + Len(payload)]

MarkFin(b, seq, len) ==
  [b EXCEPT !.fin_seq = seq + len, !.fin_received = TRUE]

(* Variant: no cascade; held segments that now connect stay held.          *)
ExtendWithoutCascade(b, data) ==
  LET bytes == b.contiguous \o data
  IN  [b EXCEPT !.contiguous     = bytes,
                !.next_seq       = @ + Len(data),
                !.total_buffered = Len(bytes) + Cardinality(DOMAIN b.segments)]

(* Data at next_seq: append it, then every segment that it connects to.    *)
(* Segments that start at or before the new next_seq leave the list.       *)
Extend(b, data) ==
  LET joined == b.next_seq + Len(data)
      stop   == RunEnd(b.segments, joined)
      rest   == {p \in DOMAIN b.segments : p > stop}
      bytes  == b.contiguous \o data \o Slice(b.segments, joined, stop)
  IN  [b EXCEPT !.contiguous     = bytes,
                !.next_seq       = stop,
                !.segments       = [p \in rest |-> b.segments[p]],
                !.total_buffered = Len(bytes) + Cardinality(rest)]

(* Variant: total_buffered is not recalculated after overlaps are merged.  *)
InsertUncounted(b, start, data) ==
  LET new == start .. start + Len(data) - 1
  IN  [b EXCEPT !.segments = [p \in DOMAIN b.segments \cup new |->
                  IF p \in new THEN data[p - start + 1] ELSE b.segments[p]],
                !.total_buffered = @ + Len(data)]

(* Data beyond next_seq.  The stable sort and the overlay in the merge     *)
(* loop decide which copy of a byte survives: the segment that starts      *)
(* later, and the new one when both start together.  So an old byte at p   *)
(* survives exactly when its run starts after the new data does.           *)
InsertSegment(b, start, data) ==
  LET old     == b.segments
      new     == start .. start + Len(data) - 1
      OldWins(p) == /\ p \in DOMAIN old
                    /\ p \in new => \E q \in start .. p : q \notin DOMAIN old
      held    == [p \in DOMAIN old \cup new |->
                    IF OldWins(p) THEN old[p] ELSE data[p - start + 1]]
  IN  [b EXCEPT !.segments       = held,
                !.total_buffered = Len(b.contiguous)
                                     + Cardinality(DOMAIN held)]

(* Variant: the prefix already contiguous is not cut off.                  *)
PlaceUntrimmed(b, rel, payload) ==
  IF rel + Len(payload) <= b.next_seq THEN b
  ELSE IF rel <= b.next_seq THEN Extend(b, payload)
  ELSE InsertSegment(b, rel, payload)

(* Variant: the prefix is cut off, but rel_seq is not moved to next_seq.   *)
PlaceUnmoved(b, rel, payload) ==
  LET overlap == IF rel < b.next_seq THEN b.next_seq - rel ELSE 0
      data    == SubSeq(payload, overlap + 1, Len(payload))
  IN  IF rel + Len(payload) <= b.next_seq THEN b
      ELSE IF rel = b.next_seq THEN Extend(b, data)
      ELSE InsertSegment(b, rel, data)

(* Place payload at relative position rel: drop what is already contiguous *)
(* and either extend the contiguous bytes or keep the data for later.      *)
Place(b, rel, payload) ==
  LET overlap == IF rel < b.next_seq THEN b.next_seq - rel ELSE 0
      data    == SubSeq(payload, overlap + 1, Len(payload))
  IN  IF rel + Len(payload) <= b.next_seq THEN b
      ELSE IF rel <= b.next_seq THEN Extend(b, data)
      ELSE InsertSegment(b, rel, data)

(* DirectionBuffer.feed(seq, ack, payload, flags)                          *)
Feed(b, seq, payload, syn, fin) ==
  IF syn THEN FeedSyn(b, seq, payload)
  ELSE IF b.isn = None THEN b
  ELSE LET marked == IF fin THEN MarkFin(b, seq, Len(payload)) ELSE b
       IN  IF payload = NoBytes THEN marked
           ELSE Place(marked, seq - b.isn, payload)

(* Variant: bytes missing before the FIN are not looked for.               *)
IsCompleteAtFin(b) ==
  /\ b.fin_seq # None
  /\ b.syn_received /\ b.fin_received
  /\ DOMAIN b.segments = {}

(* is_complete *)
IsComplete(b) ==
  /\ b.fin_seq # None
  /\ b.syn_received /\ b.fin_received
  /\ b.next_seq >= b.fin_seq - b.isn
  /\ DOMAIN b.segments = {}
-----------------------------------------------------------------------------
(* The segments list: start and bytes of each run, in ascending order.     *)
RunStarts(held) == {p \in DOMAIN held : p - 1 \notin DOMAIN held}

RunAt(held, p) ==
  [rel_seq |-> p, data |-> Slice(held, p, RunEnd(held, p))]

(* What get_data(fill_gaps=True) appends for the runs from position pos    *)
(* on: one run after the other, each preceded by zeros for the gap.        *)
Zeros(n) == [i \in 1 .. n |-> Zero]

(* Variant: pos does not move over the gap that was filled.                *)
GapFilledStuck(segs, next_seq) ==
  LET f[i \in 0 .. Len(segs)] ==
        IF i = 0 THEN [pos |-> next_seq, out |-> NoBytes]
        ELSE LET before == f[i - 1]
                 seg    == segs[i]
                 gap    == IF seg.rel_seq > before.pos
                             THEN seg.rel_seq - before.pos ELSE 0
             IN  [pos |-> before.pos + Len(seg.data),
                  out |-> before.out \o Zeros(gap) \o seg.data]
  IN  f[Len(segs)].out

(* Variant: only the segment behind the first gap is appended.             *)
GapFilledOnce(segs, next_seq) ==
  IF segs = NoBytes THEN NoBytes
  ELSE Zeros(segs[1].rel_seq - next_seq) \o segs[1].data

GapFilled(segs, next_seq) ==
  LET f[i \in 0 .. Len(segs)] ==
        IF i = 0 THEN [pos |-> next_seq, out |-> NoBytes]
        ELSE LET before == f[i - 1]
                 seg    == segs[i]
                 gap    == IF seg.rel_seq > before.pos
                             THEN seg.rel_seq - before.pos ELSE 0
             IN  [pos |-> before.pos + gap + Len(seg.data),
                  out |-> before.out \o Zeros(gap) \o seg.data]
  IN  f[Len(segs)].out

Segments(held) ==
  LET starts == RunStarts(held)
      nth(i) == CHOOSE p \in starts :
                  Cardinality({q \in starts : q < p}) = i - 1
  IN  [i \in 1 .. Cardinality(starts) |-> RunAt(held, nth(i))]

(* DirectionBuffer.get_data(fill_gaps): the bytes returned ...             *)
DataOf(b, fill_gaps) ==
  IF fill_gaps
    THEN b.contiguous \o GapFilled(Segments(b.segments), b.next_seq)
    ELSE b.contiguous

Cleared(b) ==
  [b EXCEPT !.contiguous = NoBytes, !.segments = NoBytes,
            !.total_buffered = 0]

(* Variant: next_seq moves past the bytes that were flushed.               *)
AfterGetDataMoved(b, fill_gaps) ==
  IF fill_gaps
    THEN [Cleared(b) EXCEPT !.next_seq = @ + Len(GapFilled(Segments(b.segments), @))]
    ELSE [b EXCEPT !.contiguous     = NoBytes,
                   !.total_buffered = @ - Len(b.contiguous)]

(* ... and the buffer it leaves; next_seq stays as it is.                  *)
AfterGetData(b, fill_gaps) ==
  IF fill_gaps
    THEN Cleared(b)
    ELSE [b EXCEPT !.contiguous     = NoBytes,
                   !.total_buffered = @ - Len(b.contiguous)]
==============================================================================
