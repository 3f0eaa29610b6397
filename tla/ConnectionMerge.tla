--------------------------- MODULE ConnectionMerge ---------------------------
(***************************************************************************)
(* One Connection (dpkt/stream.py) used directly: packets of both          *)
(* directions go in through Connection.feed in any order, and the owner    *)
(* calls merged_data whenever it likes.  Endpoint 1 is the connection's    *)
(* source, 2 its destination; both use initial sequence number 0.  A byte  *)
(* is <<sender, position>>.                                                *)
(***************************************************************************)
EXTENDS Connection, SequencesExt

CONSTANTS StreamLen,  \* bytes each side sends
          MaxSegment, \* longest payload
          MaxMerges   \* bound: merged_data calls

ASSUME MergeAssumption ==
  /\ StreamLen \in Nat /\ MaxSegment \in Nat /\ MaxMerges \in Nat
  /\ Zero \notin {1, 2} \X Nat  \* a byte sent can be told from a filled one

VARIABLES conn,    \* the Connection
          merges   \* merged_data calls so far

vars == <<conn, merges>>

Senders == {1, 2}

BufferOf(s) == conn[DirectionFrom(conn, s)]

Text(s, p, n) == [i \in 1 .. n |-> <<s, p + i - 1>>]

Init ==
  /\ conn = NewConnection(<<1, 2>>)
  /\ merges = 0

Syn(s) ==
  /\ BufferOf(s).isn = None
  /\ conn' = ConnectionFeed(conn, s, 0, NoBytes, TRUE, FALSE)
  /\ UNCHANGED merges

(* A segment of n bytes from position p of what s sends.                   *)
Data(s, p, n) ==
  /\ p + n - 1 <= StreamLen
  /\ BufferOf(s).isn # None
  /\ conn' = ConnectionFeed(conn, s, p, Text(s, p, n), FALSE, FALSE)
  /\ UNCHANGED merges

Merge(fill_gaps) ==
  /\ merges < MaxMerges
  /\ MergedData(conn, fill_gaps) # NoBytes
  /\ conn' = AfterMergedData(conn)
  /\ merges' = merges + 1

Next ==
  \/ \E s \in Senders : Syn(s)
  \/ \E s \in Senders, p \in 1 .. StreamLen, n \in 1 .. MaxSegment : Data(s, p, n)
  \/ \E fill_gaps \in BOOLEAN : Merge(fill_gaps)

Spec == Init /\ [][Next]_vars
-----------------------------------------------------------------------------
(* The bytes of sender s in a merged output.                               *)
Of(out, s) ==
  FlattenSeq([i \in DOMAIN out |->
    IF out[i] # Zero /\ out[i][1] = s THEN <<out[i]>> ELSE NoBytes])

(* The bytes a direction holds: ready ones, then the segments' in order.   *)
HeldBy(s) ==
  LET segs == Segments(BufferOf(s).segments)
  IN  BufferOf(s).contiguous \o FlattenSeq([i \in DOMAIN segs |-> segs[i].data])

(* merged_data(fill_gaps=True) is an interleaving: each direction's held   *)
(* bytes all come out, in their own order, whatever the other side holds.  *)
MergeKeepsAll ==
  \A s \in Senders : Of(MergedData(conn, TRUE), s) = HeldBy(s)

(* ... and the zeros it puts in are exactly the positions missing between  *)
(* a direction's first and last held byte.                                 *)
Span(s) ==
  LET h == HeldBy(s)
  IN  IF h = NoBytes THEN 0 ELSE h[Len(h)][2] - h[1][2] + 1

MergeFillsGaps ==
  Len(MergedData(conn, TRUE)) = Span(1) + Span(2)

(* merged_data(fill_gaps=False) gives the contiguous bytes of a direction  *)
(* and nothing beyond the gap, as long as some bytes are contiguous.       *)
MergeTruncates ==
  \A s \in Senders :
    BufferOf(s).contiguous # NoBytes =>
      Of(MergedData(conn, FALSE), s) = BufferOf(s).contiguous
==============================================================================
