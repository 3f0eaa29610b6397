----------------------------- MODULE Connection -----------------------------
(***************************************************************************)
(* dpkt/stream.py, class Connection: the two direction buffers of one TCP  *)
(* connection and merged_data, as operators over one record.               *)
(*                                                                         *)
(* An endpoint, (ip, port) in the code, is a natural number: all the code  *)
(* does with endpoints is compare them.  id is the pair of endpoints,      *)
(* smaller one first; c2s holds what the first one sends.  client_isn and  *)
(* server_isn are never written by the code and are left out.              *)
(***************************************************************************)
EXTENDS DirectionBuffer

Directions == {"c2s", "s2c"}

(* Connection.__init__ *)
NewConnection(id) == [id |-> id, c2s |-> NewBuffer, s2c |-> NewBuffer]

(* Variant: one direction complete is taken for both.                      *)
IsHalfClosed(conn) == IsComplete(conn.c2s) \/ IsComplete(conn.s2c)

IsClosed(conn) == IsComplete(conn.c2s) /\ IsComplete(conn.s2c)

DirectionFrom(conn, src) == IF src = conn.id[1] THEN "c2s" ELSE "s2c"

(* Connection.feed, and the same dispatch in StreamReassembler.feed.       *)
ConnectionFeed(conn, src, seq, payload, syn, fin) ==
  [conn EXCEPT ![DirectionFrom(conn, src)] = Feed(@, seq, payload, syn, fin)]
-----------------------------------------------------------------------------
(* merged_data: the contiguous bytes and the segments of one direction ... *)
Items(b, dir) ==
  LET segs == Segments(b.segments)
  IN  (IF b.contiguous = NoBytes THEN << >>
       ELSE << [dir |-> dir, rel_seq |-> b.next_seq - Len(b.contiguous),
                ready |-> TRUE, data |-> b.contiguous] >>)
      \o [i \in 1 .. Len(segs) |->
            [dir |-> dir, rel_seq |-> segs[i].rel_seq,
             ready |-> FALSE, data |-> segs[i].data]]

(* ... and the order in which the items of both are output.  The sort is   *)
(* stable and the contiguous item was put into the list first, so no two   *)
(* items are left in doubt: the k-th output has k - 1 items before it.     *)
Before(x, y) ==
  \/ x.rel_seq < y.rel_seq
  \/ /\ x.rel_seq = y.rel_seq
     /\ \/ x.dir = "c2s" /\ y.dir = "s2c"
        \/ x.dir = y.dir /\ x.ready /\ ~ y.ready

MergedItems(conn) ==
  LET items     == Items(conn.c2s, "c2s") \o Items(conn.s2c, "s2c")
      Earlier(i) == {j \in DOMAIN items : Before(items[j], items[i])}
  IN  [k \in DOMAIN items |->
         items[CHOOSE i \in DOMAIN items : Cardinality(Earlier(i)) = k - 1]]

(* Variants of the loop body below: one expected position for both         *)
(* directions; the position not moved past the data; gaps let through.     *)
MergeItemShared(st, item, fill_gaps) ==
  LET pos     == st.pos[item.dir]
      gap     == IF pos # None /\ item.rel_seq > pos
                   THEN item.rel_seq - pos ELSE 0
      overlap == IF pos # None /\ pos > item.rel_seq
                   THEN pos - item.rel_seq ELSE 0
      end     == item.rel_seq + Len(item.data)
  IN  IF gap > 0 /\ ~ fill_gaps THEN st
      ELSE [out |-> st.out \o Zeros(gap)
                      \o SubSeq(item.data, overlap + 1, Len(item.data)),
            pos |-> [dir \in Directions |-> end]]

MergeItemStuck(st, item, fill_gaps) ==
  LET pos == st.pos[item.dir]
      gap == IF pos # None /\ item.rel_seq > pos
               THEN item.rel_seq - pos ELSE 0
  IN  IF gap > 0 /\ ~ fill_gaps THEN st
      ELSE [out |-> st.out \o Zeros(gap) \o item.data,
            pos |-> [st.pos EXCEPT ![item.dir] = item.rel_seq]]

MergeItemUntruncated(st, item, fill_gaps) ==
  [out |-> st.out \o item.data,
   pos |-> [st.pos EXCEPT ![item.dir] = item.rel_seq + Len(item.data)]]

(* One round of the output loop.  pos is the position expected next in     *)
(* each direction, None before its first item.                             *)
MergeItem(st, item, fill_gaps) ==
  LET pos     == st.pos[item.dir]
      gap     == IF pos # None /\ item.rel_seq > pos
                   THEN item.rel_seq - pos ELSE 0
      overlap == IF pos # None /\ pos > item.rel_seq
                   THEN pos - item.rel_seq ELSE 0
      end     == item.rel_seq + Len(item.data)
  IN  IF gap > 0 /\ ~ fill_gaps THEN st
      ELSE [out |-> st.out \o Zeros(gap)
                      \o SubSeq(item.data, overlap + 1, Len(item.data)),
            pos |-> [st.pos EXCEPT ![item.dir] =
                       IF pos # None /\ pos > end THEN pos ELSE end]]

(* What merged_data(fill_gaps) returns ...                                 *)
MergedData(conn, fill_gaps) ==
  LET items == MergedItems(conn)
      start == [out |-> NoBytes, pos |-> [dir \in Directions |-> None]]
      f[i \in 0 .. Len(items)] ==
        IF i = 0 THEN start ELSE MergeItem(f[i - 1], items[i], fill_gaps)
  IN  f[Len(items)].out

(* ... and the connection it leaves: both buffers empty.                   *)
AfterMergedData(conn) ==
  [conn EXCEPT !.c2s = Cleared(@), !.s2c = Cleared(@)]
==============================================================================
