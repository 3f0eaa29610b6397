-------------------------- MODULE DirectionProofs --------------------------
(***************************************************************************)
(* Proofs about DirectionBuffer and DirectionCapture, for every stream     *)
(* length, sequence space, segment size and set of byte versions: first    *)
(* about all captures, then about orderly ones (OrderlySpec): in order,    *)
(* exactly once, nothing lost, flushed in place.                           *)
(***************************************************************************)
EXTENDS DirectionCapture, NaturalLemmas, SequenceTheorems

(* RunEnd is the end of the run that covers n: it exists, nothing is held  *)
(* at it, and everything from n up to it is held.  This is what the        *)
(* cascade loop of DirectionBuffer.feed computes.                          *)
LEMMA RunEndProperty ==
  ASSUME NEW held, IsFiniteSet(DOMAIN held), DOMAIN held \subseteq Nat,
         NEW n \in Nat
  PROVE  /\ RunEnd(held, n) \in Nat
         /\ RunEnd(held, n) >= n
         /\ RunEnd(held, n) \notin DOMAIN held
         /\ \A k \in n .. RunEnd(held, n) - 1 : k \in DOMAIN held
<1> DEFINE D == DOMAIN held
           window == n .. n + Cardinality(D)
<1>1. \E m \in window : m \notin D /\ \A k \in n .. m - 1 : k \in D
  BY FirstGap
<1>2. /\ RunEnd(held, n) \in window
      /\ RunEnd(held, n) \notin D
      /\ \A k \in n .. RunEnd(held, n) - 1 : k \in D
  BY <1>1, Zenon DEF RunEnd
<1>3. \A w \in window : w \in Nat /\ w >= n
  BY FS_CardinalityType
<1>4. QED
  BY <1>2, <1>3
-----------------------------------------------------------------------------
(* Payloads are sequences of the sender's bytes.                           *)
LEMMA TextProperty ==
  ASSUME NEW p \in Nat \ {0}, NEW n \in Nat, NEW v \in Versions,
         p + n - 1 <= StreamLen
  PROVE  /\ Text(p, n, v) \in Seq(Bytes)
         /\ Len(Text(p, n, v)) = n
         /\ \A i \in 1 .. n : Text(p, n, v)[i] = <<p + i - 1, v>>
<1>1. \A i \in 1 .. n : <<p + i - 1, v>> \in Bytes
  BY CaptureAssumption DEF Bytes, Positions
<1>2. QED
  BY <1>1 DEF Text

(* The positions held are a finite set of stream positions.                *)
LEMMA HeldProperty ==
  ASSUME NEW b \in BufferType
  PROVE  /\ IsFiniteSet(DOMAIN b.segments)
         /\ DOMAIN b.segments \subseteq Positions
         /\ \A p \in DOMAIN b.segments : b.segments[p] \in Bytes
         /\ b.segments = [p \in DOMAIN b.segments |-> b.segments[p]]
<1>1. PICK held \in SUBSET Positions : b.segments \in [held -> Bytes]
  BY DEF BufferType, HeldBytes
<1>2. DOMAIN b.segments = held
  BY <1>1
<1>3. IsFiniteSet(Positions)
  BY FS_Interval, CaptureAssumption DEF Positions
<1>4. IsFiniteSet(held)
  BY <1>3, FS_Subset
<1>5. QED
  BY <1>1, <1>2, <1>4

(* A function on stream positions is a possible value of segments.         *)
LEMMA HeldType ==
  ASSUME NEW D \in SUBSET Positions, NEW f \in [D -> Bytes]
  PROVE  f \in HeldBytes
  BY DEF HeldBytes

(* The bytes taken out of a run, in order.                                 *)
LEMMA SliceProperty ==
  ASSUME NEW held, NEW from \in Nat, NEW to \in Nat, from <= to,
         \A k \in from .. to - 1 : held[k] \in Bytes
  PROVE  /\ Slice(held, from, to) \in Seq(Bytes)
         /\ Len(Slice(held, from, to)) = to - from
         /\ \A i \in 1 .. to - from :
              Slice(held, from, to)[i] = held[from + i - 1]
<1>1. \A i \in 1 .. to - from : held[from + i - 1] \in Bytes
  OBVIOUS
<1>2. QED
  BY <1>1 DEF Slice

(* Extend, the contiguous branch of feed: what each field becomes.         *)
LEMMA ExtendProperty ==
  ASSUME NEW b \in BufferType, NEW data \in Seq(Bytes),
         b.next_seq + Len(data) <= StreamLen + 1
  PROVE  \E stop \in Nat :
           LET c      == Extend(b, data)
               joined == b.next_seq + Len(data)
           IN  /\ joined <= stop /\ stop <= StreamLen + 1
               /\ stop \notin DOMAIN b.segments
               /\ \A k \in joined .. stop - 1 : k \in DOMAIN b.segments
               /\ c \in BufferType
               /\ c.next_seq = stop
               /\ c.contiguous = b.contiguous \o data
                                   \o Slice(b.segments, joined, stop)
               /\ DOMAIN c.segments = {p \in DOMAIN b.segments : p > stop}
               /\ \A p \in DOMAIN c.segments : c.segments[p] = b.segments[p]
               /\ c.total_buffered = Len(c.contiguous)
                                       + Cardinality(DOMAIN c.segments)
               /\ c.isn = b.isn /\ c.fin_seq = b.fin_seq
               /\ c.syn_received = b.syn_received
               /\ c.fin_received = b.fin_received
<1> DEFINE joined == b.next_seq + Len(data)
           stop   == RunEnd(b.segments, joined)
           rest   == {p \in DOMAIN b.segments : p > stop}
           slice  == Slice(b.segments, joined, stop)
           bytes  == b.contiguous \o data \o slice
           segs   == [p \in rest |-> b.segments[p]]
           c      == Extend(b, data)
<1>1. /\ IsFiniteSet(DOMAIN b.segments)
      /\ DOMAIN b.segments \subseteq Positions
      /\ \A p \in DOMAIN b.segments : b.segments[p] \in Bytes
  BY HeldProperty
<1>2. joined \in Nat
  BY DEF BufferType
<1>3. DOMAIN b.segments \subseteq Nat
  BY <1>1, CaptureAssumption DEF Positions
<1>4. /\ stop \in Nat
      /\ stop >= joined
      /\ stop \notin DOMAIN b.segments
      /\ \A k \in joined .. stop - 1 : k \in DOMAIN b.segments
  <2> HIDE DEF joined
  <2> QED BY <1>1, <1>2, <1>3, RunEndProperty
<1> HIDE DEF stop
<1>5. stop <= StreamLen + 1
  <2> SUFFICES ASSUME stop > StreamLen + 1 PROVE FALSE
    BY <1>4, CaptureAssumption
  <2>1. stop - 1 \in joined .. stop - 1
    BY <1>2, <1>4, CaptureAssumption
  <2>2. stop - 1 \in Positions
    BY <2>1, <1>4, <1>1
  <2>3. QED BY <2>2, <1>4, CaptureAssumption DEF Positions
<1>6. slice \in Seq(Bytes)
  <2> HIDE DEF joined
  <2>1. \A k \in joined .. stop - 1 : b.segments[k] \in Bytes
    BY <1>4, <1>1
  <2>2. QED BY <2>1, <1>2, <1>4, SliceProperty
<1>7. bytes \in Seq(Bytes)
  <2> HIDE DEF slice
  <2> QED BY <1>6 DEF BufferType
<1>8. rest \in SUBSET Positions /\ IsFiniteSet(rest)
  BY <1>1, FS_Subset
<1>9. segs \in HeldBytes
  <2>1. segs \in [rest -> Bytes]
    BY <1>1
  <2> HIDE DEF segs, rest
  <2> QED BY <2>1, <1>8, HeldType
<1>10. Len(bytes) + Cardinality(rest) \in Nat
  <2>1. Cardinality(rest) \in Nat
    BY <1>8, FS_CardinalityType
  <2>2. Len(bytes) \in Nat
    <3> HIDE DEF bytes
    <3> QED BY <1>7, LenProperties
  <2> HIDE DEF bytes, rest
  <2> QED BY <2>1, <2>2
<1>11. c = [b EXCEPT !.contiguous     = bytes,
                     !.next_seq       = stop,
                     !.segments       = segs,
                     !.total_buffered = Len(bytes) + Cardinality(rest)]
  BY Zenon DEF Extend, stop
<1> HIDE DEF bytes, segs, rest, c, slice
<1>12. c \in BufferType
  <2>1. stop \in 0 .. StreamLen + 1
    BY <1>4, <1>5, CaptureAssumption
  <2>2. QED BY <1>11, <2>1, <1>7, <1>9, <1>10 DEF BufferType
<1>13. /\ c.contiguous = bytes /\ c.next_seq = stop /\ c.segments = segs
       /\ c.total_buffered = Len(bytes) + Cardinality(rest)
       /\ c.isn = b.isn /\ c.fin_seq = b.fin_seq
       /\ c.syn_received = b.syn_received
       /\ c.fin_received = b.fin_received
  BY <1>11 DEF BufferType
<1>14. DOMAIN c.segments = rest
       /\ \A p \in rest : c.segments[p] = b.segments[p]
  BY <1>13 DEF segs
<1>15. QED
  BY <1>4, <1>5, <1>12, <1>13, <1>14, Zenon DEF bytes, rest, c, slice, joined

(* InsertSegment, the out-of-order branch of feed: what each field becomes.*)
LEMMA InsertProperty ==
  ASSUME NEW b \in BufferType, NEW data \in Seq(Bytes),
         NEW start \in Nat \ {0}, start + Len(data) <= StreamLen + 1
  PROVE  LET c   == InsertSegment(b, start, data)
             new == start .. start + Len(data) - 1
         IN  /\ c \in BufferType
             /\ DOMAIN c.segments = DOMAIN b.segments \cup new
             /\ \A p \in DOMAIN c.segments :
                  \/ p \in DOMAIN b.segments /\ c.segments[p] = b.segments[p]
                  \/ p \in new /\ c.segments[p] = data[p - start + 1]
             /\ c.total_buffered = Len(c.contiguous)
                                     + Cardinality(DOMAIN c.segments)
             /\ c.isn = b.isn /\ c.fin_seq = b.fin_seq
             /\ c.syn_received = b.syn_received
             /\ c.fin_received = b.fin_received
             /\ c.next_seq = b.next_seq /\ c.contiguous = b.contiguous
<1> DEFINE old == b.segments
           new == start .. start + Len(data) - 1
           Wins(p) == /\ p \in DOMAIN old
                      /\ p \in new => \E q \in start .. p : q \notin DOMAIN old
           dom == DOMAIN old \cup new
           held == [p \in dom |->
                      IF Wins(p) THEN old[p] ELSE data[p - start + 1]]
           total == Len(b.contiguous) + Cardinality(dom)
           c == InsertSegment(b, start, data)
<1>1. /\ IsFiniteSet(DOMAIN old)
      /\ DOMAIN old \in SUBSET Positions
      /\ \A p \in DOMAIN old : old[p] \in Bytes
  BY HeldProperty
<1>2. new \in SUBSET Positions /\ IsFiniteSet(new)
  <2>1. Len(data) \in Nat
    BY LenProperties
  <2>2. new \in SUBSET Positions
    BY <2>1, CaptureAssumption DEF Positions
  <2>3. IsFiniteSet(new)
    BY <2>1, FS_Interval
  <2> QED BY <2>2, <2>3
<1>3. \A p \in new : data[p - start + 1] \in Bytes
  <2> SUFFICES ASSUME NEW p \in new PROVE data[p - start + 1] \in Bytes
    OBVIOUS
  <2>1. Len(data) \in Nat
    BY LenProperties
  <2>2. p - start + 1 \in 1 .. Len(data)
    BY <2>1
  <2> QED BY <2>2, ElementOfSeq
<1>4. \A p \in dom : ~ Wins(p) => p \in new
  OBVIOUS
<1>5. \A p \in dom :
        \/ p \in DOMAIN old /\ held[p] = old[p]
        \/ p \in new /\ held[p] = data[p - start + 1]
  <2> SUFFICES ASSUME NEW p \in dom
               PROVE  \/ p \in DOMAIN old /\ held[p] = old[p]
                      \/ p \in new /\ held[p] = data[p - start + 1]
    OBVIOUS
  <2>1. CASE Wins(p)
    BY <2>1
  <2>2. CASE ~ Wins(p)
    <3>1. p \in new
      BY <2>2, <1>4
    <3> HIDE DEF Wins, new
    <3> QED BY <2>2, <3>1
  <2> QED BY <2>1, <2>2
<1>6. DOMAIN held = dom
  OBVIOUS
<1>7. held \in [dom -> Bytes]
  <2> held = [p \in dom |-> held[p]]
    OBVIOUS
  <2> HIDE DEF held
  <2> QED BY <1>5, <1>1, <1>3
<1>8. dom \in SUBSET Positions /\ IsFiniteSet(dom)
  BY <1>1, <1>2, FS_Union
<1>9. held \in HeldBytes
  <2> HIDE DEF held, dom
  <2> QED BY <1>7, <1>8, HeldType
<1>10. Cardinality(dom) \in Nat
  BY <1>8, FS_CardinalityType
<1>11. total \in Nat
  <2> HIDE DEF dom
  <2> QED BY <1>10 DEF BufferType
<1>12. c = [b EXCEPT !.segments = held, !.total_buffered = total]
  <2>1. DOMAIN held = dom
    BY <1>6
  <2> QED BY <2>1, Zenon DEF InsertSegment
<1> HIDE DEF held, total, c, dom
<1>13. c \in BufferType
  BY <1>12, <1>9, <1>11 DEF BufferType
<1>14. /\ c.segments = held /\ c.total_buffered = total
       /\ c.isn = b.isn /\ c.fin_seq = b.fin_seq
       /\ c.syn_received = b.syn_received
       /\ c.fin_received = b.fin_received
       /\ c.next_seq = b.next_seq /\ c.contiguous = b.contiguous
  BY <1>12 DEF BufferType
<1>15. c.total_buffered = Len(c.contiguous) + Cardinality(DOMAIN c.segments)
  BY <1>14, <1>6 DEF total
<1>16. /\ DOMAIN c.segments = DOMAIN b.segments \cup new
       /\ \A p \in DOMAIN c.segments :
            \/ p \in DOMAIN b.segments /\ c.segments[p] = b.segments[p]
            \/ p \in new /\ c.segments[p] = data[p - start + 1]
  BY <1>14, <1>5, <1>6, Zenon DEF dom
<1>17. QED
  BY <1>13, <1>14, <1>15, <1>16, Zenon DEF c
-----------------------------------------------------------------------------
(* The accounting of total_buffered, of one buffer.                        *)
Exact(b) == b.total_buffered = Len(b.contiguous) + Cardinality(DOMAIN b.segments)

(* The fields that placing a payload leaves alone.                         *)
SameFlags(b, c) ==
  /\ c.isn = b.isn /\ c.fin_seq = b.fin_seq
  /\ c.syn_received = b.syn_received /\ c.fin_received = b.fin_received

(* What is left of a payload after the prefix already contiguous is cut.   *)
LEMMA CutProperty ==
  ASSUME NEW payload \in Seq(Bytes), NEW k \in 0 .. Len(payload)
  PROVE  LET data == SubSeq(payload, k + 1, Len(payload))
         IN  /\ data \in Seq(Bytes)
             /\ Len(data) = Len(payload) - k
             /\ \A i \in 1 .. Len(data) : data[i] = payload[i + k]
<1>1. Len(payload) \in Nat
  BY LenProperties
<1> DEFINE m == k + 1
           n == Len(payload)
           data == SubSeq(payload, m, n)
<1>2. /\ m \in 1 .. n + 1 /\ n \in m - 1 .. n
  BY <1>1
<1>3. /\ data \in Seq(Bytes)
      /\ Len(data) = n - m + 1
      /\ \A i \in 1 .. n - m + 1 : data[i] = payload[m + i - 1]
  BY <1>2, SubSeqProperties
<1>4. n - m + 1 = n - k
  BY <1>1
<1>5. \A i \in 1 .. n - m + 1 : m + i - 1 = i + k
  BY <1>1
<1> HIDE DEF data
<1>6. QED
  BY <1>3, <1>4, <1>5 DEF data

(* Placing a payload anywhere keeps the types and the accounting, and      *)
(* next_seq never moves back.                                              *)
LEMMA PlaceProperty ==
  ASSUME NEW b \in BufferType, Exact(b), b.next_seq >= 1,
         NEW payload \in Seq(Bytes), NEW rel \in Int,
         rel + Len(payload) <= StreamLen + 1
  PROVE  LET c == Place(b, rel, payload)
         IN  /\ c \in BufferType /\ Exact(c) /\ SameFlags(b, c)
             /\ c.next_seq >= b.next_seq
<1> DEFINE overlap == IF rel < b.next_seq THEN b.next_seq - rel ELSE 0
           data == SubSeq(payload, overlap + 1, Len(payload))
           c == Place(b, rel, payload)
<1>1. Len(payload) \in Nat /\ b.next_seq \in Nat
  BY LenProperties DEF BufferType
<1>2. CASE rel + Len(payload) <= b.next_seq
  <2>1. c = b
    BY <1>2 DEF Place
  <2> QED BY <2>1, <1>1 DEF SameFlags
<1>3. ASSUME ~ (rel + Len(payload) <= b.next_seq)
      PROVE  /\ overlap \in 0 .. Len(payload)
             /\ data \in Seq(Bytes)
             /\ Len(data) = Len(payload) - overlap
  <2>1. overlap \in 0 .. Len(payload)
    BY <1>1, <1>3
  <2> HIDE DEF overlap
  <2> QED BY <2>1, CutProperty
<1>4. CASE ~ (rel + Len(payload) <= b.next_seq) /\ rel <= b.next_seq
  <2>1. c = Extend(b, data)
    BY <1>4 DEF Place
  <2>2. b.next_seq + Len(data) <= StreamLen + 1
    BY <1>4, <1>3, <1>1
  <2>3. data \in Seq(Bytes)
    BY <1>4, <1>3
  <2> HIDE DEF data, c
  <2>4. PICK stop \in Nat :
          /\ b.next_seq + Len(data) <= stop
          /\ c \in BufferType
          /\ c.next_seq = stop
          /\ c.total_buffered = Len(c.contiguous)
                                  + Cardinality(DOMAIN c.segments)
          /\ c.isn = b.isn /\ c.fin_seq = b.fin_seq
          /\ c.syn_received = b.syn_received
          /\ c.fin_received = b.fin_received
    BY <2>1, <2>2, <2>3, ExtendProperty
  <2>5. c.next_seq >= b.next_seq
    <3>1. Len(data) \in Nat
      BY <2>3, LenProperties
    <3> QED BY <3>1, <2>4, <1>1
  <2> QED BY <2>4, <2>5 DEF c, Exact, SameFlags
<1>5. CASE ~ (rel + Len(payload) <= b.next_seq) /\ ~ (rel <= b.next_seq)
  <2>1. c = InsertSegment(b, rel, data)
    BY <1>5 DEF Place
  <2>2. rel \in Nat \ {0} /\ rel + Len(data) <= StreamLen + 1
    BY <1>5, <1>3, <1>1
  <2>3. data \in Seq(Bytes)
    BY <1>5, <1>3
  <2> HIDE DEF data, c
  <2>4. /\ c \in BufferType
        /\ c.total_buffered = Len(c.contiguous)
                                + Cardinality(DOMAIN c.segments)
        /\ c.isn = b.isn /\ c.fin_seq = b.fin_seq
        /\ c.syn_received = b.syn_received
        /\ c.fin_received = b.fin_received
        /\ c.next_seq = b.next_seq
    BY <2>1, <2>2, <2>3, InsertProperty
  <2> QED BY <2>4, <1>1 DEF c, Exact, SameFlags
<1>6. QED
  BY <1>2, <1>4, <1>5
-----------------------------------------------------------------------------
(* The inductive invariant of every capture: types and accounting together;*)
(* get_data subtracts from total_buffered, which stays a natural number    *)
(* only because it is exact.                                               *)
Sound == TypeOK /\ TotalBufferedExact

(* A buffer that has just been created is sound.                           *)
LEMMA InitSound == Init => Sound
<1> SUFFICES ASSUME Init PROVE Sound
  OBVIOUS
<1>1. NoBytes \in Seq(Bytes) /\ Len(NoBytes) = 0
  BY DEF NoBytes
<1>2. DOMAIN NoBytes = {}
  BY DEF NoBytes
<1>3. NoBytes \in HeldBytes
  <2>1. NoBytes \in [{} -> Bytes]
    BY <1>1, <1>2 DEF NoBytes
  <2> QED BY <2>1, HeldType
<1>4. Cardinality({}) = 0
  BY FS_EmptySet
<1>5. NewBuffer \in BufferType
  BY <1>1, <1>3, CaptureAssumption DEF NewBuffer, BufferType, None
<1>6. /\ buf.isn = None /\ buf.fin_seq = None
      /\ buf.syn_received = FALSE /\ buf.fin_received = FALSE
      /\ buf.total_buffered = 0
      /\ buf.contiguous = NoBytes /\ buf.segments = NoBytes
  BY DEF Init, NewBuffer
<1>7. TotalBufferedExact
  BY <1>1, <1>2, <1>4, <1>6 DEF TotalBufferedExact
<1>8. TypeOK
  BY <1>5, <1>6 DEF Init, TypeOK
<1>9. QED
  BY <1>7, <1>8 DEF Sound

(* A SYN, first or repeated, keeps a sound buffer sound.                   *)
LEMMA SynSound ==
  ASSUME Sound, NEW n \in Nat, NEW v \in Versions, Syn(n, v)
  PROVE  Sound'
<1> DEFINE payload == Text(1, n, v)
           c == FeedSyn(buf, sender_isn, payload)
<1>1. n <= StreamLen /\ buf' = c /\ sender_isn' = sender_isn
      /\ seen' = seen \cup 1 .. n
  BY DEF Syn, Feed
<1>2. payload \in Seq(Bytes) /\ Len(payload) = n
  BY <1>1, TextProperty, CaptureAssumption
<1>3. /\ buf \in BufferType /\ sender_isn \in ISNs /\ sender_isn \in Nat
      /\ buf.fin_received <=> buf.fin_seq # None
      /\ seen \subseteq Positions
  BY CaptureAssumption DEF Sound, TypeOK
<1> DEFINE bytes == buf.contiguous \o payload
           total == buf.total_buffered + Len(payload)
<1>4. bytes \in Seq(Bytes) /\ Len(bytes) = Len(buf.contiguous) + n
  <2> HIDE DEF payload
  <2> QED BY <1>2, <1>3 DEF BufferType
<1>5. total \in Nat /\ 1 + Len(payload) \in 1 .. StreamLen + 1
  <2> HIDE DEF payload
  <2> QED BY <1>1, <1>2, <1>3, CaptureAssumption DEF BufferType
<1>6. c = [buf EXCEPT !.isn = sender_isn, !.syn_received = TRUE,
                      !.next_seq = 1 + Len(payload),
                      !.contiguous = bytes, !.total_buffered = total]
  BY Zenon DEF FeedSyn
<1> HIDE DEF c, bytes, total, payload
<1>7. /\ c.isn = sender_isn /\ c.syn_received = TRUE
      /\ c.next_seq = 1 + Len(payload) /\ c.contiguous = bytes
      /\ c.total_buffered = total /\ c.segments = buf.segments
      /\ c.fin_seq = buf.fin_seq /\ c.fin_received = buf.fin_received
  BY <1>6, <1>3 DEF BufferType
<1>8. c \in BufferType
  <2>1. 1 + Len(payload) \in 0 .. StreamLen + 1
    BY <1>5, CaptureAssumption
  <2> QED BY <1>6, <1>3, <1>4, <1>5, <2>1 DEF BufferType
<1>9. TypeOK'
  <2>1. sender_isn # None
    BY <1>3 DEF None
  <2>2. 1 + Len(payload) >= 1
    BY <1>5, CaptureAssumption
  <2>3. seen' \subseteq Positions
    BY <1>1, <1>3, CaptureAssumption DEF Positions
  <2> QED BY <1>1, <1>3, <1>7, <1>8, <2>1, <2>2, <2>3 DEF TypeOK
<1>10. TotalBufferedExact'
  <2>1. buf.total_buffered = Len(buf.contiguous)
                              + Cardinality(DOMAIN buf.segments)
    BY DEF Sound, TotalBufferedExact
  <2>2. /\ Len(buf.contiguous) \in Nat
        /\ Cardinality(DOMAIN buf.segments) \in Nat
    <3>1. Len(buf.contiguous) \in Nat
      BY <1>3 DEF BufferType
    <3>2. Cardinality(DOMAIN buf.segments) \in Nat
      BY <1>3, HeldProperty, FS_CardinalityType
    <3> QED BY <3>1, <3>2
  <2>3. total = Len(bytes) + Cardinality(DOMAIN buf.segments)
    BY <2>1, <2>2, <1>2, <1>4 DEF total
  <2> QED BY <2>3, <1>1, <1>7 DEF TotalBufferedExact
<1>11. QED
  BY <1>9, <1>10 DEF Sound

(* A data segment, wherever it lies and whatever it overlaps, keeps a      *)
(* sound buffer sound, and never moves next_seq back.                      *)
LEMMA DataSound ==
  ASSUME Sound, NEW p \in 1 .. StreamLen + 1, NEW n \in Nat,
         NEW v \in Versions, NEW fin \in BOOLEAN, Data(p, n, v, fin)
  PROVE  Sound' /\ buf'.next_seq >= buf.next_seq /\ buf'.isn = buf.isn
<1> DEFINE payload == Text(p, n, v)
           seq == SeqOf(p)
           marked == IF fin THEN MarkFin(buf, seq, Len(payload)) ELSE buf
<1>1. /\ p + n - 1 <= StreamLen
      /\ buf' = Feed(buf, seq, payload, FALSE, fin)
      /\ seen' = IF buf.isn = None THEN seen ELSE seen \cup p .. p + n - 1
      /\ sender_isn' = sender_isn
  BY DEF Data
<1>2. p \in Nat \ {0} /\ payload \in Seq(Bytes) /\ Len(payload) = n
  <2>1. p \in Nat \ {0}
    BY CaptureAssumption
  <2> QED BY <1>1, <2>1, TextProperty
<1>3. /\ buf \in BufferType /\ sender_isn \in ISNs /\ sender_isn \in Nat
      /\ buf.isn \in {None, sender_isn}
      /\ buf.isn # None => buf.next_seq >= 1
      /\ buf.syn_received <=> buf.isn # None
      /\ buf.fin_received <=> buf.fin_seq # None
      /\ seen \subseteq Positions
  BY CaptureAssumption DEF Sound, TypeOK
<1>4. Exact(buf)
  BY DEF Sound, TotalBufferedExact, Exact
<1>5. seen' \subseteq Positions
  BY <1>1, <1>2, <1>3, CaptureAssumption DEF Positions
<1>6. CASE buf.isn = None
  <2>1. buf' = buf
    BY <1>1, <1>6 DEF Feed
  <2>2. buf.next_seq >= buf.next_seq
    BY <1>3 DEF BufferType
  <2> QED BY <2>1, <2>2, <1>1, <1>5
          DEF Sound, TypeOK, TotalBufferedExact
<1>7. CASE buf.isn # None
  <2>1. seq \in Nat /\ seq <= sender_isn + p
    <3> DEFINE a == sender_isn + p
    <3>1. a \in Nat /\ SeqSpace \in Nat \ {0}
      BY <1>2, <1>3, CaptureAssumption
    <3>2. seq = a % SeqSpace
      BY DEF SeqOf
    <3> HIDE DEF a, seq
    <3>3. seq \in Nat /\ seq <= a
      BY <3>1, <3>2, ModBound
    <3> QED BY <3>3 DEF a
  <2> HIDE DEF payload, seq
  <2>2. /\ marked \in BufferType
        /\ marked.isn = buf.isn /\ marked.next_seq = buf.next_seq
        /\ marked.syn_received = buf.syn_received
        /\ marked.fin_received <=> marked.fin_seq # None
        /\ marked.contiguous = buf.contiguous
        /\ marked.segments = buf.segments
        /\ marked.total_buffered = buf.total_buffered
    <3>1. CASE fin
      <4> DEFINE end == seq + Len(payload)
      <4>1. end \in Nat /\ end # None
        BY <2>1, <1>2 DEF None
      <4> HIDE DEF end
      <4>2. marked = [buf EXCEPT !.fin_seq = end, !.fin_received = TRUE]
        BY <3>1, Zenon DEF MarkFin, end
      <4> HIDE DEF marked
      <4> QED BY <4>1, <4>2, <1>3 DEF BufferType
    <3>2. CASE ~ fin
      BY <3>2, <1>3
    <3> QED BY <3>1, <3>2
  <2>3. Exact(marked)
    BY <2>2, <1>4 DEF Exact
  <2> DEFINE c == buf'
  <2>4. c = IF payload = NoBytes THEN marked
            ELSE Place(marked, seq - buf.isn, payload)
    BY <1>1, <1>7 DEF Feed
  <2> HIDE DEF marked
  <2>5. /\ c \in BufferType /\ Exact(c) /\ SameFlags(marked, c)
        /\ c.next_seq >= buf.next_seq
    <3>1. CASE payload = NoBytes
      <4>1. c = marked
        BY <3>1, <2>4
      <4>2. buf.next_seq >= buf.next_seq
        BY <1>3 DEF BufferType
      <4> QED BY <4>1, <4>2, <2>2, <2>3 DEF SameFlags
    <3>2. CASE payload # NoBytes
      <4> DEFINE rel == seq - buf.isn
      <4>1. rel \in Int /\ rel + Len(payload) <= StreamLen + 1
        BY <1>1, <1>2, <1>3, <1>7, <2>1, CaptureAssumption
      <4>2. c = Place(marked, rel, payload)
        BY <3>2, <2>4
      <4>3. marked.next_seq >= 1
        BY <2>2, <1>3, <1>7
      <4> HIDE DEF rel, c
      <4> QED BY <4>1, <4>2, <4>3, <2>2, <2>3, <1>2, PlaceProperty
    <3> QED BY <3>1, <3>2
  <2>6. TotalBufferedExact'
    BY <2>5 DEF Exact, TotalBufferedExact
  <2>7. c.isn # None => c.next_seq >= 1
    <3>1. c.next_seq \in Int /\ buf.next_seq \in Int
      BY <2>5, <1>3, CaptureAssumption DEF BufferType
    <3> HIDE DEF c
    <3> QED BY <3>1, <2>5, <1>3, <1>7
  <2>8. TypeOK'
    BY <2>5, <2>7, <2>2, <1>1, <1>3, <1>5 DEF TypeOK, SameFlags
  <2> QED BY <2>2, <2>5, <2>6, <2>8 DEF Sound, SameFlags
<1>8. QED
  BY <1>6, <1>7

(* get_data, with or without gap filling, keeps a sound buffer sound.      *)
LEMMA GetDataSound ==
  ASSUME Sound, NEW fill_gaps \in BOOLEAN, GetData(fill_gaps)
  PROVE  Sound'
<1>1. /\ buf' = AfterGetData(buf, fill_gaps)
      /\ sender_isn' = sender_isn /\ seen' = seen
  BY DEF GetData
<1>2. TypeOK /\ buf \in BufferType
  BY DEF Sound, TypeOK
<1>3. NoBytes \in Seq(Bytes) /\ Len(NoBytes) = 0
  BY DEF NoBytes
<1>4. CASE fill_gaps
  <2>1. NoBytes \in HeldBytes /\ DOMAIN NoBytes = {}
    <3>1. DOMAIN NoBytes = {} /\ NoBytes \in [{} -> Bytes]
      BY <1>3 DEF NoBytes
    <3> QED BY <3>1, HeldType
  <2>2. buf' = [buf EXCEPT !.contiguous = NoBytes, !.segments = NoBytes,
                           !.total_buffered = 0]
    BY <1>1, <1>4 DEF AfterGetData, Cleared
  <2>3. /\ buf' \in BufferType
        /\ buf'.isn = buf.isn /\ buf'.next_seq = buf.next_seq
        /\ buf'.fin_seq = buf.fin_seq
        /\ buf'.syn_received = buf.syn_received
        /\ buf'.fin_received = buf.fin_received
        /\ buf'.contiguous = NoBytes /\ buf'.segments = NoBytes
        /\ buf'.total_buffered = 0
    BY <2>1, <2>2, <1>2, <1>3 DEF BufferType
  <2>4. TotalBufferedExact'
    BY <2>3, <2>1, <1>3, FS_EmptySet DEF TotalBufferedExact
  <2> QED BY <2>3, <2>4, <1>1, <1>2 DEF Sound, TypeOK
<1>5. CASE ~ fill_gaps
  <2> DEFINE total == buf.total_buffered - Len(buf.contiguous)
  <2>1. Cardinality(DOMAIN buf.segments) \in Nat
    BY <1>2, HeldProperty, FS_CardinalityType
  <2>2. total = Cardinality(DOMAIN buf.segments)
    BY <2>1, <1>2 DEF Sound, TotalBufferedExact, BufferType
  <2>3. buf' = [buf EXCEPT !.contiguous = NoBytes, !.total_buffered = total]
    BY <1>1, <1>5, Zenon DEF AfterGetData
  <2> HIDE DEF total
  <2>4. /\ buf' \in BufferType
        /\ buf'.isn = buf.isn /\ buf'.next_seq = buf.next_seq
        /\ buf'.fin_seq = buf.fin_seq
        /\ buf'.syn_received = buf.syn_received
        /\ buf'.fin_received = buf.fin_received
        /\ buf'.contiguous = NoBytes /\ buf'.segments = buf.segments
        /\ buf'.total_buffered = total
    BY <2>1, <2>2, <2>3, <1>2, <1>3 DEF BufferType
  <2>5. TotalBufferedExact'
    BY <2>1, <2>2, <2>4, <1>3 DEF TotalBufferedExact
  <2> QED BY <2>4, <2>5, <1>1, <1>2 DEF Sound, TypeOK
<1>6. QED
  BY <1>4, <1>5

(* For every stream, any capture of it and any use of get_data: the fields *)
(* of the buffer keep their types and no byte from outside the stream gets *)
(* in, and total_buffered is exactly the number of bytes the buffer holds. *)
THEOREM BufferSound == Spec => [](TypeOK /\ TotalBufferedExact)
<1>1. Init => Sound
  BY InitSound
<1>2. Sound /\ [Next]_vars => Sound'
  <2> SUFFICES ASSUME Sound, [Next]_vars PROVE Sound'
    OBVIOUS
  <2>1. CASE \E n \in 0 .. MaxSegment, v \in Versions : Syn(n, v)
    BY <2>1, SynSound, CaptureAssumption
  <2>2. CASE Segment
    BY <2>2, DataSound, CaptureAssumption DEF Segment
  <2>3. CASE \E fill_gaps \in BOOLEAN : GetData(fill_gaps)
    BY <2>3, GetDataSound
  <2>4. CASE UNCHANGED vars
    BY <2>4 DEF vars, Sound, TypeOK, TotalBufferedExact
  <2> QED BY <2>1, <2>2, <2>3, <2>4 DEF Next
<1>3. QED
  BY <1>1, <1>2, PTL DEF Spec, Sound

(* TypeOK alone: no byte from outside the sender's stream is ever ready or *)
(* held by a DirectionBuffer, and its flags agree with its numbers.        *)
THEOREM BufferTyped == Spec => []TypeOK
  BY BufferSound, PTL
-----------------------------------------------------------------------------
(* The bytes of s are the stream's bytes k + 1, k + 2, ... in order.       *)
CountsUp(s, k) == \A i \in 1 .. Len(s) : s[i][1] = k + i

(* Two stretches of the stream that follow one another make one stretch.   *)
LEMMA CountsUpConcat ==
  ASSUME NEW s \in Seq(Bytes), NEW t \in Seq(Bytes), NEW k \in Nat,
         CountsUp(s, k), CountsUp(t, k + Len(s))
  PROVE  /\ s \o t \in Seq(Bytes)
         /\ Len(s \o t) = Len(s) + Len(t)
         /\ CountsUp(s \o t, k)
<1>1. Len(s) \in Nat /\ Len(t) \in Nat
  BY LenProperties
<1>2. /\ s \o t \in Seq(Bytes)
      /\ Len(s \o t) = Len(s) + Len(t)
      /\ \A i \in 1 .. Len(s) + Len(t) :
           (s \o t)[i] = IF i <= Len(s) THEN s[i] ELSE t[i - Len(s)]
  BY ConcatProperties
<1> DEFINE u == s \o t
<1> HIDE DEF u
<1>3. ASSUME NEW i \in 1 .. Len(s) + Len(t) PROVE u[i][1] = k + i
  <2>1. CASE i <= Len(s)
    <3>1. u[i] = s[i] /\ i \in 1 .. Len(s)
      BY <1>1, <1>2, <2>1 DEF u
    <3> QED BY <3>1 DEF CountsUp
  <2>2. CASE ~ (i <= Len(s))
    <3>1. u[i] = t[i - Len(s)] /\ i - Len(s) \in 1 .. Len(t)
      BY <1>1, <1>2, <2>2 DEF u
    <3>2. k + Len(s) + (i - Len(s)) = k + i
      BY <1>1
    <3> QED BY <3>1, <3>2 DEF CountsUp
  <2> QED BY <2>1, <2>2
<1>4. QED
  BY <1>2, <1>3 DEF u, CountsUp

(* The inductive invariant of orderly captures.  InOrder is split at the   *)
(* border between what was handed out and what is ready, so that no step   *)
(* has to regroup a concatenation; a FIN, once seen, stands for the end of *)
(* the stream.                                                             *)
Delivered ==
  /\ pulled \in Seq(Bytes)
  /\ CountsUp(pulled, 0)
  /\ CountsUp(buf.contiguous, Len(pulled))
  /\ Len(pulled) + Len(buf.contiguous)
       = IF buf.isn = None THEN 0 ELSE buf.next_seq - 1

FinAtEnd ==
  buf.fin_seq # None =>
    buf.isn # None /\ buf.fin_seq = sender_isn + StreamLen + 1

Orderly ==
  Sound /\ NoWrap /\ Delivered /\ NothingLost /\ HeldInPlace /\ FinAtEnd

(* A direction that has seen nothing is orderly.                           *)
LEMMA InitOrderly == Init /\ NoWrap => Orderly
<1> SUFFICES ASSUME Init, NoWrap PROVE Orderly
  OBVIOUS
<1>1. NoBytes \in Seq(Bytes) /\ Len(NoBytes) = 0 /\ DOMAIN NoBytes = {}
  BY DEF NoBytes
<1>2. /\ buf.isn = None /\ buf.fin_seq = None /\ pulled = NoBytes
      /\ buf.contiguous = NoBytes /\ buf.segments = NoBytes /\ seen = {}
  BY DEF Init, NewBuffer
<1>3. Delivered
  BY <1>1, <1>2 DEF Delivered, CountsUp
<1>4. NothingLost /\ HeldInPlace /\ FinAtEnd
  BY <1>1, <1>2 DEF NothingLost, HeldInPlace, FinAtEnd
<1>5. QED
  BY <1>3, <1>4, InitSound DEF Orderly

(* A SYN copy captured before any data keeps a direction orderly.          *)
LEMMA HandshakeOrderly ==
  ASSUME Orderly, seen = {}, NEW n \in Nat, NEW v \in Versions, Syn(n, v)
  PROVE  Orderly' /\ pulled' = pulled
<1> DEFINE payload == Text(1, n, v)
           c == FeedSyn(buf, sender_isn, payload)
<1>1. /\ n <= StreamLen /\ buf' = c /\ sender_isn' = sender_isn
      /\ seen' = 1 .. n /\ pulled' = pulled
  BY DEF Syn, Feed
<1>2. /\ payload \in Seq(Bytes) /\ Len(payload) = n
      /\ \A i \in 1 .. n : payload[i] = <<i, v>>
  <2>1. 1 \in Nat \ {0} /\ 1 + n - 1 <= StreamLen
    BY <1>1, CaptureAssumption
  <2>2. /\ payload \in Seq(Bytes) /\ Len(payload) = n
        /\ \A i \in 1 .. n : payload[i] = <<1 + i - 1, v>>
    BY <2>1, TextProperty
  <2> QED BY <2>2
<1>3. Sound'
  BY SynSound DEF Orderly
<1>4. buf \in BufferType /\ sender_isn \in Nat
  BY CaptureAssumption DEF Orderly, Sound, TypeOK
<1> DEFINE bytes == buf.contiguous \o payload
<1> HIDE DEF payload
<1>5. /\ c.isn = sender_isn /\ c.next_seq = 1 + n /\ c.contiguous = bytes
      /\ c.segments = buf.segments /\ c.fin_seq = buf.fin_seq
  BY <1>2, <1>4 DEF FeedSyn, BufferType
<1>6. DOMAIN buf.segments = {} /\ Len(pulled) + Len(buf.contiguous) = 0
  <2>1. CASE buf.isn = None
    BY <2>1 DEF Orderly, NothingLost, Delivered
  <2>2. CASE buf.isn # None
    <3>1. buf.next_seq \in Nat /\ buf.next_seq >= 1
      BY <2>2, CaptureAssumption DEF Orderly, Sound, TypeOK, BufferType
    <3>2. (1 .. buf.next_seq - 1) \cup DOMAIN buf.segments = {}
      BY <2>2 DEF Orderly, NothingLost
    <3>3. buf.next_seq = 1
      <4> SUFFICES ASSUME buf.next_seq > 1 PROVE FALSE
        BY <3>1
      <4>1. 1 \in 1 .. buf.next_seq - 1
        BY <3>1
      <4> QED BY <4>1, <3>2
    <3> QED BY <2>2, <3>2, <3>3 DEF Orderly, Delivered
  <2> QED BY <2>1, <2>2
<1>7. Len(pulled) = 0 /\ Len(buf.contiguous) = 0
  <2>1. Len(pulled) \in Nat /\ Len(buf.contiguous) \in Nat
    BY <1>4 DEF Orderly, Delivered, BufferType
  <2> QED BY <2>1, <1>6
<1>8. bytes \in Seq(Bytes) /\ Len(bytes) = n /\ CountsUp(bytes, 0)
  <2>1. buf.contiguous \in Seq(Bytes) /\ CountsUp(buf.contiguous, 0)
    BY <1>4, <1>7 DEF BufferType, CountsUp
  <2>2. CountsUp(payload, 0 + Len(buf.contiguous))
    BY <1>2, <1>7 DEF CountsUp
  <2>3. /\ bytes \in Seq(Bytes)
        /\ Len(bytes) = Len(buf.contiguous) + Len(payload)
        /\ CountsUp(bytes, 0)
    BY <2>1, <2>2, <1>2, CountsUpConcat
  <2> QED BY <2>3, <1>2, <1>7
<1> HIDE DEF c, bytes
<1>9. sender_isn # None
  BY <1>4 DEF None
<1>10. Delivered'
  BY <1>1, <1>5, <1>7, <1>8, <1>9 DEF Orderly, Delivered
<1>11. NothingLost'
  BY <1>1, <1>5, <1>6, <1>9 DEF NothingLost
<1>12. NoWrap' /\ HeldInPlace' /\ FinAtEnd'
  BY <1>1, <1>5, <1>6, <1>9 DEF Orderly, NoWrap, HeldInPlace, FinAtEnd
<1>13. QED
  BY <1>1, <1>3, <1>10, <1>11, <1>12 DEF Orderly

(* get_data(False) hands out the bytes ready and keeps the order.          *)
LEMMA GetDataOrderly ==
  ASSUME Orderly, GetData(FALSE)
  PROVE  Orderly'
<1>1. /\ pulled' = pulled \o buf.contiguous
      /\ buf' = AfterGetData(buf, FALSE)
      /\ sender_isn' = sender_isn /\ seen' = seen
  BY DEF GetData, DataOf
<1>2. buf \in BufferType
  BY DEF Orderly, Sound, TypeOK
<1>3. /\ buf'.contiguous = NoBytes /\ buf'.segments = buf.segments
      /\ buf'.isn = buf.isn /\ buf'.next_seq = buf.next_seq
      /\ buf'.fin_seq = buf.fin_seq
  BY <1>1, <1>2 DEF AfterGetData, BufferType
<1>4. /\ pulled' \in Seq(Bytes)
      /\ Len(pulled') = Len(pulled) + Len(buf.contiguous)
      /\ CountsUp(pulled', 0)
  <2>1. /\ pulled \in Seq(Bytes) /\ buf.contiguous \in Seq(Bytes)
        /\ CountsUp(pulled, 0) /\ CountsUp(buf.contiguous, 0 + Len(pulled))
    <3>1. Len(pulled) \in Nat
      BY DEF Orderly, Delivered
    <3> QED BY <3>1, <1>2 DEF Orderly, Delivered, BufferType
  <2> QED BY <1>1, <2>1, CountsUpConcat
<1>5. Len(NoBytes) = 0
  BY DEF NoBytes
<1>6. Delivered'
  <2>1. CountsUp(NoBytes, Len(pulled'))
    BY <1>5 DEF CountsUp
  <2>2. Len(pulled') + Len(NoBytes) = Len(pulled) + Len(buf.contiguous)
    BY <1>4, <1>5, <1>2, LenProperties DEF Orderly, Delivered, BufferType
  <2> QED BY <1>3, <1>4, <2>1, <2>2 DEF Orderly, Delivered
<1>7. Sound'
  BY GetDataSound DEF Orderly
<1>8. NoWrap' /\ NothingLost' /\ HeldInPlace' /\ FinAtEnd'
  BY <1>1, <1>3 DEF Orderly, NoWrap, NothingLost, HeldInPlace, FinAtEnd
<1>9. QED
  BY <1>6, <1>7, <1>8 DEF Orderly

(* Buffer b, after the bytes `out' were handed out, holds exactly the      *)
(* positions `got': a contiguous stretch, then bytes beyond a gap.         *)
Ready(b, out) ==
  /\ CountsUp(b.contiguous, Len(out))
  /\ Len(out) + Len(b.contiguous) = b.next_seq - 1

Holds(b, got) ==
  /\ got = (1 .. b.next_seq - 1) \cup DOMAIN b.segments
  /\ \A q \in DOMAIN b.segments : q > b.next_seq

InPlace(b) == \A q \in DOMAIN b.segments : b.segments[q][1] = q

(* Placing a segment at its own stream position: the three outcomes of     *)
(* feed all leave exactly the old positions and the new ones.              *)
LEMMA PlaceOrderly ==
  ASSUME NEW b \in BufferType, NEW out \in Seq(Bytes), NEW got,
         NEW p \in Nat \ {0}, NEW n \in Nat \ {0}, NEW v \in Versions,
         p + n - 1 <= StreamLen, b.next_seq >= 1,
         Ready(b, out), Holds(b, got), InPlace(b)
  PROVE  LET c == Place(b, p, Text(p, n, v))
         IN  /\ Ready(c, out)
             /\ Holds(c, got \cup p .. p + n - 1)
             /\ InPlace(c)
<1> DEFINE payload == Text(p, n, v)
           next == b.next_seq
           overlap == IF p < next THEN next - p ELSE 0
           data == SubSeq(payload, overlap + 1, Len(payload))
           c == Place(b, p, payload)
<1>1. /\ payload \in Seq(Bytes) /\ Len(payload) = n
      /\ \A i \in 1 .. n : payload[i] = <<p + i - 1, v>>
  BY TextProperty
<1>2. /\ next \in Nat /\ next >= 1 /\ b.contiguous \in Seq(Bytes)
      /\ Len(out) \in Nat /\ Len(b.contiguous) \in Nat
      /\ DOMAIN b.segments \subseteq Nat \ {0}
  <2>1. DOMAIN b.segments \subseteq Positions
    BY HeldProperty
  <2>2. DOMAIN b.segments \subseteq Nat \ {0}
    BY <2>1, CaptureAssumption DEF Positions
  <2>3. next \in 0 .. StreamLen + 1 /\ b.contiguous \in Seq(Bytes)
    BY DEF BufferType
  <2>4. Len(out) \in Nat /\ Len(b.contiguous) \in Nat
    BY <2>3, LenProperties
  <2> QED BY <2>2, <2>3, <2>4, CaptureAssumption
<1>ready. Len(out) + Len(b.contiguous) = next - 1
  BY DEF Ready
<1> HIDE DEF payload
<1>3. CASE p + n <= next
  <2>1. c = b
    BY <1>3, <1>1 DEF Place
  <2>2. p .. p + n - 1 \subseteq 1 .. next - 1
    BY <1>2, <1>3
  <2>3. got \cup p .. p + n - 1 = got
    BY <2>2 DEF Holds
  <2> QED BY <2>1, <2>3 DEF payload
<1>4. ASSUME ~ (p + n <= next)
      PROVE  /\ data \in Seq(Bytes) /\ Len(data) = n - overlap
             /\ overlap \in 0 .. n - 1
             /\ \A i \in 1 .. Len(data) : data[i] = <<p + overlap + i - 1, v>>
  <2>1. overlap \in 0 .. n - 1 /\ overlap \in 0 .. Len(payload)
    BY <1>4, <1>1, <1>2
  <2> HIDE DEF overlap
  <2>2. /\ data \in Seq(Bytes) /\ Len(data) = Len(payload) - overlap
        /\ \A i \in 1 .. Len(data) : data[i] = payload[i + overlap]
    BY <2>1, <1>1, CutProperty
  <2> HIDE DEF data
  <2>3. ASSUME NEW i \in 1 .. Len(data)
        PROVE  data[i] = <<p + overlap + i - 1, v>>
    <3>1. i + overlap \in 1 .. n
      BY <2>1, <2>2, <1>1
    <3>2. data[i] = <<p + (i + overlap) - 1, v>>
      BY <3>1, <2>2, <1>1
    <3>3. p + (i + overlap) - 1 = p + overlap + i - 1
      BY <2>1, <2>2, <1>1
    <3> QED BY <3>2, <3>3
  <2> QED BY <2>1, <2>2, <2>3, <1>1
<1>5. CASE ~ (p + n <= next) /\ p <= next
  <2>1. /\ data \in Seq(Bytes) /\ next + Len(data) = p + n
        /\ \A i \in 1 .. Len(data) : data[i] = <<next + i - 1, v>>
    <3>1. /\ data \in Seq(Bytes) /\ Len(data) = n - overlap
          /\ overlap \in 0 .. n - 1
          /\ \A i \in 1 .. Len(data) : data[i] = <<p + overlap + i - 1, v>>
      BY <1>4, <1>5
    <3>2. p + overlap = next
      BY <1>5, <1>2
    <3> HIDE DEF overlap, data, next
    <3>3. next + Len(data) = p + n
      BY <3>1, <3>2, <1>2
    <3> QED BY <3>1, <3>2, <3>3
  <2>2. c = Extend(b, data)
    BY <1>5, <1>1 DEF Place
  <2> DEFINE joined == next + Len(data)
  <2> HIDE DEF data, c
  <2>3. PICK stop \in Nat :
          /\ joined <= stop /\ stop <= StreamLen + 1
          /\ stop \notin DOMAIN b.segments
          /\ \A k \in joined .. stop - 1 : k \in DOMAIN b.segments
          /\ c \in BufferType
          /\ c.next_seq = stop
          /\ c.contiguous = b.contiguous \o data
                              \o Slice(b.segments, joined, stop)
          /\ DOMAIN c.segments = {q \in DOMAIN b.segments : q > stop}
          /\ \A q \in DOMAIN c.segments : c.segments[q] = b.segments[q]
    <3>1. next + Len(data) <= StreamLen + 1
      BY <2>1, CaptureAssumption
    <3> QED BY <3>1, <2>1, <2>2, ExtendProperty
  <2>4. joined \in Nat /\ joined = p + n /\ Len(data) \in Nat
    BY <2>1, <1>2, LenProperties
  <2>sum. Len(out) + (Len(b.contiguous) + Len(data)) = joined - 1
    <3> HIDE DEF next
    <3> QED BY <2>4, <1>2, <1>ready
  <2> DEFINE slice == Slice(b.segments, joined, stop)
             front == b.contiguous \o data
  <2>5. /\ slice \in Seq(Bytes) /\ Len(slice) = stop - joined
        /\ \A i \in 1 .. stop - joined : slice[i] = b.segments[joined + i - 1]
    <3> HIDE DEF joined
    <3>1. \A k \in joined .. stop - 1 : b.segments[k] \in Bytes
      BY <2>3, HeldProperty
    <3> QED BY <3>1, <2>3, <2>4, SliceProperty
  <2>6. /\ front \in Seq(Bytes)
        /\ Len(front) = Len(b.contiguous) + Len(data)
        /\ CountsUp(front, Len(out))
    <3>1. CountsUp(data, Len(out) + Len(b.contiguous))
      <4> SUFFICES ASSUME NEW i \in 1 .. Len(data)
                   PROVE  data[i][1] = Len(out) + Len(b.contiguous) + i
        BY DEF CountsUp
      <4>1. data[i][1] = next + i - 1
        BY <2>1
      <4>2. Len(out) + Len(b.contiguous) + i = next + i - 1
        <5>1. i \in Int
          BY <2>4
        <5> HIDE DEF next
        <5> QED BY <5>1, <1>2, <1>ready
      <4> QED BY <4>1, <4>2
    <3> QED BY <3>1, <2>1, <1>2, CountsUpConcat DEF Ready
  <2>7. CountsUp(slice, Len(out) + Len(front))
    <3> SUFFICES ASSUME NEW i \in 1 .. Len(slice)
                 PROVE  slice[i][1] = Len(out) + Len(front) + i
      BY DEF CountsUp
    <3>1. joined + i - 1 \in joined .. stop - 1
      BY <2>3, <2>4, <2>5
    <3>2. slice[i][1] = joined + i - 1
      BY <3>1, <2>3, <2>5 DEF InPlace
    <3>3. Len(out) + Len(front) + i = joined + i - 1
      <4>1. i \in Int
        BY <2>3, <2>4, <2>5
      <4>2. Len(out) + Len(front) = joined - 1
        <5>1. Len(front) = Len(b.contiguous) + Len(data)
          BY <2>6
        <5> HIDE DEF front, next, joined
        <5> QED BY <5>1, <2>sum
      <4>3. Len(front) \in Nat
        BY <2>6, LenProperties
      <4> HIDE DEF slice, front, joined
      <4> QED BY <4>1, <4>2, <4>3, <2>4, <1>2
    <3> QED BY <3>2, <3>3
  <2>8. /\ CountsUp(c.contiguous, Len(out))
        /\ Len(c.contiguous) = Len(front) + Len(slice)
    <3>1. c.contiguous = front \o slice
      BY <2>3
    <3> HIDE DEF front, slice, joined, next
    <3>2. /\ CountsUp(front \o slice, Len(out))
          /\ Len(front \o slice) = Len(front) + Len(slice)
      BY <2>5, <2>6, <2>7, <1>2, CountsUpConcat
    <3> QED BY <3>1, <3>2
  <2>9. Len(out) + Len(c.contiguous) = c.next_seq - 1
    <3>1. Len(c.contiguous) = Len(b.contiguous) + Len(data) + (stop - joined)
      BY <2>8, <2>6, <2>5
    <3>2. Len(out) + (Len(b.contiguous) + Len(data) + (stop - joined)) = stop - 1
      <4>1. stop \in Nat
        OBVIOUS
      <4> HIDE DEF next
      <4> QED BY <4>1, <2>4, <1>2, <1>ready
    <3> QED BY <3>1, <3>2, <2>3
  <2>10. Holds(c, got \cup p .. p + n - 1)
    <3>1. ASSUME NEW q \in got \cup p .. p + n - 1
          PROVE  q \in (1 .. stop - 1) \cup DOMAIN c.segments
      BY <1>2, <1>5, <2>3, <2>4 DEF Holds
    <3>2. ASSUME NEW q \in (1 .. stop - 1) \cup DOMAIN c.segments
          PROVE  q \in got \cup p .. p + n - 1
      BY <1>2, <1>5, <2>3, <2>4 DEF Holds
    <3> QED BY <3>1, <3>2, <2>3 DEF Holds
  <2>11. InPlace(c)
    BY <2>3 DEF InPlace
  <2> QED BY <2>8, <2>9, <2>10, <2>11 DEF c, payload, Ready
<1>6. CASE ~ (p + n <= next) /\ ~ (p <= next)
  <2>1. /\ data \in Seq(Bytes) /\ Len(data) = n
        /\ \A i \in 1 .. Len(data) : data[i] = <<p + i - 1, v>>
    <3>1. overlap = 0
      BY <1>6, <1>2
    <3>2. /\ data \in Seq(Bytes) /\ Len(data) = n - overlap
          /\ \A i \in 1 .. Len(data) : data[i] = <<p + overlap + i - 1, v>>
      BY <1>4, <1>6
    <3> HIDE DEF overlap, data
    <3> QED BY <3>1, <3>2
  <2>2. c = InsertSegment(b, p, data)
    BY <1>6, <1>1 DEF Place
  <2> HIDE DEF data, c
  <2>3. /\ DOMAIN c.segments = DOMAIN b.segments \cup p .. p + n - 1
        /\ \A q \in DOMAIN c.segments :
             \/ q \in DOMAIN b.segments /\ c.segments[q] = b.segments[q]
             \/ q \in p .. p + n - 1 /\ c.segments[q] = data[q - p + 1]
        /\ c.next_seq = b.next_seq /\ c.contiguous = b.contiguous
    <3>1. p + Len(data) <= StreamLen + 1
      BY <2>1, CaptureAssumption
    <3> DEFINE new == p .. p + Len(data) - 1
    <3>2. /\ DOMAIN c.segments = DOMAIN b.segments \cup new
          /\ \A q \in DOMAIN c.segments :
               \/ q \in DOMAIN b.segments /\ c.segments[q] = b.segments[q]
               \/ q \in new /\ c.segments[q] = data[q - p + 1]
          /\ c.next_seq = b.next_seq /\ c.contiguous = b.contiguous
      <4> DEFINE d == InsertSegment(b, p, data)
      <4>1. /\ DOMAIN d.segments = DOMAIN b.segments \cup new
            /\ \A q \in DOMAIN d.segments :
                 \/ q \in DOMAIN b.segments /\ d.segments[q] = b.segments[q]
                 \/ q \in new /\ d.segments[q] = data[q - p + 1]
            /\ d.next_seq = b.next_seq /\ d.contiguous = b.contiguous
        <5>1. data \in Seq(Bytes)
          BY <2>1
        <5> QED BY <3>1, <5>1, InsertProperty, Zenon
      <4> HIDE DEF d, new
      <4>2. c = d
        BY <2>2 DEF d
      <4> QED BY <4>1, <4>2
    <3> QED BY <3>2, <2>1
  <2>4. ASSUME NEW q \in DOMAIN c.segments
        PROVE  q > c.next_seq /\ c.segments[q][1] = q
    <3>1. CASE q \in DOMAIN b.segments /\ c.segments[q] = b.segments[q]
      BY <3>1, <2>3 DEF Holds, InPlace
    <3>2. CASE q \in p .. p + n - 1 /\ c.segments[q] = data[q - p + 1]
      <4>1. q - p + 1 \in 1 .. Len(data)
        BY <3>2, <2>1
      <4>2. c.segments[q] = <<p + (q - p + 1) - 1, v>>
        BY <4>1, <3>2, <2>1
      <4>3. p + (q - p + 1) - 1 = q /\ q > next
        <5>1. q \in Int /\ q >= p
          BY <3>2
        <5>2. p > next
          BY <1>6, <1>2
        <5> HIDE DEF next
        <5> QED BY <5>1, <5>2, <1>2
      <4> QED BY <4>2, <4>3, <2>3
    <3> QED BY <3>1, <3>2, <2>3
  <2>5. Holds(c, got \cup p .. p + n - 1)
    BY <2>3, <2>4 DEF Holds
  <2>6. InPlace(c)
    BY <2>4 DEF InPlace
  <2> QED BY <2>3, <2>5, <2>6 DEF c, payload, Ready
<1>7. QED
  BY <1>3, <1>5, <1>6

(* A data segment keeps a direction orderly and hands nothing out.         *)
LEMMA DataOrderly ==
  ASSUME Orderly, NEW p \in 1 .. StreamLen + 1, NEW n \in Nat,
         NEW v \in Versions, NEW fin \in BOOLEAN, Data(p, n, v, fin)
  PROVE  Orderly' /\ pulled' = pulled
<1> DEFINE payload == Text(p, n, v)
           seq == SeqOf(p)
           marked == IF fin THEN MarkFin(buf, seq, Len(payload)) ELSE buf
           c == buf'
<1>1. /\ p + n - 1 <= StreamLen
      /\ fin => p + n - 1 = StreamLen
      /\ c = Feed(buf, seq, payload, FALSE, fin)
      /\ seen' = IF buf.isn = None THEN seen ELSE seen \cup p .. p + n - 1
      /\ sender_isn' = sender_isn /\ pulled' = pulled
  BY DEF Data
<1>2. p \in Nat \ {0}
  BY CaptureAssumption
<1>3. /\ buf \in BufferType /\ sender_isn \in Nat
      /\ buf.isn \in {None, sender_isn}
      /\ buf.isn # None => buf.next_seq >= 1
  BY CaptureAssumption DEF Orderly, Sound, TypeOK
<1>4. Sound' /\ NoWrap'
  BY DataSound, <1>1 DEF Orderly, NoWrap
<1>5. CASE buf.isn = None
  <2>1. c = buf /\ seen' = seen
    BY <1>1, <1>5 DEF Feed
  <2> QED BY <2>1, <1>1, <1>4
          DEF Orderly, Delivered, NothingLost, HeldInPlace, FinAtEnd
<1>6. CASE buf.isn # None
  <2>1. seq = sender_isn + p
    <3> DEFINE a == sender_isn + p
    <3>1. a \in Nat /\ SeqSpace \in Nat \ {0} /\ a < SeqSpace
      BY <1>2, <1>3, CaptureAssumption DEF Orderly, NoWrap
    <3> HIDE DEF a
    <3>2. a % SeqSpace = a
      BY <3>1, ModSmall
    <3> QED BY <3>2 DEF a, SeqOf
  <2>2. Len(payload) = n /\ payload \in Seq(Bytes)
    BY <1>1, <1>2, TextProperty
  <2> HIDE DEF seq, payload
  <2>3. /\ marked \in BufferType
        /\ marked.isn = buf.isn /\ marked.next_seq = buf.next_seq
        /\ marked.contiguous = buf.contiguous
        /\ marked.segments = buf.segments
        /\ marked.fin_seq # None =>
             marked.fin_seq = sender_isn + StreamLen + 1
    <3>1. CASE fin
      <4> DEFINE end == seq + Len(payload)
      <4>1. end = sender_isn + StreamLen + 1 /\ end \in Nat
        BY <2>1, <2>2, <1>1, <1>2, <1>3, <3>1, CaptureAssumption
      <4> HIDE DEF end
      <4>2. marked = [buf EXCEPT !.fin_seq = end, !.fin_received = TRUE]
        BY <3>1, Zenon DEF MarkFin, end
      <4> HIDE DEF marked
      <4> QED BY <4>1, <4>2, <1>3 DEF BufferType
    <3>2. CASE ~ fin
      BY <3>2, <1>3 DEF Orderly, FinAtEnd
    <3> QED BY <3>1, <3>2
  <2>4. Ready(marked, pulled) /\ Holds(marked, seen) /\ InPlace(marked)
    <3>1. Ready(marked, pulled)
      BY <2>3, <1>6 DEF Orderly, Delivered, Ready
    <3>2. Holds(marked, seen)
      BY <2>3, <1>6 DEF Orderly, NothingLost, Holds
    <3>3. InPlace(marked)
      BY <2>3 DEF Orderly, HeldInPlace, InPlace
    <3> QED BY <3>1, <3>2, <3>3
  <2>5. c = IF payload = NoBytes THEN marked
            ELSE Place(marked, seq - buf.isn, payload)
    BY <1>1, <1>6 DEF Feed
  <2> HIDE DEF marked
  <2>6. /\ Ready(c, pulled) /\ Holds(c, seen') /\ InPlace(c)
        /\ SameFlags(marked, c)
    <3>1. CASE n = 0
      <4>1. payload = NoBytes
        BY <3>1, <2>2 DEF NoBytes
      <4>2. c = marked
        BY <4>1, <2>5
      <4>3. seen' = seen
        <5>1. p .. p + n - 1 = {}
          BY <3>1, <1>2
        <5> QED BY <5>1, <1>1
      <4> QED BY <4>2, <4>3, <2>4 DEF SameFlags
    <3>2. CASE n # 0
      <4>1. payload # NoBytes /\ n \in Nat \ {0}
        BY <3>2, <2>2 DEF NoBytes
      <4>2. seq - buf.isn = p
        BY <2>1, <1>2, <1>3, <1>6
      <4>3. c = Place(marked, p, payload)
        BY <4>1, <4>2, <2>5
      <4>4. seen' = seen \cup p .. p + n - 1
        BY <1>1, <1>6
      <4>5. marked.next_seq >= 1
        BY <2>3, <1>3, <1>6
      <4> HIDE DEF c
      <4>6. /\ Ready(c, pulled) /\ Holds(c, seen \cup p .. p + n - 1)
            /\ InPlace(c)
        <5>1. pulled \in Seq(Bytes)
          BY DEF Orderly, Delivered
        <5>2. c = Place(marked, p, Text(p, n, v))
          BY <4>3 DEF payload
        <5>3. p + n - 1 <= StreamLen /\ n \in Nat \ {0}
          BY <4>1, <1>1
        <5>4. marked \in BufferType
          BY <2>3
        <5>5. /\ Ready(Place(marked, p, Text(p, n, v)), pulled)
              /\ Holds(Place(marked, p, Text(p, n, v)), seen \cup p .. p + n - 1)
              /\ InPlace(Place(marked, p, Text(p, n, v)))
          BY <4>5, <5>1, <5>3, <5>4, <2>4, <1>2, PlaceOrderly, Zenon
        <5> QED BY <5>2, <5>5
      <4>7. SameFlags(marked, c)
        <5>1. Exact(marked)
          <6>1. marked.total_buffered = buf.total_buffered
            BY <1>3 DEF marked, MarkFin, BufferType
          <6> QED BY <6>1, <2>3 DEF Orderly, Sound, TotalBufferedExact, Exact
        <5>2. p \in Int /\ p + Len(payload) <= StreamLen + 1
          BY <1>1, <1>2, <2>2, CaptureAssumption
        <5> QED BY <4>3, <4>5, <5>1, <5>2, <2>2, <2>3, PlaceProperty
      <4> QED BY <4>4, <4>6, <4>7
    <3> QED BY <3>1, <3>2
  <2>7. c.isn = buf.isn /\ c.fin_seq = marked.fin_seq
    BY <2>3, <2>6 DEF SameFlags
  <2>8. Delivered'
    BY <2>6, <2>7, <1>1, <1>6 DEF Orderly, Delivered, Ready
  <2>9. NothingLost'
    BY <2>6, <2>7, <1>6 DEF NothingLost, Holds
  <2>10. HeldInPlace' /\ FinAtEnd'
    BY <2>6, <2>7, <2>3, <1>1, <1>6 DEF HeldInPlace, InPlace, FinAtEnd
  <2> QED BY <2>8, <2>9, <2>10, <1>1, <1>4 DEF Orderly
<1>7. QED
  BY <1>5, <1>6

(* Every step of an orderly capture keeps the direction orderly.           *)
LEMMA NextOrderly == Orderly /\ [OrderlyNext]_vars => Orderly'
<1> SUFFICES ASSUME Orderly, [OrderlyNext]_vars PROVE Orderly'
  OBVIOUS
<1>1. CASE Handshake
  BY <1>1, HandshakeOrderly, CaptureAssumption DEF Handshake
<1>2. CASE Segment
  BY <1>2, DataOrderly, CaptureAssumption DEF Segment
<1>3. CASE GetData(FALSE)
  BY <1>3, GetDataOrderly
<1>4. CASE UNCHANGED vars
  BY <1>4 DEF vars, Orderly, Sound, TypeOK, TotalBufferedExact, NoWrap,
              Delivered, NothingLost, HeldInPlace, FinAtEnd
<1>5. QED
  BY <1>1, <1>2, <1>3, <1>4 DEF OrderlyNext

(* The invariant gives the properties the runs check.                      *)
LEMMA OrderlyInOrder == Orderly => InOrder
<1> SUFFICES ASSUME Orderly PROVE InOrder
  OBVIOUS
<1>1. /\ pulled \in Seq(Bytes) /\ buf.contiguous \in Seq(Bytes)
      /\ CountsUp(pulled, 0) /\ CountsUp(buf.contiguous, Len(pulled))
      /\ Len(pulled) + Len(buf.contiguous)
           = IF buf.isn = None THEN 0 ELSE buf.next_seq - 1
  BY DEF Orderly, Sound, TypeOK, BufferType, Delivered
<1>2. 0 + Len(pulled) = Len(pulled)
  BY <1>1, LenProperties
<1>3. /\ Len(Available) = Len(pulled) + Len(buf.contiguous)
      /\ CountsUp(Available, 0)
  BY <1>1, <1>2, CountsUpConcat DEF Available
<1>4. \A i \in 1 .. Len(Available) : Available[i][1] = i
  BY <1>3 DEF CountsUp
<1>5. QED
  BY <1>1, <1>3, <1>4 DEF InOrder

LEMMA OrderlyComplete == Orderly => CompleteIffAllSeen
<1> SUFFICES ASSUME Orderly PROVE CompleteIffAllSeen
  OBVIOUS
<1>1. /\ buf.next_seq \in 0 .. StreamLen + 1 /\ sender_isn \in Nat
      /\ buf \in BufferType
      /\ buf.isn \in {None, sender_isn}
      /\ buf.isn # None => buf.next_seq >= 1
      /\ buf.syn_received <=> buf.isn # None
      /\ buf.fin_received <=> buf.fin_seq # None
      /\ buf.fin_seq # None =>
           buf.isn # None /\ buf.fin_seq = sender_isn + StreamLen + 1
  BY CaptureAssumption DEF Orderly, Sound, TypeOK, BufferType, FinAtEnd
<1>2. CASE buf.fin_seq = None
  BY <1>1, <1>2 DEF CompleteIffAllSeen, IsComplete
<1>3. CASE buf.fin_seq # None
  <2>1. /\ buf.isn = sender_isn /\ buf.fin_seq - buf.isn = StreamLen + 1
        /\ buf.next_seq >= 1 /\ buf.fin_received /\ buf.syn_received
    BY <1>1, <1>3, CaptureAssumption
  <2>2. /\ seen = (1 .. buf.next_seq - 1) \cup DOMAIN buf.segments
        /\ \A q \in DOMAIN buf.segments : q > buf.next_seq
    BY <1>1, <1>3 DEF Orderly, NothingLost
  <2>3. DOMAIN buf.segments \subseteq Positions
    BY <1>1, HeldProperty
  <2>4. ASSUME IsComplete(buf) PROVE seen = Positions
    <3>1. buf.next_seq = StreamLen + 1 /\ DOMAIN buf.segments = {}
      BY <2>1, <2>4, <1>1, CaptureAssumption DEF IsComplete
    <3> QED BY <3>1, <2>2, CaptureAssumption DEF Positions
  <2>5. ASSUME seen = Positions PROVE IsComplete(buf)
    <3>1. buf.next_seq \notin seen
      BY <2>1, <2>2, <1>1, CaptureAssumption
    <3>2. buf.next_seq = StreamLen + 1
      BY <3>1, <2>5, <2>1, <1>1, CaptureAssumption DEF Positions
    <3>3. DOMAIN buf.segments = {}
      BY <3>2, <2>2, <2>3, CaptureAssumption DEF Positions
    <3>4. buf.next_seq >= buf.fin_seq - buf.isn
      BY <3>2, <2>1, CaptureAssumption
    <3> QED BY <3>3, <3>4, <2>1, <1>3 DEF IsComplete
  <2> QED BY <2>1, <2>4, <2>5 DEF CompleteIffAllSeen
<1>4. QED
  BY <1>2, <1>3

(* For every stream whose sequence numbers do not wrap, however its data   *)
(* segments are ordered, cut, repeated and overlapped: the bytes handed    *)
(* out and ready are the stream's first bytes in order, each once; every   *)
(* captured byte is delivered or held at its place; is_complete says       *)
(* exactly whether the FIN and all of the stream were captured.            *)
THEOREM OrderlyDelivery ==
  OrderlySpec => [](InOrder /\ NothingLost /\ HeldInPlace /\ CompleteIffAllSeen)
<1>1. Orderly => InOrder /\ NothingLost /\ HeldInPlace /\ CompleteIffAllSeen
  BY OrderlyInOrder, OrderlyComplete DEF Orderly
<1>2. QED
  BY <1>1, InitOrderly, NextOrderly, PTL DEF OrderlySpec, InitNoWrap

(* feed neither loses a captured byte nor keeps back one that could be     *)
(* handed out, for every stream and every capture of it.                   *)
THEOREM OrderlyNothingLost == OrderlySpec => []NothingLost
  BY OrderlyDelivery, PTL

(* is_complete holds exactly when the FIN and all the bytes were captured. *)
THEOREM OrderlyCompletion == OrderlySpec => []CompleteIffAllSeen
  BY OrderlyDelivery, PTL
-----------------------------------------------------------------------------
(* How many bytes have been made available, and which.                     *)
ShownPrefix ==
  /\ Len(Available) = IF buf.isn = None THEN 0 ELSE buf.next_seq - 1
  /\ Len(Available) \in 0 .. StreamLen
  /\ Stream!Prefix(Len(Available))
       = [i \in 1 .. Len(Available) |-> Available[i][1]]

(* An orderly direction shows a prefix of the stream.                      *)
LEMMA AvailableLength == Orderly => ShownPrefix
<1> SUFFICES ASSUME Orderly PROVE ShownPrefix
  OBVIOUS
<1>1. InOrder
  BY OrderlyInOrder
<1>2. /\ buf.next_seq \in 0 .. StreamLen + 1
      /\ buf.isn # None => buf.next_seq >= 1
  BY DEF Orderly, Sound, TypeOK, BufferType
<1>3. Len(Available) = IF buf.isn = None THEN 0 ELSE buf.next_seq - 1
  BY <1>1 DEF InOrder
<1> HIDE DEF Available
<1>4. Len(Available) \in 0 .. StreamLen
  BY <1>2, <1>3, CaptureAssumption
<1>5. Stream!Prefix(Len(Available))
        = [i \in 1 .. Len(Available) |-> Available[i][1]]
  BY <1>1 DEF InOrder, Stream!Prefix
<1>6. QED
  BY <1>3, <1>4, <1>5 DEF ShownPrefix

(* No step of an orderly capture takes back what was made available.       *)
LEMMA AvailableGrows ==
  ASSUME Orderly, Orderly', [OrderlyNext]_vars
  PROVE  Len(Available)' >= Len(Available)
<1>1. /\ Len(Available) = IF buf.isn = None THEN 0 ELSE buf.next_seq - 1
      /\ Len(Available) \in 0 .. StreamLen
  BY AvailableLength DEF ShownPrefix
<1>shown. ShownPrefix'
  BY AvailableLength, PTL
<1>2. /\ Len(Available)'
           = IF buf'.isn = None THEN 0 ELSE buf'.next_seq - 1
      /\ Len(Available)' \in 0 .. StreamLen
  BY <1>shown DEF ShownPrefix
<1>3. buf.next_seq \in Int /\ buf'.next_seq \in Int
  BY CaptureAssumption DEF Orderly, Sound, TypeOK, BufferType
<1>4. CASE Handshake
  <2>1. seen = {}
    BY <1>4 DEF Handshake
  <2>2. Len(Available) = 0
    <3>1. CASE buf.isn = None
      BY <3>1, <1>1
    <3>2. CASE buf.isn # None
      <4>1. 1 .. buf.next_seq - 1 = {}
        BY <2>1, <3>2 DEF Orderly, NothingLost
      <4>2. ~ (buf.next_seq - 1 >= 1)
        BY <4>1, <1>3
      <4> QED BY <4>2, <3>2, <1>1, <1>3, CaptureAssumption
    <3> QED BY <3>1, <3>2
  <2> QED BY <2>2, <1>2, CaptureAssumption
<1>5. CASE Segment
  <2>1. buf'.next_seq >= buf.next_seq /\ buf'.isn = buf.isn
    BY <1>5, DataSound, CaptureAssumption DEF Segment, Orderly
  <2> QED BY <2>1, <1>1, <1>2, <1>3
<1>6. CASE GetData(FALSE)
  <2>1. buf'.next_seq = buf.next_seq /\ buf'.isn = buf.isn
    BY <1>6 DEF GetData, AfterGetData, Orderly, Sound, TypeOK, BufferType
  <2> QED BY <2>1, <1>1, <1>2, <1>3
<1>7. CASE UNCHANGED vars
  BY <1>7, <1>1, CaptureAssumption DEF vars, Available
<1>8. QED
  BY <1>4, <1>5, <1>6, <1>7 DEF OrderlyNext

(* DirectionBuffer implements the abstract byte stream: whatever the       *)
(* capture of a stream that does not wrap, its owner sees a growing prefix *)
(* of what the sender wrote and never anything taken back or changed.      *)
THEOREM OrderlyRefinement == OrderlySpec => ImplementsByteStream
<1> DEFINE shown == [i \in 1 .. Len(Available) |-> Available[i][1]]
<1>1. Init /\ NoWrap => Stream!Init
  <2> SUFFICES ASSUME Init, NoWrap PROVE shown = << >>
    BY DEF Stream!Init
  <2>1. buf.isn = None /\ Orderly
    BY InitOrderly DEF Init, NewBuffer
  <2>2. Len(Available) = 0
    BY <2>1, AvailableLength DEF ShownPrefix
  <2> HIDE DEF Available
  <2> QED BY <2>2
<1>2. Orderly /\ Orderly' /\ [OrderlyNext]_vars => [Stream!Next]_shown
  <2> SUFFICES ASSUME Orderly, Orderly', [OrderlyNext]_vars
               PROVE  Stream!Next \/ shown' = shown
    OBVIOUS
  <2> DEFINE m == Len(Available)
  <2>1. m \in 0 .. StreamLen /\ Stream!Prefix(m) = shown
    BY AvailableLength DEF ShownPrefix
  <2>shown. ShownPrefix'
    BY AvailableLength, PTL
  <2>2. m' \in 0 .. StreamLen /\ Stream!Prefix(m') = shown'
    BY <2>shown DEF ShownPrefix
  <2>3. m' >= m
    BY AvailableGrows
  <2>4. Len(shown) = m
    BY <2>1, CaptureAssumption
  <2> HIDE DEF m, shown
  <2>5. CASE m' = m
    BY <2>1, <2>2, <2>5
  <2>6. CASE m' # m
    <3>1. m' \in 1 .. StreamLen /\ m' > Len(shown)
      BY <2>1, <2>2, <2>3, <2>4, <2>6, CaptureAssumption
    <3>2. shown' = Stream!Prefix(m')
      BY <2>2
    <3> QED BY <3>1, <3>2 DEF Stream!Next, Stream!Deliver, shown
  <2> QED BY <2>5, <2>6
<1>3. QED
  BY <1>1, <1>2, InitOrderly, NextOrderly, PTL
     DEF OrderlySpec, InitNoWrap, ImplementsByteStream, Stream!Spec
-----------------------------------------------------------------------------
(* Where feed places the bytes of a segment: at their stream position, or, *)
(* once the sender's numbers have wrapped, before everything.              *)
LEMMA PlacedWhere ==
  ASSUME sender_isn \in 0 .. SeqSpace - 1, StreamLen < SeqSpace,
         NEW p \in 1 .. StreamLen + 1, NEW n \in Nat, p + n - 1 <= StreamLen
  PROVE  LET rel == SeqOf(p) - sender_isn
         IN  rel \in Int /\ (rel = p \/ rel + n <= 1)
<1> DEFINE a == sender_isn + p
<1>1. /\ SeqSpace \in Nat \ {0} /\ StreamLen \in Nat
      /\ sender_isn \in Nat /\ p \in Nat /\ a \in Nat
      /\ SeqOf(p) = a % SeqSpace
  BY CaptureAssumption DEF SeqOf
<1>2. CASE a < SeqSpace
  <2>1. SeqOf(p) = a
    BY <1>1, <1>2, ModSmall
  <2> QED BY <2>1, <1>1
<1>3. CASE ~ (a < SeqSpace)
  <2>1. a \in SeqSpace .. 2 * SeqSpace - 1
    BY <1>1, <1>3
  <2>2. SeqOf(p) = a - SeqSpace
    <3> HIDE DEF a
    <3> QED BY <1>1, <2>1, ModWrapped
  <2> QED BY <2>2, <1>1
<1>4. QED
  BY <1>2, <1>3

(* Placing a payload there keeps every held byte at its own position.      *)
LEMMA PlaceInPlace ==
  ASSUME NEW b \in BufferType, b.next_seq >= 1, InPlace(b),
         NEW p \in Nat \ {0}, NEW n \in Nat, NEW v \in Versions,
         p + n - 1 <= StreamLen,
         NEW rel \in Int, rel = p \/ rel + n <= 1
  PROVE  InPlace(Place(b, rel, Text(p, n, v)))
<1> DEFINE payload == Text(p, n, v)
           next == b.next_seq
           overlap == IF rel < next THEN next - rel ELSE 0
           data == SubSeq(payload, overlap + 1, Len(payload))
           c == Place(b, rel, payload)
<1>1. /\ payload \in Seq(Bytes) /\ Len(payload) = n
      /\ \A i \in 1 .. n : payload[i] = <<p + i - 1, v>>
  BY TextProperty
<1>2. next \in Nat /\ next >= 1
  BY CaptureAssumption DEF BufferType
<1> HIDE DEF payload
<1>3. CASE rel + n <= next
  <2>1. c = b
    BY <1>1, <1>3 DEF Place
  <2> QED BY <2>1 DEF payload
<1>4. CASE ~ (rel + n <= next) /\ rel <= next
  <2>1. overlap \in 0 .. Len(payload) /\ next + (n - overlap) <= StreamLen + 1
    <3>1. rel + n <= StreamLen + 1
      BY <1>2, <1>4, CaptureAssumption
    <3> HIDE DEF next
    <3> QED BY <3>1, <1>1, <1>2, <1>4
  <2>2. c = Extend(b, data)
    BY <1>4, <1>1 DEF Place
  <2> HIDE DEF overlap
  <2>3. data \in Seq(Bytes) /\ Len(data) = n - overlap
    BY <2>1, <1>1, CutProperty
  <2> HIDE DEF data, c
  <2>4. /\ DOMAIN c.segments \subseteq DOMAIN b.segments
        /\ \A q \in DOMAIN c.segments : c.segments[q] = b.segments[q]
    BY <2>1, <2>2, <2>3, ExtendProperty
  <2> QED BY <2>4 DEF InPlace, c, payload
<1>5. CASE ~ (rel + n <= next) /\ ~ (rel <= next)
  <2>1. overlap = 0 /\ rel = p /\ 0 \in 0 .. Len(payload)
    BY <1>1, <1>2, <1>5
  <2>2. /\ data \in Seq(Bytes) /\ Len(data) = n
        /\ \A i \in 1 .. n : data[i] = payload[i + 0]
    <3> HIDE DEF overlap
    <3>1. data = SubSeq(payload, 0 + 1, Len(payload))
      BY <2>1
    <3> HIDE DEF data
    <3> QED BY <3>1, <2>1, <1>1, CutProperty
  <2>3. c = InsertSegment(b, p, data)
    BY <1>5, <1>1, <2>1 DEF Place
  <2> HIDE DEF data, c
  <2>4. \A q \in DOMAIN c.segments :
          \/ q \in DOMAIN b.segments /\ c.segments[q] = b.segments[q]
          \/ q \in p .. p + n - 1 /\ c.segments[q] = data[q - p + 1]
    <3>1. p + Len(data) <= StreamLen + 1
      BY <2>2, CaptureAssumption
    <3> QED BY <3>1, <2>2, <2>3, InsertProperty
  <2>5. \A q \in p .. p + n - 1 : data[q - p + 1] = <<q, v>>
    <3> SUFFICES ASSUME NEW q \in p .. p + n - 1
                 PROVE  data[q - p + 1] = <<q, v>>
      OBVIOUS
    <3> DEFINE i == q - p + 1
    <3>1. i \in 1 .. n /\ i + 0 = i /\ p + i - 1 = q
      OBVIOUS
    <3> HIDE DEF i
    <3>2. data[i] = <<p + i - 1, v>>
      BY <3>1, <2>2, <1>1
    <3> QED BY <3>1, <3>2 DEF i
  <2>6. InPlace(c)
    <3> SUFFICES ASSUME NEW q \in DOMAIN c.segments
                 PROVE  c.segments[q][1] = q
      BY DEF InPlace
    <3> QED BY <2>4, <2>5 DEF InPlace
  <2> QED BY <2>6 DEF c, payload
<1>6. QED
  BY <1>3, <1>4, <1>5

(* A data segment, in sequence or not, leaves the bytes held in place.     *)
LEMMA DataInPlace ==
  ASSUME Sound, HeldInPlace, StreamLen < SeqSpace,
         NEW p \in 1 .. StreamLen + 1, NEW n \in Nat,
         NEW v \in Versions, NEW fin \in BOOLEAN, Data(p, n, v, fin)
  PROVE  HeldInPlace'
<1> DEFINE payload == Text(p, n, v)
           seq == SeqOf(p)
           marked == IF fin THEN MarkFin(buf, seq, Len(payload)) ELSE buf
           rel == seq - buf.isn
<1>1. /\ p + n - 1 <= StreamLen /\ p \in Nat \ {0}
      /\ buf' = Feed(buf, seq, payload, FALSE, fin)
  BY CaptureAssumption DEF Data
<1>2. /\ buf \in BufferType /\ buf.isn \in {None, sender_isn}
      /\ buf.isn # None => buf.next_seq >= 1
      /\ sender_isn \in 0 .. SeqSpace - 1
  BY CaptureAssumption DEF Sound, TypeOK
<1>3. CASE buf.isn = None
  BY <1>1, <1>3 DEF Feed, HeldInPlace
<1>4. CASE buf.isn # None
  <2>1. rel \in Int /\ (rel = p \/ rel + n <= 1)
    <3> HIDE DEF seq
    <3>1. rel = seq - sender_isn
      BY <1>2, <1>4
    <3> QED BY <3>1, <1>1, <1>2, PlacedWhere DEF seq
  <2>2. /\ marked \in BufferType /\ marked.next_seq >= 1
        /\ marked.segments = buf.segments
    <3>1. CASE fin
      <4> DEFINE end == seq + Len(payload)
      <4>1. end \in Nat
        <5>1. seq \in Nat
          <6> DEFINE a == sender_isn + p
          <6>1. a \in Nat /\ SeqSpace \in Nat \ {0} /\ seq = a % SeqSpace
            BY <1>1, <1>2, CaptureAssumption DEF SeqOf
          <6> HIDE DEF a, seq
          <6> QED BY <6>1, ModBound
        <5>2. Len(payload) = n
          BY <1>1, TextProperty
        <5> HIDE DEF seq, payload
        <5> QED BY <5>1, <5>2
      <4> HIDE DEF end
      <4>2. marked = [buf EXCEPT !.fin_seq = end, !.fin_received = TRUE]
        BY <3>1, Zenon DEF MarkFin, end
      <4> HIDE DEF marked
      <4> QED BY <4>1, <4>2, <1>2, <1>4 DEF BufferType
    <3>2. CASE ~ fin
      BY <3>2, <1>2, <1>4
    <3> QED BY <3>1, <3>2
  <2>3. InPlace(marked)
    BY <2>2 DEF HeldInPlace, InPlace
  <2>4. buf' = IF payload = NoBytes THEN marked
               ELSE Place(marked, rel, payload)
    BY <1>1, <1>4 DEF Feed
  <2> HIDE DEF marked, rel
  <2>5. InPlace(Place(marked, rel, payload))
    BY <2>1, <2>2, <2>3, <1>1, PlaceInPlace
  <2> QED BY <2>3, <2>4, <2>5 DEF HeldInPlace, InPlace
<1>5. QED
  BY <1>3, <1>4

(* However the SYN is repeated, the sequence numbers wrap and the segments *)
(* overlap, the merge loop of feed leaves every held byte at the position  *)
(* it was sent at, for every stream shorter than the sequence space.       *)
THEOREM BytesHeldInPlace ==
  ASSUME StreamLen < SeqSpace
  PROVE  Spec => []HeldInPlace
<1> DEFINE Inv == Sound /\ HeldInPlace
<1>1. Init => Inv
  BY InitSound DEF Init, NewBuffer, NoBytes, HeldInPlace
<1>2. Inv /\ [Next]_vars => Inv'
  <2> SUFFICES ASSUME Sound, HeldInPlace, [Next]_vars PROVE Inv'
    OBVIOUS
  <2>1. CASE \E n \in 0 .. MaxSegment, v \in Versions : Syn(n, v)
    <3> PICK n \in 0 .. MaxSegment, v \in Versions : Syn(n, v)
      BY <2>1
    <3>1. Sound'
      BY SynSound, CaptureAssumption
    <3>2. buf'.segments = buf.segments
      BY DEF Syn, Feed, FeedSyn, Sound, TypeOK, BufferType
    <3> QED BY <3>1, <3>2 DEF HeldInPlace
  <2>2. CASE Segment
    BY <2>2, DataSound, DataInPlace, CaptureAssumption DEF Segment
  <2>3. CASE \E fill_gaps \in BOOLEAN : GetData(fill_gaps)
    <3> PICK fill_gaps \in BOOLEAN : GetData(fill_gaps)
      BY <2>3
    <3>1. Sound'
      BY GetDataSound
    <3>2. buf'.segments \in {buf.segments, NoBytes}
      BY DEF GetData, AfterGetData, Cleared, Sound, TypeOK, BufferType
    <3> QED BY <3>1, <3>2 DEF HeldInPlace, NoBytes
  <2>4. CASE UNCHANGED vars
    BY <2>4 DEF vars, Sound, TypeOK, TotalBufferedExact, HeldInPlace
  <2> QED BY <2>1, <2>2, <2>3, <2>4 DEF Next
<1>3. QED
  BY <1>1, <1>2, PTL DEF Spec
-----------------------------------------------------------------------------
(* get_data(fill_gaps=True).  The segments are the runs of what is held,   *)
(* in order.                                                               *)
AnyByte == Bytes \cup {Zero}

(* What is held from n up to m, zeros where nothing is.                    *)
Filled(held, n, m) ==
  [j \in 1 .. m - n |-> IF n + j - 1 \in DOMAIN held THEN held[n + j - 1] ELSE Zero]

LEMMA FilledIs ==
  ASSUME NEW held \in HeldBytes, NEW n \in Nat, NEW m \in Nat, n <= m
  PROVE  /\ Filled(held, n, m) \in Seq(AnyByte) /\ Len(Filled(held, n, m)) = m - n
         /\ \A j \in 1 .. m - n : Filled(held, n, m)[j]
                = IF n + j - 1 \in DOMAIN held THEN held[n + j - 1] ELSE Zero
<1>1. \A p \in DOMAIN held : held[p] \in Bytes
  BY DEF HeldBytes
<1>2. m - n \in Nat
  OBVIOUS
<1>3. \A j \in 1 .. m - n :
        (IF n + j - 1 \in DOMAIN held THEN held[n + j - 1] ELSE Zero) \in AnyByte
  BY <1>1 DEF AnyByte
<1> HIDE DEF AnyByte
<1> QED BY <1>2, <1>3 DEF Filled

LEMMA ConcatIs ==
  ASSUME NEW S, NEW x \in Seq(S), NEW y \in Seq(S), NEW p, NEW q, Len(x) = p, Len(y) = q
  PROVE  /\ x \o y \in Seq(S) /\ Len(x \o y) = p + q
         /\ \A j \in 1 .. p : (x \o y)[j] = x[j]
         /\ \A j \in 1 .. q : (x \o y)[p + j] = y[j]
  OBVIOUS

(* Going on over a gap and the run behind it.                              *)
LEMMA FilledStep ==
  ASSUME NEW held \in HeldBytes, NEW n \in Nat, NEW a \in Nat, NEW s \in Nat, NEW e \in Nat,
         n <= a, a <= s, s <= e,
         \A k \in a .. s - 1 : k \notin DOMAIN held,
         \A k \in s .. e - 1 : k \in DOMAIN held
  PROVE  Filled(held, n, a) \o Zeros(s - a) \o Slice(held, s, e) = Filled(held, n, e)
<1> DEFINE x == Filled(held, n, a)
           y == Zeros(s - a)
           z == Slice(held, s, e)
           w == Filled(held, n, e)
<1>1. /\ x \in Seq(AnyByte) /\ Len(x) = a - n
      /\ \A j \in 1 .. a - n : x[j]
             = IF n + j - 1 \in DOMAIN held THEN held[n + j - 1] ELSE Zero
      /\ w \in Seq(AnyByte) /\ Len(w) = e - n
      /\ \A j \in 1 .. e - n : w[j]
             = IF n + j - 1 \in DOMAIN held THEN held[n + j - 1] ELSE Zero
  <2>1. n <= e
    OBVIOUS
  <2> QED BY <2>1, FilledIs
<1>2. y \in Seq(AnyByte) /\ Len(y) = s - a /\ \A j \in 1 .. s - a : y[j] = Zero
  <2>1. Zero \in AnyByte /\ s - a \in Nat
    BY DEF AnyByte
  <2> HIDE DEF AnyByte
  <2> QED BY <2>1 DEF Zeros
<1>3. z \in Seq(AnyByte) /\ Len(z) = e - s /\ \A j \in 1 .. e - s : z[j] = held[s + j - 1]
  <2>1. \A k \in s .. e - 1 : held[k] \in Bytes
    BY DEF HeldBytes
  <2>2. z \in Seq(Bytes) /\ Len(z) = e - s /\ \A j \in 1 .. e - s : z[j] = held[s + j - 1]
    BY <2>1, SliceProperty
  <2>3. z \in Seq(AnyByte)
    <3>1. Bytes \subseteq AnyByte
      BY DEF AnyByte
    <3> HIDE DEF z, AnyByte
    <3> QED BY <2>2, <3>1
  <2> QED BY <2>2, <2>3
<1> HIDE DEF x, y, z, w, AnyByte
<1> DEFINE xy == x \o y
           xyz == xy \o z
<1>4. /\ xy \in Seq(AnyByte) /\ Len(xy) = s - n
      /\ \A j \in 1 .. a - n : xy[j] = x[j]
      /\ \A j \in 1 .. s - a : xy[a - n + j] = y[j]
  <2> DEFINE p == a - n
             q == s - a
  <2>1. p + q = s - n
    OBVIOUS
  <2>2. x \in Seq(AnyByte) /\ y \in Seq(AnyByte) /\ Len(x) = p /\ Len(y) = q
    BY <1>1, <1>2
  <2> HIDE DEF p, q
  <2>3. /\ x \o y \in Seq(AnyByte) /\ Len(x \o y) = p + q
        /\ \A j \in 1 .. p : (x \o y)[j] = x[j]
        /\ \A j \in 1 .. q : (x \o y)[p + j] = y[j]
    BY <2>2, ConcatIs
  <2> QED BY <2>1, <2>3 DEF p, q
<1> HIDE DEF xy
<1>5. /\ xyz \in Seq(AnyByte) /\ Len(xyz) = e - n
      /\ \A j \in 1 .. s - n : xyz[j] = xy[j]
      /\ \A j \in 1 .. e - s : xyz[s - n + j] = z[j]
  <2> DEFINE p == s - n
             q == e - s
  <2>1. p + q = e - n
    OBVIOUS
  <2>2. Len(xy) = p /\ Len(z) = q
    BY <1>3, <1>4
  <2> HIDE DEF p, q
  <2>3. /\ xy \o z \in Seq(AnyByte) /\ Len(xy \o z) = p + q
        /\ \A j \in 1 .. p : (xy \o z)[j] = xy[j]
        /\ \A j \in 1 .. q : (xy \o z)[p + j] = z[j]
    BY <1>3, <1>4, <2>2, ConcatIs
  <2> QED BY <2>1, <2>3 DEF p, q
<1> HIDE DEF xyz
<1>6. ASSUME NEW j \in 1 .. e - n PROVE xyz[j] = w[j]
  <2>1. CASE j <= a - n
    <3>1. j \in 1 .. a - n /\ j \in 1 .. s - n
      BY <2>1
    <3> QED BY <3>1, <1>1, <1>4, <1>5
  <2>2. CASE a - n < j /\ j <= s - n
    <3> DEFINE i == j - (a - n)
    <3>1. i \in 1 .. s - a /\ j = a - n + i /\ j \in 1 .. s - n /\ n + j - 1 \in a .. s - 1
      BY <2>2
    <3> HIDE DEF i
    <3>2. xyz[j] = Zero
      BY <3>1, <1>2, <1>4, <1>5
    <3> QED BY <3>1, <3>2, <1>1
  <2>3. CASE s - n < j
    <3> DEFINE i == j - (s - n)
    <3>1. i \in 1 .. e - s /\ j = s - n + i /\ n + j - 1 \in s .. e - 1 /\ s + i - 1 = n + j - 1
      BY <2>3
    <3> HIDE DEF i
    <3>2. xyz[j] = held[n + j - 1]
      BY <3>1, <1>3, <1>5
    <3> QED BY <3>1, <3>2, <1>1
  <2> QED BY <2>1, <2>2, <2>3
<1>7. xyz = w
  BY <1>1, <1>5, <1>6
<1> QED BY <1>7 DEF xyz, xy, x, y, z, w

(* The i-th segment: where it starts and ends.                             *)
StartOf(held, i) ==
  CHOOSE p \in RunStarts(held) : Cardinality({q \in RunStarts(held) : q < p}) = i - 1
EndOf(held, i) == RunEnd(held, StartOf(held, i))

LEMMA SegmentsAre ==
  ASSUME NEW held
  PROVE  Segments(held) = [i \in 1 .. Cardinality(RunStarts(held)) |->
           [rel_seq |-> StartOf(held, i),
            data |-> Slice(held, StartOf(held, i), EndOf(held, i))]]
  BY DEF Segments, StartOf, EndOf, RunAt

LEMMA StartsAre ==
  ASSUME NEW held \in HeldBytes
  PROVE  /\ RunStarts(held) \in SUBSET Nat /\ IsFiniteSet(RunStarts(held))
         /\ DOMAIN held \in SUBSET Nat /\ IsFiniteSet(DOMAIN held)
         /\ RunStarts(held) \subseteq DOMAIN held
         /\ Cardinality(RunStarts(held)) \in Nat
         /\ \A i \in 1 .. Cardinality(RunStarts(held)) :
              /\ StartOf(held, i) \in RunStarts(held)
              /\ Cardinality(Below(RunStarts(held), StartOf(held, i))) = i - 1
<1> DEFINE T == RunStarts(held)
<1>1. IsFiniteSet(DOMAIN held) /\ DOMAIN held \in SUBSET Nat
  <2>1. DOMAIN held \in SUBSET Positions
    BY DEF HeldBytes
  <2>2. IsFiniteSet(Positions) /\ Positions \in SUBSET Nat
    BY CaptureAssumption, FS_Interval DEF Positions
  <2> QED BY <2>1, <2>2, FS_Subset
<1>2. T \subseteq DOMAIN held
  BY DEF RunStarts
<1>3. T \in SUBSET Nat /\ IsFiniteSet(T) /\ Cardinality(T) \in Nat
  BY <1>1, <1>2, FS_Subset, FS_CardinalityType
<1>4. ASSUME NEW i \in 1 .. Cardinality(T)
      PROVE  StartOf(held, i) \in T /\ Cardinality(Below(T, StartOf(held, i))) = i - 1
  <2>1. \E p \in T : Cardinality({q \in T : q < p}) = i - 1
    <3> HIDE DEF T
    <3> QED BY <1>3, PlacesTaken DEF Below
  <2> QED BY <2>1 DEF StartOf, Below
<1> QED BY <1>1, <1>2, <1>3, <1>4

(* Where segment i ends, and the bytes of the first i are filled up to.    *)
UpTo(held, n, i) == IF i = 0 THEN n ELSE EndOf(held, i)

LEMMA EndIs ==
  ASSUME NEW held \in HeldBytes, NEW i \in 1 .. Cardinality(RunStarts(held))
  PROVE  /\ StartOf(held, i) \in Nat /\ EndOf(held, i) \in Nat
         /\ StartOf(held, i) < EndOf(held, i)
         /\ EndOf(held, i) \notin DOMAIN held
         /\ \A k \in StartOf(held, i) .. EndOf(held, i) - 1 : k \in DOMAIN held
<1> DEFINE s == StartOf(held, i)
           e == EndOf(held, i)
<1>1. s \in DOMAIN held /\ s \in Nat /\ DOMAIN held \in SUBSET Nat /\ IsFiniteSet(DOMAIN held)
  BY StartsAre
<1>2. /\ e \in Nat /\ s <= e /\ e \notin DOMAIN held
      /\ \A k \in s .. e - 1 : k \in DOMAIN held
  <2> HIDE DEF s
  <2> QED BY <1>1, RunEndProperty DEF EndOf, s
<1> HIDE DEF s, e
<1>3. s # e
  BY <1>1, <1>2
<1> QED BY <1>1, <1>2, <1>3 DEF s, e

(* One segment after the other: the next one starts at or behind where the *)
(* last one ended, and nothing is held between.                            *)
LEMMA SegmentsInOrder ==
  ASSUME NEW held \in HeldBytes, NEW n \in Nat, \A p \in DOMAIN held : n <= p,
         NEW i \in 1 .. Cardinality(RunStarts(held))
  PROVE  /\ UpTo(held, n, i - 1) \in Nat /\ n <= UpTo(held, n, i - 1)
         /\ UpTo(held, n, i - 1) <= StartOf(held, i)
         /\ \A k \in UpTo(held, n, i - 1) .. StartOf(held, i) - 1 : k \notin DOMAIN held
<1> DEFINE T == RunStarts(held)
           D == DOMAIN held
           s == StartOf(held, i)
           a == UpTo(held, n, i - 1)
<1>1. /\ T \in SUBSET Nat /\ IsFiniteSet(T) /\ IsFiniteSet(D) /\ D \in SUBSET Nat /\ T \subseteq D
      /\ Cardinality(T) \in Nat /\ s \in T /\ Cardinality(Below(T, s)) = i - 1
  BY StartsAre
<1>2. \A p \in T : p \in D /\ p - 1 \notin D
  BY DEF RunStarts
<1>3. \A p \in D : p - 1 \notin D => p \in T
  BY DEF RunStarts
<1>4. CASE i = 1
  <2>1. a = n
    BY <1>4 DEF UpTo
  <2>2. s \in Nat /\ n <= s
    BY <1>1
  <2>3. \A k \in D : s <= k
    <3>1. Cardinality(Below(T, s)) = 0
      BY <1>1, <1>4
    <3>2. T = StartsIn(D)
      BY DEF RunStarts, StartsIn
    <3> HIDE DEF T, D, s
    <3>3. /\ D \in SUBSET Nat /\ IsFiniteSet(D)
          /\ s \in StartsIn(D) /\ Cardinality(Below(StartsIn(D), s)) = 0
      BY <1>1, <3>1, <3>2
    <3> QED BY <3>3, FirstRun
  <2> QED BY <2>1, <2>2, <2>3
<1>5. CASE i # 1
  <2> DEFINE h == i - 1
             r == StartOf(held, h)
  <2>1. h \in 1 .. Cardinality(T) /\ h # 0 /\ h = i - 1
    BY <1>1, <1>5
  <2>2. a = EndOf(held, h)
    BY <2>1 DEF UpTo
  <2> HIDE DEF h
  <2>3. r \in T /\ Cardinality(Below(T, r)) = h - 1
    <3> HIDE DEF T
    <3> QED BY <2>1, StartsAre DEF T
  <2>4. /\ r \in Nat /\ a \in Nat /\ r < a /\ a \notin D
        /\ \A k \in r .. a - 1 : k \in D
    <3> HIDE DEF T
    <3> QED BY <2>1, <2>2, EndIs DEF T
  <2>5. Cardinality(Below(T, s)) = Cardinality(Below(T, r)) + 1
    BY <1>1, <2>1, <2>3
  <2>6. T = StartsIn(D)
    BY DEF RunStarts, StartsIn
  <2>7. n <= r
    BY <2>3, <1>1
  <2> HIDE DEF T, D, r, s, a
  <2>8. a < s /\ \A k \in a .. s - 1 : k \notin D
    <3>1. /\ D \in SUBSET Nat /\ IsFiniteSet(D)
          /\ r \in StartsIn(D) /\ s \in StartsIn(D)
          /\ Cardinality(Below(StartsIn(D), s)) = Cardinality(Below(StartsIn(D), r)) + 1
      BY <1>1, <2>3, <2>5, <2>6
    <3> QED BY <3>1, <2>4, RunsInOrder
  <2>9. a \in Nat /\ n <= a /\ a <= s
    BY <1>1, <2>4, <2>7, <2>8
  <2> QED BY <2>8, <2>9 DEF a, s, D
<1> QED BY <1>4, <1>5

(* What the walk over the segments returns: the bytes held from n on, with *)
(* zeros between them.                                                     *)
Walked(held, n, f) ==
  f = [i \in 0 .. Len(Segments(held)) |->
        IF i = 0 THEN [pos |-> n, out |-> NoBytes]
        ELSE LET before == f[i - 1]
                 seg    == Segments(held)[i]
                 gap    == IF seg.rel_seq > before.pos
                             THEN seg.rel_seq - before.pos ELSE 0
             IN  [pos |-> before.pos + gap + Len(seg.data),
                  out |-> before.out \o Zeros(gap) \o seg.data]]

LEMMA GapFilledWalks ==
  ASSUME NEW held, NEW n, NEW g, Walked(held, n, g)
  PROVE  \E f : Walked(held, n, f) /\ GapFilled(Segments(held), n) = f[Len(Segments(held))].out
<1> DEFINE f == CHOOSE h : Walked(held, n, h)
<1>1. Walked(held, n, f)
  OBVIOUS
<1>2. GapFilled(Segments(held), n) = f[Len(Segments(held))].out
  BY DEF GapFilled, Walked
<1> QED BY <1>1, <1>2

(* The step from one segment to the next.                                  *)
LEMMA WalkStep ==
  ASSUME NEW held \in HeldBytes, NEW n \in Nat, \A p \in DOMAIN held : n <= p,
         NEW i \in 1 .. Cardinality(RunStarts(held)), NEW before,
         before = [pos |-> UpTo(held, n, i - 1), out |-> Filled(held, n, UpTo(held, n, i - 1))]
  PROVE  LET seg == Segments(held)[i]
             gap == IF seg.rel_seq > before.pos THEN seg.rel_seq - before.pos ELSE 0
         IN  [pos |-> before.pos + gap + Len(seg.data),
              out |-> before.out \o Zeros(gap) \o seg.data]
             = [pos |-> UpTo(held, n, i), out |-> Filled(held, n, UpTo(held, n, i))]
<1> DEFINE seg == Segments(held)[i]
           gap == IF seg.rel_seq > before.pos THEN seg.rel_seq - before.pos ELSE 0
           a == UpTo(held, n, i - 1)
           s == StartOf(held, i)
           e == EndOf(held, i)
           z == Slice(held, s, e)
<1>1. seg.rel_seq = s /\ seg.data = z
  BY SegmentsAre
<1>2. /\ a \in Nat /\ n <= a /\ a <= s /\ \A k \in a .. s - 1 : k \notin DOMAIN held
  BY SegmentsInOrder
<1>3. /\ s \in Nat /\ e \in Nat /\ s < e /\ \A k \in s .. e - 1 : k \in DOMAIN held
  BY EndIs
<1>4. e = UpTo(held, n, i)
  BY DEF UpTo
<1>5. before.pos = a /\ before.out = Filled(held, n, a)
  OBVIOUS
<1> HIDE DEF seg, a, s, e
<1>6. Len(z) = e - s
  <2>1. \A k \in s .. e - 1 : held[k] \in Bytes
    BY <1>3 DEF HeldBytes
  <2>2. s <= e
    BY <1>3
  <2> QED BY <1>3, <2>1, <2>2, SliceProperty
<1>7. gap = s - a
  BY <1>1, <1>2, <1>3, <1>5
<1>8. before.pos + gap + Len(seg.data) = e
  BY <1>1, <1>2, <1>3, <1>5, <1>6, <1>7
<1>9. before.out \o Zeros(gap) \o seg.data = Filled(held, n, e)
  <2>1. Filled(held, n, a) \o Zeros(s - a) \o z = Filled(held, n, e)
    <3>1. s <= e
      BY <1>3
    <3> QED BY <1>2, <1>3, <3>1, FilledStep
  <2> HIDE DEF gap, z
  <2> QED BY <1>1, <1>5, <1>7, <2>1
<1> QED BY <1>4, <1>8, <1>9 DEF seg

(* The last segment ends behind everything that is held.                   *)
LEMMA LastEnd ==
  ASSUME NEW held \in HeldBytes, NEW n \in Nat, NEW c,
         c = Cardinality(RunStarts(held)), NEW m, m = UpTo(held, n, c)
  PROVE  /\ \A p \in DOMAIN held : p < m
         /\ m # n => m - 1 \in DOMAIN held
<1> DEFINE T == RunStarts(held)
           D == DOMAIN held
           s == StartOf(held, c)
<1>1. /\ T \in SUBSET Nat /\ IsFiniteSet(T) /\ IsFiniteSet(D) /\ D \in SUBSET Nat
      /\ c \in Nat
  BY StartsAre
<1>2. T = StartsIn(D)
  BY DEF RunStarts, StartsIn
<1>3. CASE c = 0
  <2>1. T = {}
    <3> HIDE DEF T
    <3> QED BY <1>1, <1>3, FS_EmptySet DEF T
  <2>2. ASSUME NEW p \in D PROVE FALSE
    <3>1. PICK q \in D : q - 1 \notin D
      BY <1>1, RunCovers
    <3> QED BY <3>1, <2>1 DEF RunStarts
  <2>3. m = n
    BY <1>3 DEF UpTo
  <2> QED BY <2>2, <2>3
<1>4. CASE c # 0
  <2>1. c \in 1 .. Cardinality(T)
    BY <1>1, <1>4
  <2>2. m = EndOf(held, c)
    BY <1>4 DEF UpTo
  <2>3. s \in T /\ Cardinality(Below(T, s)) = c - 1
    BY <2>1, StartsAre
  <2>4. /\ s \in Nat /\ m \in Nat /\ s < m /\ m \notin D
        /\ \A k \in s .. m - 1 : k \in D
    BY <2>1, <2>2, EndIs
  <2>5. Cardinality(T) = c
    OBVIOUS
  <2> HIDE DEF T, D, s
  <2>6. \A p \in D : p < m
    BY <1>1, <1>2, <2>3, <2>4, <2>5, LastRun
  <2>7. m - 1 \in s .. m - 1
    BY <2>4
  <2> QED BY <2>4, <2>6, <2>7 DEF D
<1> QED BY <1>3, <1>4

LEMMA GapFilledIs ==
  ASSUME NEW held \in HeldBytes, NEW n \in Nat, \A p \in DOMAIN held : n <= p
  PROVE  \E m \in Nat : /\ n <= m /\ GapFilled(Segments(held), n) = Filled(held, n, m)
                        /\ \A p \in DOMAIN held : p < m
                        /\ m # n => m - 1 \in DOMAIN held
<1> DEFINE c == Cardinality(RunStarts(held))
           up(i) == [pos |-> UpTo(held, n, i), out |-> Filled(held, n, UpTo(held, n, i))]
           g == [i \in 0 .. c |-> up(i)]
           Step(before, i) ==
             LET seg == Segments(held)[i]
                 gap == IF seg.rel_seq > before.pos THEN seg.rel_seq - before.pos ELSE 0
             IN  [pos |-> before.pos + gap + Len(seg.data),
                  out |-> before.out \o Zeros(gap) \o seg.data]
<1>1. Len(Segments(held)) = c /\ c \in Nat
  BY SegmentsAre, StartsAre
<1>2. up(0) = [pos |-> n, out |-> NoBytes]
  <2>1. UpTo(held, n, 0) = n
    BY DEF UpTo
  <2>2. Filled(held, n, n) = NoBytes
    <3>1. Filled(held, n, n) \in Seq(AnyByte) /\ Len(Filled(held, n, n)) = 0
      BY FilledIs
    <3> QED BY <3>1 DEF NoBytes
  <2> QED BY <2>1, <2>2
<1>3. ASSUME NEW i \in 1 .. c PROVE Step(up(i - 1), i) = up(i)
  BY WalkStep
<1>4. Walked(held, n, g)
  <2> DEFINE h == [i \in 0 .. c |-> IF i = 0 THEN [pos |-> n, out |-> NoBytes]
                                    ELSE Step(g[i - 1], i)]
  <2>1. ASSUME NEW i \in 0 .. c PROVE g[i] = h[i]
    <3>1. CASE i = 0
      BY <3>1, <1>2
    <3>2. CASE i # 0
      <4>1. i \in 1 .. c /\ i - 1 \in 0 .. c
        BY <1>1, <3>2
      <4>2. g[i] = up(i) /\ g[i - 1] = up(i - 1)
        BY <4>1
      <4> HIDE DEF g, up, Step
      <4>3. h[i] = Step(up(i - 1), i)
        BY <3>2, <4>2
      <4> QED BY <4>1, <4>2, <4>3, <1>3
    <3> QED BY <3>1, <3>2
  <2>2. g = h
    <3> HIDE DEF up, Step
    <3> QED BY <2>1
  <2> QED BY <1>1, <2>2 DEF Walked
<1>5. PICK f : Walked(held, n, f) /\ GapFilled(Segments(held), n) = f[Len(Segments(held))].out
  BY <1>4, GapFilledWalks
<1>6. \A i \in 0 .. c : f[i] = IF i = 0 THEN [pos |-> n, out |-> NoBytes] ELSE Step(f[i - 1], i)
  BY <1>1, <1>5 DEF Walked
<1> DEFINE T == {i \in 0 .. c : f[i] # up(i)}
<1> HIDE DEF c, up, Step
<1>7. T = {}
  <2> SUFFICES ASSUME T # {} PROVE FALSE
    OBVIOUS
  <2>1. PICK m \in T : \A j \in T : m <= j
    <3>1. T \in SUBSET Nat
      BY <1>1
    <3> HIDE DEF T
    <3> QED BY <3>1, LeastNatural
  <2>2. m \in 0 .. c /\ f[m] # up(m)
    OBVIOUS
  <2>3. m # 0
    <3>1. f[0] = [pos |-> n, out |-> NoBytes]
      BY <1>1, <1>6
    <3> QED BY <3>1, <2>2, <1>2
  <2>4. m - 1 \in 0 .. c /\ m \in 1 .. c /\ m - 1 \notin T
    <3> HIDE DEF T
    <3> QED BY <1>1, <2>1, <2>2, <2>3
  <2>5. f[m - 1] = up(m - 1)
    BY <2>4
  <2>6. f[m] = Step(f[m - 1], m)
    BY <1>6, <2>2, <2>3
  <2> QED BY <2>2, <2>4, <2>5, <2>6, <1>3
<1>8. f[c].out = Filled(held, n, UpTo(held, n, c))
  <2>1. f[c] = up(c)
    BY <1>1, <1>7
  <2> QED BY <2>1 DEF up
<1>9. UpTo(held, n, c) \in Nat /\ n <= UpTo(held, n, c)
  <2>1. CASE c = 0
    BY <2>1 DEF UpTo
  <2>2. CASE c # 0
    <3>1. c \in 1 .. c
      BY <1>1, <2>2
    <3>2. /\ EndOf(held, c) \in Nat /\ StartOf(held, c) \in Nat
          /\ StartOf(held, c) < EndOf(held, c) /\ StartOf(held, c) \in DOMAIN held
      BY <3>1, EndIs, StartsAre DEF c
    <3>3. n <= StartOf(held, c)
      BY <3>2
    <3> QED BY <2>2, <3>2, <3>3 DEF UpTo
  <2> QED BY <2>1, <2>2
<1>10. /\ \A p \in DOMAIN held : p < UpTo(held, n, c)
       /\ UpTo(held, n, c) # n => UpTo(held, n, c) - 1 \in DOMAIN held
  BY LastEnd DEF c
<1> QED BY <1>1, <1>5, <1>8, <1>9, <1>10 DEF c

(* The whole answer.                                                       *)
LEMMA OrderlyFlush == Orderly => FlushAligned
<1> SUFFICES ASSUME Orderly PROVE FlushAligned
  OBVIOUS
<1> DEFINE held == buf.segments
           n == buf.next_seq
           base == Len(pulled)
           front == buf.contiguous
           back == GapFilled(Segments(held), n)
           out == front \o back
<1>1. /\ pulled \in Seq(Bytes) /\ front \in Seq(Bytes) /\ held \in HeldBytes
      /\ n \in Nat /\ base \in Nat /\ CountsUp(front, base)
      /\ (buf.isn # None => n >= 1)
  BY DEF Orderly, Sound, TypeOK, BufferType, Delivered
<1>2. base + Len(front) = IF buf.isn = None THEN 0 ELSE n - 1
  BY DEF Orderly, Delivered
<1>3. \A p \in DOMAIN held : n <= p /\ held[p][1] = p
  <2>1. \A p \in DOMAIN held : held[p][1] = p
    BY DEF Orderly, HeldInPlace
  <2>2. \A p \in DOMAIN held : p \in Nat
    BY <1>1, StartsAre
  <2>3. \A p \in DOMAIN held : n <= p
    BY <1>1, <2>2 DEF Orderly, NothingLost
  <2> QED BY <2>1, <2>3
<1>4. PICK m \in Nat : /\ n <= m /\ back = Filled(held, n, m)
                       /\ \A p \in DOMAIN held : p < m
                       /\ m # n => m - 1 \in DOMAIN held
  <2> HIDE DEF held, n
  <2> QED BY <1>1, <1>3, GapFilledIs
<1>5. /\ back \in Seq(AnyByte) /\ Len(back) = m - n
      /\ \A j \in 1 .. m - n :
           back[j] = IF n + j - 1 \in DOMAIN held THEN held[n + j - 1] ELSE Zero
  <2>1. n <= m /\ back = Filled(held, n, m)
    BY <1>4
  <2> HIDE DEF held, n, back
  <2> QED BY <1>1, <2>1, FilledIs
<1>6. DataOf(buf, TRUE) = out
  BY DEF DataOf
<1>7. CASE buf.isn = None
  <2>1. base = 0 /\ Len(front) = 0 /\ DOMAIN held = {} /\ seen = {}
    <3>1. Len(front) \in Nat
      BY <1>1
    <3>2. DOMAIN held = {} /\ seen = {}
      BY <1>7 DEF Orderly, NothingLost
    <3> HIDE DEF front, base
    <3> QED BY <1>1, <1>2, <1>7, <3>1, <3>2
  <2>2. front = << >>
    BY <1>1, <2>1
  <2>3. out = back
    <3> HIDE DEF back
    <3> QED BY <1>5, <2>2
  <2>4. out = NoBytes
    <3>1. m = n
      <4> HIDE DEF held, n, back
      <4> QED BY <1>1, <1>4, <2>1
    <3>2. Len(back) = 0
      <4> HIDE DEF back, n
      <4> QED BY <1>1, <1>5, <3>1
    <3> HIDE DEF back, out
    <3> QED BY <1>5, <2>3, <3>2 DEF NoBytes
  <2>5. Len(out) = 0
    <3> HIDE DEF out
    <3> QED BY <2>4 DEF NoBytes
  <2> HIDE DEF out
  <2>6. /\ \A p \in seen : p <= Len(pulled) + Len(out)
        /\ \A i \in 1 .. Len(out) : FALSE
    BY <2>1, <2>5
  <2> QED BY <1>6, <2>4, <2>6 DEF FlushAligned
<1>8. CASE buf.isn # None
  <2>1. /\ seen = (1 .. n - 1) \cup DOMAIN held /\ n >= 1 /\ base + Len(front) = n - 1
        /\ Len(front) \in Nat
    BY <1>1, <1>2, <1>8 DEF Orderly, NothingLost
  <2>2. front \in Seq(AnyByte)
    <3>1. Bytes \subseteq AnyByte
      BY DEF AnyByte
    <3> HIDE DEF front, AnyByte
    <3> QED BY <1>1, <3>1
  <2> HIDE DEF back, out, front, held, base, n
  <2>3. /\ Len(out) = Len(front) + (m - n)
        /\ \A j \in 1 .. Len(front) : out[j] = front[j]
        /\ \A j \in 1 .. m - n : out[Len(front) + j] = back[j]
    <3> DEFINE p == Len(front)
               q == m - n
    <3>1. Len(front) = p /\ Len(back) = q
      BY <1>5
    <3> HIDE DEF p, q
    <3>2. /\ Len(front \o back) = p + q
          /\ \A j \in 1 .. p : (front \o back)[j] = front[j]
          /\ \A j \in 1 .. q : (front \o back)[p + j] = back[j]
      BY <1>5, <2>2, <3>1, ConcatIs
    <3> QED BY <3>2 DEF p, q, out
  <2>5. m - n \in Nat /\ Len(out) \in Nat
    BY <1>1, <1>4, <2>1, <2>3
  <2>4. ASSUME NEW i \in 1 .. Len(out)
        PROVE  IF base + i \in seen THEN out[i][1] = base + i ELSE out[i] = Zero
    <3>1. CASE i <= Len(front)
      <4>1. i \in 1 .. Len(front) /\ base + i \in 1 .. n - 1
        BY <1>1, <2>1, <3>1
      <4>2. out[i][1] = base + i
        BY <4>1, <1>1, <2>3 DEF CountsUp
      <4> QED BY <4>1, <4>2, <2>1
    <3>2. CASE Len(front) < i
      <4> DEFINE j == i - Len(front)
      <4>1. j \in 1 .. m - n /\ i = Len(front) + j /\ n + j - 1 = base + i
            /\ base + i \notin 1 .. n - 1
        <5> DEFINE l == Len(front)
                   q == m - n
                   o == Len(out)
        <5>1. l \in Nat /\ q \in Nat /\ o = l + q /\ base + l = n - 1 /\ l < i /\ i \in 1 .. o
          BY <2>1, <2>3, <2>5, <3>2
        <5> HIDE DEF l, q, o
        <5>2. /\ i - l \in 1 .. q /\ i = l + (i - l) /\ n + (i - l) - 1 = base + i
              /\ base + i \notin 1 .. n - 1
          BY <1>1, <5>1
        <5> QED BY <5>2 DEF l, q
      <4> HIDE DEF j
      <4>2. out[i] = IF base + i \in DOMAIN held THEN held[base + i] ELSE Zero
        BY <4>1, <1>5, <2>3
      <4> QED BY <4>1, <4>2, <1>3, <2>1
    <3>3. Len(out) \in Nat
      BY <1>4, <1>1, <2>1, <2>3
    <3> QED BY <3>1, <3>2, <3>3, <2>1
  <2>6. base + Len(out) = m - 1
    <3> DEFINE l == Len(front)
               o == Len(out)
    <3>1. l \in Nat /\ o = l + (m - n) /\ base + l = n - 1
      BY <2>1, <2>3
    <3> HIDE DEF l, o
    <3>2. base + o = m - 1
      BY <1>1, <1>4, <3>1
    <3> QED BY <3>2 DEF o
  <2>7. \A p \in seen : p <= base + Len(out)
    <3> SUFFICES ASSUME NEW p \in seen PROVE p <= m - 1
      BY <2>6
    <3>1. p \in 1 .. n - 1 \/ p \in DOMAIN held
      BY <2>1
    <3>2. \A q \in DOMAIN held : q \in Nat
      BY <1>1, StartsAre
    <3> QED BY <1>1, <1>4, <3>1, <3>2
  <2>8. out # NoBytes => base + Len(out) \in seen
    <3> SUFFICES ASSUME out # NoBytes PROVE m - 1 \in seen
      BY <2>6
    <3>1. CASE m # n
      BY <3>1, <1>4, <2>1
    <3>2. CASE m = n
      <4>1. base + Len(out) = n - 1 /\ Len(out) # 0
        <5>1. Len(out) # 0
          <6>1. out \in Seq(AnyByte)
            <7>1. back \in Seq(AnyByte)
              BY <1>5
            <7> QED BY <7>1, <2>2 DEF out
          <6> QED BY <6>1 DEF NoBytes
        <5> QED BY <5>1, <2>6, <3>2
      <4>2. n - 1 \in 1 .. n - 1
        BY <4>1, <1>1, <2>1, <2>5
      <4> QED BY <4>2, <3>2, <2>1
    <3> QED BY <3>1, <3>2
  <2> QED BY <1>6, <2>4, <2>7, <2>8 DEF FlushAligned, base
<1> QED BY <1>7, <1>8

(* get_data(fill_gaps=True), called at any time, returns the stream from   *)
(* the first byte not handed out to the last byte captured: it reaches     *)
(* every captured byte, each is at its own offset, and zeros stand for     *)
(* exactly the bytes not captured.                                         *)
THEOREM FlushedInPlace == OrderlySpec => []FlushAligned
  BY InitOrderly, NextOrderly, OrderlyFlush, PTL DEF OrderlySpec, InitNoWrap
=============================================================================
