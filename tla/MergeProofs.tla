---------------------------- MODULE MergeProofs ----------------------------
(***************************************************************************)
(* Proofs about Connection.merged_data on a connection used directly, for  *)
(* every stream length, segment size and number of calls: whatever packets *)
(* of both sides arrived in whatever order, nothing of either is lost,     *)
(* reordered or repeated, and the zeros are exactly the inner gaps.        *)
(***************************************************************************)
EXTENDS ConnectionMerge, NaturalLemmas, SequenceTheorems

SentBytes == Senders \X Nat

(* What s sends from position a up to, and not including, position e.      *)
Stretch(s, a, e) == [i \in 1 .. e - a |-> <<s, a + i - 1>>]

HeldBytes == UNION {[D -> SentBytes] : D \in SUBSET (1 .. StreamLen)}

Buffers ==
  [isn : {None, 0}, next_seq : Nat, fin_seq : {None},
   syn_received : BOOLEAN, fin_received : BOOLEAN,
   contiguous : Seq(SentBytes), segments : HeldBytes, total_buffered : Nat]

(* The state of one direction: what is ready ends at next_seq, and what is *)
(* held lies beyond it, each byte at its position.  Before the SYN nothing *)
(* is held, so that the SYN may set next_seq.                              *)
Kept(b, s) ==
  /\ b \in Buffers
  /\ b.isn = None => b.next_seq = 0 /\ DOMAIN b.segments = {}
  /\ \E from \in 0 .. b.next_seq : b.contiguous = Stretch(s, from, b.next_seq)
  /\ \A p \in DOMAIN b.segments : b.next_seq < p /\ b.segments[p] = <<s, p>>

Connections == [id : {<<1, 2>>}, c2s : Buffers, s2c : Buffers]

MergeInv ==
  /\ conn \in Connections
  /\ Kept(conn.c2s, 1)
  /\ Kept(conn.s2c, 2)
-----------------------------------------------------------------------------
LEMMA StretchType ==
  ASSUME NEW s \in Senders, NEW a \in Nat, NEW e \in Nat, a <= e
  PROVE  /\ Stretch(s, a, e) \in Seq(SentBytes)
         /\ Len(Stretch(s, a, e)) = e - a
         /\ \A i \in 1 .. e - a : Stretch(s, a, e)[i] = <<s, a + i - 1>>
<1>1. \A i \in 1 .. e - a : <<s, a + i - 1>> \in SentBytes
  BY DEF SentBytes
<1> QED BY <1>1 DEF Stretch

(* Two stretches that follow one another make one.                         *)
LEMMA StretchJoin ==
  ASSUME NEW s \in Senders, NEW a \in Nat, NEW m \in Nat, NEW e \in Nat,
         a <= m, m <= e
  PROVE  Stretch(s, a, m) \o Stretch(s, m, e) = Stretch(s, a, e)
<1> DEFINE x == Stretch(s, a, m)
           y == Stretch(s, m, e)
           z == Stretch(s, a, e)
<1>0. a <= e /\ e - a \in Nat /\ m - a \in Nat /\ e - m \in Nat
  OBVIOUS
<1>1. /\ x \in Seq(SentBytes) /\ Len(x) = m - a
      /\ \A i \in 1 .. m - a : x[i] = <<s, a + i - 1>>
  BY StretchType
<1>2. /\ y \in Seq(SentBytes) /\ Len(y) = e - m
      /\ \A i \in 1 .. e - m : y[i] = <<s, m + i - 1>>
  BY StretchType
<1>3. /\ z \in Seq(SentBytes) /\ Len(z) = e - a
      /\ \A i \in 1 .. e - a : z[i] = <<s, a + i - 1>>
  BY <1>0, StretchType
<1> HIDE DEF x, y, z
<1>4. /\ x \o y \in Seq(SentBytes) /\ Len(x \o y) = e - a
      /\ \A i \in 1 .. e - a : (x \o y)[i] = IF i <= m - a THEN x[i] ELSE y[i - (m - a)]
  <2>1. Len(x) + Len(y) = e - a
    BY <1>1, <1>2
  <2>2. /\ x \o y \in Seq(SentBytes) /\ Len(x \o y) = Len(x) + Len(y)
        /\ \A i \in 1 .. Len(x) + Len(y) :
             (x \o y)[i] = IF i <= Len(x) THEN x[i] ELSE y[i - Len(x)]
    BY <1>1, <1>2, ConcatProperties
  <2> QED BY <2>1, <2>2, <1>1
<1>5. ASSUME NEW i \in 1 .. e - a PROVE (x \o y)[i] = z[i]
  <2>1. CASE i <= m - a
    <3>1. i \in 1 .. m - a
      BY <2>1
    <3> QED BY <2>1, <3>1, <1>1, <1>3, <1>4
  <2>2. CASE ~ (i <= m - a)
    <3>1. i - (m - a) \in 1 .. e - m /\ m + (i - (m - a)) - 1 = a + i - 1
      BY <2>2
    <3> QED BY <2>2, <3>1, <1>2, <1>3, <1>4
  <2> QED BY <2>1, <2>2
<1>6. x \o y = z
  BY <1>3, <1>4, <1>5, SeqEqual
<1> QED BY <1>6 DEF x, y, z

(* A stretch without its first bytes is a stretch.                         *)
LEMMA StretchRest ==
  ASSUME NEW s \in Senders, NEW a \in Nat, NEW m \in Nat, NEW e \in Nat,
         a <= m, m <= e
  PROVE  SubSeq(Stretch(s, a, e), m - a + 1, Len(Stretch(s, a, e))) = Stretch(s, m, e)
<1> DEFINE z == Stretch(s, a, e)
           y == Stretch(s, m, e)
           w == SubSeq(z, m - a + 1, e - a)
<1>0. a <= e
  OBVIOUS
<1>1. /\ z \in Seq(SentBytes) /\ Len(z) = e - a
      /\ \A i \in 1 .. e - a : z[i] = <<s, a + i - 1>>
  BY <1>0, StretchType
<1>2. /\ y \in Seq(SentBytes) /\ Len(y) = e - m
      /\ \A i \in 1 .. e - m : y[i] = <<s, m + i - 1>>
  BY StretchType
<1> HIDE DEF z, y
<1>3. /\ w \in Seq(SentBytes) /\ Len(w) = e - m
      /\ \A i \in 1 .. e - m : w[i] = z[m - a + i]
  <2>1. \A i \in 1 .. e - m : m - a + 1 + i - 1 = m - a + i
    OBVIOUS
  <2>2. \A i \in 1 .. e - m : z[m - a + i] \in SentBytes
    BY <1>1, ElementOfSeq
  <2> QED BY <1>1, <2>1, <2>2, SubSeqProperties
<1>4. ASSUME NEW i \in 1 .. e - m PROVE w[i] = y[i]
  <2>1. m - a + i \in 1 .. e - a /\ a + (m - a + i) - 1 = m + i - 1
    OBVIOUS
  <2> QED BY <2>1, <1>1, <1>2, <1>3
<1>5. w = y
  BY <1>2, <1>3, <1>4
<1> QED BY <1>1, <1>5 DEF z, y, w

LEMMA StretchNone ==
  ASSUME NEW s \in Senders, NEW a \in Nat
  PROVE  Stretch(s, a, a) = << >>
  BY DEF Stretch
-----------------------------------------------------------------------------
(* The positions held are finitely many.                                   *)
LEMMA HeldFinite ==
  ASSUME NEW held \in HeldBytes
  PROVE  IsFiniteSet(DOMAIN held) /\ DOMAIN held \in SUBSET (1 .. StreamLen)
<1>1. PICK D \in SUBSET (1 .. StreamLen) : held \in [D -> SentBytes]
  BY DEF HeldBytes
<1>2. DOMAIN held = D
  BY <1>1
<1>3. IsFiniteSet(1 .. StreamLen)
  BY MergeAssumption, FS_Interval
<1> QED BY <1>1, <1>2, <1>3, FS_Subset

LEMMA HeldType ==
  ASSUME NEW D \in SUBSET (1 .. StreamLen), NEW f \in [D -> SentBytes]
  PROVE  f \in HeldBytes
  BY DEF HeldBytes

(* RunEnd is where the run that covers n ends.                             *)
LEMMA RunEndIs ==
  ASSUME NEW held \in HeldBytes, NEW n \in Nat
  PROVE  /\ RunEnd(held, n) \in Nat
         /\ n <= RunEnd(held, n)
         /\ RunEnd(held, n) \notin DOMAIN held
         /\ \A k \in n .. RunEnd(held, n) - 1 : k \in DOMAIN held
<1> DEFINE D == DOMAIN held
           window == n .. n + Cardinality(D)
<1>1. D \in SUBSET Nat /\ IsFiniteSet(D) /\ Cardinality(D) \in Nat
  BY HeldFinite, FS_CardinalityType
<1>2. \E m \in window : m \notin D /\ \A k \in n .. m - 1 : k \in D
  <2> HIDE DEF D
  <2> QED BY <1>1, FirstGap
<1>3. /\ RunEnd(held, n) \in window
      /\ RunEnd(held, n) \notin D
      /\ \A k \in n .. RunEnd(held, n) - 1 : k \in D
  BY <1>2, Zenon DEF RunEnd
<1> QED BY <1>1, <1>3

(* Held bytes read off in order are a stretch.                             *)
LEMMA SliceIs ==
  ASSUME NEW s \in Senders, NEW held, NEW a \in Nat, NEW e \in Nat,
         \A p \in DOMAIN held : held[p] = <<s, p>>,
         \A k \in a .. e - 1 : k \in DOMAIN held
  PROVE  Slice(held, a, e) = Stretch(s, a, e)
<1>1. ASSUME NEW i \in 1 .. e - a PROVE held[a + i - 1] = <<s, a + i - 1>>
  <2>1. a + i - 1 \in a .. e - 1
    OBVIOUS
  <2> QED BY <2>1
<1> QED BY <1>1 DEF Slice, Stretch
-----------------------------------------------------------------------------
LEMMA KeptNew ==
  ASSUME NEW s \in Senders
  PROVE  Kept(NewBuffer, s)
<1>1. NewBuffer.segments \in HeldBytes /\ DOMAIN NewBuffer.segments = {}
  <2>1. << >> \in [{} -> SentBytes]
    OBVIOUS
  <2> QED BY <2>1, HeldType DEF NewBuffer, NoBytes
<1>2. NewBuffer.contiguous = Stretch(s, 0, 0) /\ NewBuffer.contiguous \in Seq(SentBytes)
  BY StretchNone DEF NewBuffer, NoBytes
<1>3. NewBuffer \in Buffers /\ NewBuffer.next_seq = 0
  BY <1>1, <1>2 DEF NewBuffer, Buffers, None
<1> QED BY <1>1, <1>2, <1>3 DEF Kept

(* A SYN without payload: the first byte to come is byte 1.                *)
LEMMA KeptSyn ==
  ASSUME NEW s \in Senders, NEW b, Kept(b, s), b.isn = None
  PROVE  Kept(Feed(b, 0, NoBytes, TRUE, FALSE), s)
<1> DEFINE c == Feed(b, 0, NoBytes, TRUE, FALSE)
<1>1. /\ b \in Buffers /\ b.next_seq = 0 /\ DOMAIN b.segments = {}
      /\ b.contiguous = << >>
  <2>1. PICK from \in 0 .. b.next_seq : b.contiguous = Stretch(s, from, b.next_seq)
    BY DEF Kept
  <2> QED BY <2>1, StretchNone DEF Kept
<1>2. /\ c.isn = 0 /\ c.next_seq = 1 /\ c.fin_seq = b.fin_seq
      /\ c.syn_received = TRUE /\ c.fin_received = b.fin_received
      /\ c.contiguous = << >> /\ c.segments = b.segments
      /\ c.total_buffered = b.total_buffered
      /\ c \in Buffers
  <2>1. b.contiguous \o NoBytes = << >> /\ b.total_buffered + Len(NoBytes) = b.total_buffered
    BY <1>1 DEF NoBytes, Buffers
  <2>2. Len(NoBytes) = 0 /\ << >> \in Seq(SentBytes)
    BY DEF NoBytes
  <2>3. c = [b EXCEPT !.isn = 0, !.syn_received = TRUE, !.next_seq = 1,
                      !.contiguous = b.contiguous \o NoBytes,
                      !.total_buffered = b.total_buffered + Len(NoBytes)]
    <3>1. c = FeedSyn(b, 0, NoBytes)
      BY DEF Feed
    <3>2. 1 + Len(NoBytes) = 1
      BY <2>2
    <3> HIDE DEF c
    <3> QED BY <3>1, <3>2 DEF FeedSyn
  <2> HIDE DEF c
  <2>4. c = [b EXCEPT !.isn = 0, !.syn_received = TRUE, !.next_seq = 1,
                      !.contiguous = << >>, !.total_buffered = b.total_buffered]
    BY <2>1, <2>3
  <2> QED BY <1>1, <2>2, <2>4 DEF Buffers
<1> HIDE DEF c
<1>3. c.contiguous = Stretch(s, 1, 1)
  BY <1>2, StretchNone
<1>4. c.isn # None
  <2>1. c.isn = 0
    BY <1>2
  <2> QED BY <2>1 DEF None
<1>5. \A p \in DOMAIN c.segments : c.next_seq < p /\ c.segments[p] = <<s, p>>
  BY <1>1, <1>2
<1>6. 1 \in 0 .. c.next_seq /\ c.contiguous = Stretch(s, 1, c.next_seq)
  BY <1>2, <1>3
<1> QED BY <1>2, <1>4, <1>5, <1>6 DEF Kept, c

(* merged_data empties both buffers and leaves next_seq.                   *)
LEMMA KeptCleared ==
  ASSUME NEW s \in Senders, NEW b, Kept(b, s)
  PROVE  Kept(Cleared(b), s)
<1> DEFINE c == Cleared(b)
<1>1. NoBytes \in HeldBytes /\ DOMAIN NoBytes = {} /\ NoBytes \in Seq(SentBytes)
  <2>1. << >> \in [{} -> SentBytes] /\ DOMAIN << >> = {} /\ << >> \in Seq(SentBytes)
    OBVIOUS
  <2>2. {} \in SUBSET (1 .. StreamLen)
    OBVIOUS
  <2>3. << >> \in HeldBytes
    BY <2>1, <2>2, HeldType
  <2> QED BY <2>1, <2>3 DEF NoBytes
<1>2. /\ c.isn = b.isn /\ c.next_seq = b.next_seq
      /\ c.contiguous = NoBytes /\ c.segments = NoBytes
      /\ c \in Buffers
  BY <1>1 DEF Cleared, Buffers, Kept
<1>3. b.next_seq \in Nat /\ NoBytes = Stretch(s, b.next_seq, b.next_seq)
  BY StretchNone DEF Kept, Buffers, NoBytes
<1> HIDE DEF c
<1> QED BY <1>1, <1>2, <1>3 DEF Kept, c

(* Data at next_seq, and all that it connects to.                          *)
LEMMA KeptExtend ==
  ASSUME NEW s \in Senders, NEW b, Kept(b, s), b.isn # None,
         NEW e \in Nat, b.next_seq <= e
  PROVE  Kept(Extend(b, Stretch(s, b.next_seq, e)), s)
<1> DEFINE data  == Stretch(s, b.next_seq, e)
           stop  == RunEnd(b.segments, e)
           rest  == {p \in DOMAIN b.segments : p > stop}
           slice == Slice(b.segments, e, stop)
           bytes == b.contiguous \o data \o slice
           left  == [p \in rest |-> b.segments[p]]
           total == Len(bytes) + Cardinality(rest)
           c     == Extend(b, data)
<1>1. /\ b \in Buffers /\ b.next_seq \in Nat /\ b.segments \in HeldBytes
      /\ \A p \in DOMAIN b.segments : b.next_seq < p /\ b.segments[p] = <<s, p>>
  BY DEF Kept, Buffers
<1>2. PICK from \in 0 .. b.next_seq : b.contiguous = Stretch(s, from, b.next_seq)
  BY DEF Kept
<1>3. data \in Seq(SentBytes) /\ b.next_seq + Len(data) = e
  <2>1. Len(data) = e - b.next_seq /\ data \in Seq(SentBytes)
    BY <1>1, StretchType
  <2> HIDE DEF data
  <2> QED BY <2>1, <1>1
<1>4. /\ stop \in Nat /\ e <= stop
      /\ \A k \in e .. stop - 1 : k \in DOMAIN b.segments
  BY <1>1, RunEndIs
<1> HIDE DEF stop
<1>5. slice = Stretch(s, e, stop)
  BY <1>1, <1>4, SliceIs
<1>6. bytes = Stretch(s, from, stop) /\ bytes \in Seq(SentBytes) /\ Len(bytes) \in Nat
  <2>1. from \in Nat /\ from <= b.next_seq /\ from <= e /\ from <= stop
    BY <1>1, <1>2, <1>4
  <2>2. b.contiguous \o data = Stretch(s, from, e)
    <3>1. Stretch(s, from, b.next_seq) \o Stretch(s, b.next_seq, e) = Stretch(s, from, e)
      BY <1>1, <2>1, StretchJoin
    <3> QED BY <1>2, <3>1
  <2>3. Stretch(s, from, e) \o Stretch(s, e, stop) = Stretch(s, from, stop)
    BY <1>4, <2>1, StretchJoin
  <2>4. /\ Stretch(s, from, stop) \in Seq(SentBytes)
        /\ Len(Stretch(s, from, stop)) \in Nat
    BY <1>4, <2>1, StretchType, LenProperties
  <2> QED BY <1>5, <2>2, <2>3, <2>4
<1> HIDE DEF bytes, slice
<1>7. /\ rest \in SUBSET DOMAIN b.segments /\ Cardinality(rest) \in Nat
      /\ left \in HeldBytes /\ DOMAIN left = rest
  <2>1. IsFiniteSet(DOMAIN b.segments) /\ DOMAIN b.segments \in SUBSET (1 .. StreamLen)
    BY <1>1, HeldFinite
  <2>2. rest \in SUBSET DOMAIN b.segments
    OBVIOUS
  <2>3. Cardinality(rest) \in Nat
    BY <2>1, <2>2, FS_Subset, FS_CardinalityType
  <2>4. \A p \in rest : b.segments[p] \in SentBytes
    BY <1>1, <2>1 DEF SentBytes
  <2>5. left \in [rest -> SentBytes]
    BY <2>4
  <2> QED BY <2>1, <2>2, <2>3, <2>5, HeldType
<1>8. total \in Nat
  BY <1>6, <1>7
<1>9. c = [b EXCEPT !.contiguous = bytes, !.next_seq = stop,
                    !.segments = left, !.total_buffered = total]
  <2>1. stop = RunEnd(b.segments, b.next_seq + Len(data))
    BY <1>3 DEF stop
  <2>2. slice = Slice(b.segments, b.next_seq + Len(data), stop)
    BY <1>3 DEF slice
  <2> HIDE DEF data, stop
  <2>3. bytes = b.contiguous \o data \o Slice(b.segments, b.next_seq + Len(data), stop)
    BY <2>2 DEF bytes
  <2> QED BY <2>1, <2>3, Zenon DEF Extend
<1> HIDE DEF c, left, total, data
<1>10. /\ c \in Buffers /\ c.isn = b.isn /\ c.next_seq = stop
       /\ c.contiguous = bytes /\ c.segments = left
  <2> HIDE DEF rest
  <2> QED BY <1>1, <1>4, <1>6, <1>7, <1>8, <1>9 DEF Buffers
<1>11. \A p \in DOMAIN c.segments : c.next_seq < p /\ c.segments[p] = <<s, p>>
  <2>1. \A p \in rest : stop < p /\ left[p] = <<s, p>>
    <3> SUFFICES ASSUME NEW p \in rest PROVE stop < p /\ left[p] = <<s, p>>
      OBVIOUS
    <3>1. p \in DOMAIN b.segments /\ p > stop /\ p \in Nat
      BY <1>1, HeldFinite
    <3>2. left[p] = b.segments[p]
      BY DEF left
    <3> QED BY <3>1, <3>2, <1>1, <1>4
  <2> QED BY <1>7, <1>10, <2>1
<1>12. \E f \in 0 .. c.next_seq : c.contiguous = Stretch(s, f, c.next_seq)
  <2>1. from \in 0 .. c.next_seq
    BY <1>1, <1>2, <1>4, <1>10
  <2> QED BY <1>6, <1>10, <2>1
<1>13. c.isn # None
  BY <1>10
<1> QED BY <1>10, <1>11, <1>12, <1>13 DEF Kept, c, data

(* Data beyond next_seq: whichever copy of a byte survives, it is the byte *)
(* of its position.                                                        *)
LEMMA KeptInsert ==
  ASSUME NEW s \in Senders, NEW b, Kept(b, s), b.isn # None,
         NEW a \in Nat, NEW e \in Nat, b.next_seq < a, a <= e, e <= StreamLen + 1
  PROVE  Kept(InsertSegment(b, a, Stretch(s, a, e)), s)
<1> DEFINE data == Stretch(s, a, e)
           old  == b.segments
           new  == a .. a + Len(data) - 1
           OldWins(p) == /\ p \in DOMAIN old
                         /\ p \in new => \E q \in a .. p : q \notin DOMAIN old
           held == [p \in DOMAIN old \cup new |->
                      IF OldWins(p) THEN old[p] ELSE data[p - a + 1]]
           total == Len(b.contiguous) + Cardinality(DOMAIN held)
           c    == InsertSegment(b, a, data)
<1>1. /\ b \in Buffers /\ b.next_seq \in Nat /\ old \in HeldBytes
      /\ b.contiguous \in Seq(SentBytes)
      /\ \A p \in DOMAIN old : b.next_seq < p /\ old[p] = <<s, p>>
  BY DEF Kept, Buffers
<1>2. /\ Len(data) = e - a
      /\ \A i \in 1 .. e - a : data[i] = <<s, a + i - 1>>
  BY StretchType
<1>3. new = a .. e - 1
  <2> HIDE DEF data
  <2> QED BY <1>2
<1>4. ASSUME NEW p \in DOMAIN old \cup new
      PROVE  p \in 1 .. StreamLen /\ b.next_seq < p /\ held[p] = <<s, p>>
  <2>1. CASE p \in DOMAIN old
    <3>1. p \in 1 .. StreamLen /\ b.next_seq < p /\ old[p] = <<s, p>>
      BY <1>1, <2>1, HeldFinite
    <3>2. CASE OldWins(p)
      <4> HIDE DEF OldWins, new
      <4> QED BY <3>1, <3>2
    <3>3. CASE ~ OldWins(p)
      <4>1. p \in a .. e - 1
        BY <1>3, <2>1, <3>3
      <4>2. p - a + 1 \in 1 .. e - a /\ a + (p - a + 1) - 1 = p
        BY <4>1
      <4>3. data[p - a + 1] = <<s, p>>
        <5> HIDE DEF data
        <5> QED BY <1>2, <4>2
      <4> HIDE DEF OldWins, new, data
      <4> QED BY <3>1, <3>3, <4>3
    <3> QED BY <3>2, <3>3
  <2>2. CASE p \notin DOMAIN old
    <3>1. p \in a .. e - 1
      BY <1>3, <2>2
    <3>2. p - a + 1 \in 1 .. e - a /\ a + (p - a + 1) - 1 = p
      BY <3>1
    <3>3. data[p - a + 1] = <<s, p>>
      <4> HIDE DEF data
      <4> QED BY <1>2, <3>2
    <3>4. p \in 1 .. StreamLen /\ b.next_seq < p
      BY <1>1, <3>1, MergeAssumption
    <3>5. ~ OldWins(p)
      BY <2>2
    <3> HIDE DEF OldWins, new, data
    <3> QED BY <3>3, <3>4, <3>5
  <2> QED BY <2>1, <2>2
<1>5. c = [b EXCEPT !.segments = held, !.total_buffered = total]
  BY DEF InsertSegment
<1>6. DOMAIN held = DOMAIN old \cup new
  OBVIOUS
<1>7. held \in HeldBytes
  <2>1. held \in [DOMAIN old \cup new -> SentBytes]
    <3>1. \A p \in DOMAIN old \cup new : held[p] \in SentBytes
      <4> HIDE DEF held, new, old
      <4> QED BY <1>4 DEF SentBytes
    <3>2. held = [p \in DOMAIN old \cup new |-> held[p]]
      OBVIOUS
    <3> HIDE DEF held, new, old
    <3> QED BY <3>1, <3>2
  <2>2. DOMAIN old \cup new \in SUBSET (1 .. StreamLen)
    <3> HIDE DEF held, new, old
    <3> QED BY <1>4
  <2> HIDE DEF held, new, old
  <2> QED BY <2>1, <2>2, HeldType
<1> HIDE DEF held, new, c
<1>8. total \in Nat
  <2>1. Cardinality(DOMAIN held) \in Nat
    BY <1>7, HeldFinite, FS_CardinalityType
  <2>2. Len(b.contiguous) \in Nat
    BY <1>1, LenProperties
  <2> QED BY <2>1, <2>2
<1> HIDE DEF total
<1>9. /\ c \in Buffers /\ c.isn = b.isn /\ c.next_seq = b.next_seq
      /\ c.contiguous = b.contiguous /\ c.segments = held
  BY <1>1, <1>5, <1>7, <1>8 DEF Buffers
<1>10. \A p \in DOMAIN c.segments : c.next_seq < p /\ c.segments[p] = <<s, p>>
  BY <1>4, <1>6, <1>9
<1>11. \E f \in 0 .. c.next_seq : c.contiguous = Stretch(s, f, c.next_seq)
  BY <1>9 DEF Kept
<1>12. c.isn # None
  BY <1>9
<1> QED BY <1>9, <1>10, <1>11, <1>12 DEF Kept, c, data

(* A segment of the sender's bytes.                                        *)
LEMMA KeptData ==
  ASSUME NEW s \in Senders, NEW b, Kept(b, s), b.isn # None,
         NEW p \in 1 .. StreamLen, NEW n \in 1 .. MaxSegment,
         p + n - 1 <= StreamLen
  PROVE  Kept(Feed(b, p, Text(s, p, n), FALSE, FALSE), s)
<1> DEFINE text == Stretch(s, p, p + n)
           over == IF p < b.next_seq THEN b.next_seq - p ELSE 0
           data == SubSeq(text, over + 1, Len(text))
<1>1. /\ b \in Buffers /\ b.next_seq \in Nat /\ b.isn = 0
      /\ p \in Nat /\ n \in Nat /\ n > 0 /\ p + n \in Nat
  BY MergeAssumption DEF Kept, Buffers
<1>2. Text(s, p, n) = text /\ Len(text) = n /\ text # NoBytes
  <2>1. (p + n) - p = n /\ p <= p + n
    BY <1>1
  <2>2. Text(s, p, n) = text
    BY <2>1 DEF Text, Stretch
  <2>3. Len(text) = n
    BY <1>1, <2>1, StretchType
  <2> QED BY <1>1, <2>2, <2>3 DEF NoBytes
<1>3. Feed(b, p, Text(s, p, n), FALSE, FALSE) = Place(b, p, text)
  <2>1. p - b.isn = p
    BY <1>1
  <2> HIDE DEF text
  <2> QED BY <1>2, <2>1 DEF Feed
<1>4. CASE p + n <= b.next_seq
  <2>1. Place(b, p, text) = b
    <3> HIDE DEF text
    <3> QED BY <1>2, <1>4 DEF Place
  <2> QED BY <1>3, <2>1
<1>5. CASE p <= b.next_seq /\ ~ (p + n <= b.next_seq)
  <2>1. over = b.next_seq - p
    BY <1>1, <1>5
  <2>2. data = Stretch(s, b.next_seq, p + n)
    <3>1. p <= b.next_seq /\ b.next_seq <= p + n
      BY <1>1, <1>5
    <3>2. SubSeq(text, b.next_seq - p + 1, Len(text)) = Stretch(s, b.next_seq, p + n)
      BY <1>1, <3>1, StretchRest
    <3> HIDE DEF text, over
    <3> QED BY <2>1, <3>2
  <2>3. Place(b, p, text) = Extend(b, data)
    <3> HIDE DEF text
    <3> QED BY <1>2, <1>5 DEF Place
  <2>4. Kept(Extend(b, Stretch(s, b.next_seq, p + n)), s)
    <3>1. b.next_seq <= p + n
      BY <1>1, <1>5
    <3> QED BY <1>1, <3>1, KeptExtend
  <2> HIDE DEF data
  <2> QED BY <1>3, <2>2, <2>3, <2>4
<1>6. CASE ~ (p <= b.next_seq)
  <2>1. over = 0 /\ b.next_seq < p
    BY <1>1, <1>6
  <2>2. data = text
    <3>1. p - p + 1 = 1 /\ p <= p + n /\ p <= p
      BY <1>1
    <3>2. SubSeq(text, p - p + 1, Len(text)) = text
      BY <1>1, <3>1, StretchRest
    <3> HIDE DEF text, over
    <3> QED BY <2>1, <3>1, <3>2
  <2>3. Place(b, p, text) = InsertSegment(b, p, data)
    <3>1. ~ (p + n <= b.next_seq)
      BY <1>1, <1>6
    <3> HIDE DEF text
    <3> QED BY <1>2, <1>6, <3>1 DEF Place
  <2>4. Kept(InsertSegment(b, p, text), s)
    <3>1. p <= p + n /\ p + n <= StreamLen + 1
      BY <1>1, MergeAssumption
    <3> QED BY <1>1, <2>1, <3>1, KeptInsert
  <2> HIDE DEF data, text
  <2> QED BY <1>3, <2>2, <2>3, <2>4
<1> QED BY <1>4, <1>5, <1>6
-----------------------------------------------------------------------------
(* Which buffer is whose.                                                  *)
LEMMA BufferIs ==
  ASSUME conn \in Connections
  PROVE  BufferOf(1) = conn.c2s /\ BufferOf(2) = conn.s2c
  BY DEF Connections, BufferOf, DirectionFrom

(* A segment changes the buffer of its sender and no other.                *)
LEMMA FeedIs ==
  ASSUME conn \in Connections, NEW seq, NEW payload, NEW syn \in BOOLEAN
  PROVE  /\ ConnectionFeed(conn, 1, seq, payload, syn, FALSE)
              = [conn EXCEPT !.c2s = Feed(conn.c2s, seq, payload, syn, FALSE)]
         /\ ConnectionFeed(conn, 2, seq, payload, syn, FALSE)
              = [conn EXCEPT !.s2c = Feed(conn.s2c, seq, payload, syn, FALSE)]
<1>1. DirectionFrom(conn, 1) = "c2s" /\ DirectionFrom(conn, 2) = "s2c"
  BY DEF Connections, DirectionFrom
<1> QED BY <1>1 DEF ConnectionFeed

(* MergeInv is an invariant.                                               *)
LEMMA MergeInvStep ==
  ASSUME MergeInv, [Next]_vars
  PROVE  MergeInv'
<1>1. /\ conn \in Connections
      /\ Kept(conn.c2s, 1) /\ Kept(conn.s2c, 2)
      /\ BufferOf(1) = conn.c2s /\ BufferOf(2) = conn.s2c
  BY BufferIs DEF MergeInv
<1>2. ASSUME NEW b, NEW c, Kept(b, 1), Kept(c, 2),
             conn' = [conn EXCEPT !.c2s = b, !.s2c = c]
      PROVE  MergeInv'
  <2>1. b \in Buffers /\ c \in Buffers
    BY <1>2 DEF Kept
  <2>2. conn' \in Connections /\ conn'.c2s = b /\ conn'.s2c = c
    BY <1>1, <1>2, <2>1 DEF Connections
  <2>3. Kept(conn'.c2s, 1) /\ Kept(conn'.s2c, 2)
    BY <1>2, <2>2
  <2> QED BY <2>2, <2>3 DEF MergeInv, Kept
<1>3. ASSUME NEW b, Kept(b, 1), conn' = [conn EXCEPT !.c2s = b]
      PROVE  MergeInv'
  <2>1. conn' = [conn EXCEPT !.c2s = b, !.s2c = conn.s2c]
    BY <1>1, <1>3 DEF Connections
  <2> QED BY <1>1, <1>2, <1>3, <2>1
<1>4. ASSUME NEW c, Kept(c, 2), conn' = [conn EXCEPT !.s2c = c]
      PROVE  MergeInv'
  <2>1. conn' = [conn EXCEPT !.c2s = conn.c2s, !.s2c = c]
    BY <1>1, <1>4 DEF Connections
  <2> QED BY <1>1, <1>2, <1>4, <2>1
<1>5. ASSUME NEW s \in Senders, Syn(s) PROVE MergeInv'
  <2>1. CASE s = 1
    <3>1. conn' = [conn EXCEPT !.c2s = Feed(conn.c2s, 0, NoBytes, TRUE, FALSE)]
      <4>1. conn' = ConnectionFeed(conn, 1, 0, NoBytes, TRUE, FALSE)
        BY <1>5, <2>1 DEF Syn
      <4> QED BY <1>1, <4>1, FeedIs
    <3>2. Kept(Feed(conn.c2s, 0, NoBytes, TRUE, FALSE), 1)
      BY <1>1, <1>5, <2>1, KeptSyn DEF Syn, Senders
    <3> QED BY <3>1, <3>2, <1>3
  <2>2. CASE s = 2
    <3>1. conn' = [conn EXCEPT !.s2c = Feed(conn.s2c, 0, NoBytes, TRUE, FALSE)]
      <4>1. conn' = ConnectionFeed(conn, 2, 0, NoBytes, TRUE, FALSE)
        BY <1>5, <2>2 DEF Syn
      <4> QED BY <1>1, <4>1, FeedIs
    <3>2. Kept(Feed(conn.s2c, 0, NoBytes, TRUE, FALSE), 2)
      BY <1>1, <1>5, <2>2, KeptSyn DEF Syn, Senders
    <3> QED BY <3>1, <3>2, <1>4
  <2> QED BY <2>1, <2>2 DEF Senders
<1>6. ASSUME NEW s \in Senders, NEW p \in 1 .. StreamLen, NEW n \in 1 .. MaxSegment,
             Data(s, p, n)
      PROVE  MergeInv'
  <2>0. p + n - 1 <= StreamLen
    BY <1>6 DEF Data
  <2>1. CASE s = 1
    <3>1. conn' = [conn EXCEPT !.c2s = Feed(conn.c2s, p, Text(1, p, n), FALSE, FALSE)]
      <4>1. conn' = ConnectionFeed(conn, 1, p, Text(1, p, n), FALSE, FALSE)
        BY <1>6, <2>1 DEF Data
      <4> QED BY <1>1, <4>1, FeedIs
    <3>2. Kept(Feed(conn.c2s, p, Text(1, p, n), FALSE, FALSE), 1)
      BY <1>1, <1>6, <2>0, <2>1, KeptData DEF Data, Senders
    <3> QED BY <3>1, <3>2, <1>3
  <2>2. CASE s = 2
    <3>1. conn' = [conn EXCEPT !.s2c = Feed(conn.s2c, p, Text(2, p, n), FALSE, FALSE)]
      <4>1. conn' = ConnectionFeed(conn, 2, p, Text(2, p, n), FALSE, FALSE)
        BY <1>6, <2>2 DEF Data
      <4> QED BY <1>1, <4>1, FeedIs
    <3>2. Kept(Feed(conn.s2c, p, Text(2, p, n), FALSE, FALSE), 2)
      BY <1>1, <1>6, <2>0, <2>2, KeptData DEF Data, Senders
    <3> QED BY <3>1, <3>2, <1>4
  <2> QED BY <2>1, <2>2 DEF Senders
<1>7. ASSUME NEW fill_gaps \in BOOLEAN, Merge(fill_gaps) PROVE MergeInv'
  <2>1. conn' = [conn EXCEPT !.c2s = Cleared(conn.c2s), !.s2c = Cleared(conn.s2c)]
    BY <1>1, <1>7 DEF Merge, AfterMergedData, Connections
  <2>2. Kept(Cleared(conn.c2s), 1) /\ Kept(Cleared(conn.s2c), 2)
    BY <1>1, KeptCleared DEF Senders
  <2> QED BY <1>2, <2>1, <2>2
<1>8. CASE UNCHANGED vars
  BY <1>1, <1>8 DEF vars, MergeInv, Kept
<1> QED BY <1>5, <1>6, <1>7, <1>8 DEF Next

(* The inductive invariant of ConnectionMerge: in both directions, what is *)
(* ready and what is held is the sender's bytes, each in its place.        *)
THEOREM MergeInvariant == Spec => []MergeInv
<1>1. Init => MergeInv
  <2> SUFFICES ASSUME Init PROVE MergeInv
    OBVIOUS
  <2>1. Kept(NewBuffer, 1) /\ Kept(NewBuffer, 2)
    BY KeptNew DEF Senders
  <2>2. conn = [id |-> <<1, 2>>, c2s |-> NewBuffer, s2c |-> NewBuffer]
    BY DEF Init, NewConnection
  <2>3. NewBuffer \in Buffers
    BY <2>1 DEF Kept
  <2>4. conn \in Connections /\ conn.c2s = NewBuffer /\ conn.s2c = NewBuffer
    BY <2>2, <2>3 DEF Connections
  <2>5. Kept(conn.c2s, 1) /\ Kept(conn.s2c, 2)
    BY <2>1, <2>4
  <2> QED BY <2>4, <2>5 DEF MergeInv
<1>2. MergeInv /\ [Next]_vars => MergeInv'
  BY MergeInvStep
<1> QED BY <1>1, <1>2, PTL DEF Spec
-----------------------------------------------------------------------------
(* FlattenSeq of a sequence of sequences, put together piece by piece.     *)
FlatTo(xs, f, n) ==
  f = [i \in 1 .. n |-> IF i = 1 THEN xs[i] ELSE f[i - 1] \o xs[i]]

LEMMA FlatExists ==
  ASSUME NEW xs, NEW n \in Nat
  PROVE  \E f : FlatTo(xs, f, n)
<1> DEFINE T == {i \in Nat : \E f : FlatTo(xs, f, i)}
<1>1. 0 \in T
  <2>1. FlatTo(xs, [i \in 1 .. 0 |-> xs[i]], 0)
    BY DEF FlatTo
  <2> QED BY <2>1
<1>2. ASSUME NEW m \in 0 .. n - 1, m \in T PROVE m + 1 \in T
  <2>1. PICK f : FlatTo(xs, f, m)
    BY <1>2
  <2> DEFINE g == [i \in 1 .. m + 1 |-> IF i = 1 THEN xs[i] ELSE f[i - 1] \o xs[i]]
             h == [i \in 1 .. m + 1 |-> IF i = 1 THEN xs[i] ELSE g[i - 1] \o xs[i]]
  <2>2. \A i \in 1 .. m : g[i] = f[i]
    <3> SUFFICES ASSUME NEW i \in 1 .. m PROVE g[i] = f[i]
      OBVIOUS
    <3>1. i \in 1 .. m + 1
      OBVIOUS
    <3>2. g[i] = IF i = 1 THEN xs[i] ELSE f[i - 1] \o xs[i]
      BY <3>1
    <3>3. f[i] = IF i = 1 THEN xs[i] ELSE f[i - 1] \o xs[i]
      BY <2>1 DEF FlatTo
    <3> QED BY <3>2, <3>3
  <2>3. ASSUME NEW i \in 1 .. m + 1, i # 1 PROVE g[i - 1] = f[i - 1]
    <3>1. i - 1 \in 1 .. m
      BY <2>3
    <3> QED BY <3>1, <2>2
  <2>4. g = h
    <3>1. \A i \in 1 .. m + 1 : g[i] = h[i]
      BY <2>3
    <3> QED BY <3>1
  <2>5. FlatTo(xs, g, m + 1)
    BY <2>4 DEF FlatTo
  <2> QED BY <2>5
<1>3. \A i \in 0 .. n : i \in T
  <2> HIDE DEF T
  <2> QED BY <1>1, <1>2, StepByStep
<1> QED BY <1>3

(* What the first i pieces make: nothing, then one piece more each time.   *)
Pieced(S, xs, g) ==
  /\ g \in [0 .. Len(xs) -> Seq(S)]
  /\ g[0] = << >>
  /\ \A i \in 1 .. Len(xs) : g[i] = g[i - 1] \o xs[i]

LEMMA FlattenIs ==
  ASSUME NEW S, NEW xs \in Seq(Seq(S))
  PROVE  \E g : Pieced(S, xs, g) /\ FlattenSeq(xs) = g[Len(xs)]
<1> DEFINE n == Len(xs)
           f == CHOOSE h : FlatTo(xs, h, n)
           g == [i \in 0 .. n |-> IF i = 0 THEN << >> ELSE f[i]]
<1>1. n \in Nat /\ \A i \in 1 .. n : xs[i] \in Seq(S)
  BY ElementOfSeq, LenProperties
<1>2. FlatTo(xs, f, n)
  <2> HIDE DEF n
  <2> QED BY <1>1, FlatExists
<1>3. FlattenSeq(xs) = IF n = 0 THEN xs ELSE f[n]
  BY DEF FlattenSeq, FlatTo
<1> HIDE DEF n, f
<1>4. \A i \in 1 .. n : f[i] = IF i = 1 THEN xs[i] ELSE f[i - 1] \o xs[i]
  BY <1>2 DEF FlatTo
<1>5. g[0] = << >> /\ \A i \in 1 .. n : g[i] = f[i]
  BY <1>1
<1> DEFINE T == {i \in 0 .. n : g[i] \in Seq(S) /\ (i # 0 => g[i] = g[i - 1] \o xs[i])}
<1>6. 0 \in T
  BY <1>1, <1>5
<1>7. ASSUME NEW i \in 0 .. n - 1, i \in T PROVE i + 1 \in T
  <2>1. i + 1 \in 1 .. n /\ (i + 1) - 1 = i /\ xs[i + 1] \in Seq(S)
    BY <1>1
  <2>2. g[i + 1] = g[i] \o xs[i + 1]
    <3>1. g[i + 1] = f[i + 1]
      BY <1>5, <2>1
    <3>2. CASE i = 0
      <4>1. f[i + 1] = xs[i + 1]
        BY <1>4, <2>1, <3>2
      <4>2. g[i] = << >>
        BY <1>5, <3>2
      <4> HIDE DEF g
      <4> QED BY <2>1, <3>1, <4>1, <4>2, ConcatEmptySeq
    <3>3. CASE i # 0
      <4>0. i + 1 # 1
        BY <3>3
      <4>1. f[i + 1] = f[(i + 1) - 1] \o xs[i + 1]
        BY <1>4, <2>1, <4>0
      <4>2. g[i] = f[i]
        BY <1>1, <1>5, <3>3
      <4> HIDE DEF g
      <4> QED BY <2>1, <3>1, <4>1, <4>2
    <3> QED BY <3>2, <3>3
  <2>3. g[i] \in Seq(S)
    BY <1>7
  <2> HIDE DEF g
  <2>4. g[i + 1] \in Seq(S)
    BY <2>1, <2>2, <2>3, ConcatProperties
  <2>5. i + 1 \in 0 .. n /\ g[i + 1] = g[(i + 1) - 1] \o xs[i + 1]
    BY <2>1, <2>2
  <2> QED BY <2>4, <2>5
<1>8. \A i \in 0 .. n : i \in T
  <2> HIDE DEF T
  <2> QED BY <1>1, <1>6, <1>7, StepByStep
<1>9. Pieced(S, xs, g)
  <2>1. \A i \in 0 .. n : g[i] \in Seq(S)
    <3> HIDE DEF g
    <3> QED BY <1>8
  <2>2. g \in [0 .. n -> Seq(S)]
    BY <2>1
  <2>3. \A i \in 1 .. n : g[i] = g[i - 1] \o xs[i]
    <3> SUFFICES ASSUME NEW i \in 1 .. n PROVE g[i] = g[i - 1] \o xs[i]
      OBVIOUS
    <3>1. i \in 0 .. n /\ i # 0
      BY <1>1
    <3> HIDE DEF g
    <3> QED BY <3>1, <1>8
  <2> HIDE DEF g
  <2> QED BY <1>5, <2>2, <2>3 DEF Pieced, n
<1>10. FlattenSeq(xs) = g[n]
  <2>1. CASE n = 0
    <3>1. xs = << >>
      BY <2>1, EmptySeq DEF n
    <3> HIDE DEF g
    <3> QED BY <1>3, <1>5, <2>1, <3>1
  <2>2. CASE n # 0
    <3>1. n \in 1 .. n
      BY <1>1, <2>2
    <3> HIDE DEF g
    <3> QED BY <1>3, <1>5, <2>2, <3>1
  <2> QED BY <2>1, <2>2
<1> HIDE DEF g
<1> QED BY <1>9, <1>10 DEF n

(* There is only one way to put it together.                               *)
LEMMA FlattenBy ==
  ASSUME NEW S, NEW xs \in Seq(Seq(S)), NEW h, Pieced(S, xs, h)
  PROVE  FlattenSeq(xs) = h[Len(xs)]
<1>1. PICK g : Pieced(S, xs, g) /\ FlattenSeq(xs) = g[Len(xs)]
  BY FlattenIs
<1> DEFINE n == Len(xs)
           T == {i \in 0 .. n : g[i] = h[i]}
<1>2. n \in Nat
  BY LenProperties
<1>3. 0 \in T
  BY <1>1, <1>2 DEF Pieced
<1>4. ASSUME NEW i \in 0 .. n - 1, i \in T PROVE i + 1 \in T
  <2>1. i + 1 \in 1 .. n /\ (i + 1) - 1 = i
    BY <1>2
  <2>2. g[i + 1] = g[(i + 1) - 1] \o xs[i + 1] /\ h[i + 1] = h[(i + 1) - 1] \o xs[i + 1]
    BY <1>1, <2>1 DEF Pieced
  <2>3. g[i + 1] = h[i + 1]
    BY <1>4, <2>1, <2>2
  <2>4. i + 1 \in 0 .. n
    BY <2>1
  <2> QED BY <2>3, <2>4
<1>5. \A i \in 0 .. n : i \in T
  <2> HIDE DEF T, n
  <2> QED BY <1>2, <1>3, <1>4, StepByStep
<1> QED BY <1>1, <1>2, <1>5

(* Flattening takes a concatenation apart.                                 *)
LEMMA FlattenConcat ==
  ASSUME NEW S, NEW xs \in Seq(Seq(S)), NEW ys \in Seq(Seq(S))
  PROVE  /\ FlattenSeq(xs) \in Seq(S) /\ FlattenSeq(ys) \in Seq(S)
         /\ FlattenSeq(xs \o ys) = FlattenSeq(xs) \o FlattenSeq(ys)
<1>1. PICK g : Pieced(S, xs, g) /\ FlattenSeq(xs) = g[Len(xs)]
  BY FlattenIs
<1>2. PICK h : Pieced(S, ys, h) /\ FlattenSeq(ys) = h[Len(ys)]
  BY FlattenIs
<1> DEFINE a  == Len(xs)
           b  == Len(ys)
           zs == xs \o ys
           k  == [i \in 0 .. a + b |-> IF i <= a THEN g[i] ELSE g[a] \o h[i - a]]
<1>3. /\ a \in Nat /\ b \in Nat
      /\ \A i \in 1 .. a : xs[i] \in Seq(S)
      /\ \A i \in 1 .. b : ys[i] \in Seq(S)
  BY ElementOfSeq, LenProperties
<1>4. /\ zs \in Seq(Seq(S)) /\ Len(zs) = a + b
      /\ \A i \in 1 .. a + b : zs[i] = IF i <= a THEN xs[i] ELSE ys[i - a]
  BY ConcatProperties
<1>5. /\ \A i \in 0 .. a : g[i] \in Seq(S)
      /\ g[0] = << >>
      /\ \A i \in 1 .. a : g[i] = g[i - 1] \o xs[i]
      /\ \A i \in 0 .. b : h[i] \in Seq(S)
      /\ h[0] = << >>
      /\ \A i \in 1 .. b : h[i] = h[i - 1] \o ys[i]
  BY <1>1, <1>2 DEF Pieced
<1> HIDE DEF a, b, zs
<1>6. g[a] \in Seq(S) /\ h[b] \in Seq(S)
  <2>1. a \in 0 .. a /\ b \in 0 .. b
    BY <1>3
  <2> QED BY <2>1, <1>5
<1>7. ASSUME NEW i \in 0 .. a + b PROVE k[i] \in Seq(S)
  <2>1. CASE i <= a
    <3>1. i \in 0 .. a /\ k[i] = g[i]
      BY <1>3, <2>1
    <3> QED BY <1>5, <3>1
  <2>2. CASE ~ (i <= a)
    <3>0. i - a \in 0 .. b
      BY <1>3, <2>2
    <3>1. k[i] = g[a] \o h[i - a]
      BY <2>2
    <3>2. h[i - a] \in Seq(S)
      BY <1>5, <3>0
    <3> HIDE DEF k
    <3> QED BY <1>6, <3>1, <3>2, ConcatProperties
  <2> QED BY <2>1, <2>2
<1>8. ASSUME NEW i \in 1 .. a + b PROVE k[i] = k[i - 1] \o zs[i]
  <2>0. i \in 0 .. a + b /\ i - 1 \in 0 .. a + b
    BY <1>3
  <2>1. CASE i <= a
    <3>1. i \in 1 .. a /\ i - 1 <= a
      BY <1>3, <2>1
    <3>2. k[i] = g[i] /\ k[i - 1] = g[i - 1]
      BY <2>0, <2>1, <3>1
    <3>3. zs[i] = xs[i]
      BY <1>4, <2>1
    <3> HIDE DEF k
    <3> QED BY <1>5, <3>1, <3>2, <3>3
  <2>2. CASE ~ (i <= a)
    <3> DEFINE j == i - a
    <3>1. j \in 1 .. b /\ j - 1 \in 0 .. b /\ j \in 0 .. b /\ (i - 1) - a = j - 1
      BY <1>3, <2>2
    <3>2. k[i] = g[a] \o h[j]
      BY <2>0, <2>2
    <3>3. k[i - 1] = g[a] \o h[j - 1]
      <4>1. CASE i - 1 <= a
        <5>1. i - 1 = a /\ j - 1 = 0
          BY <1>3, <2>2, <4>1
        <5>2. k[i - 1] = g[a]
          BY <2>0, <5>1
        <5>3. h[j - 1] = << >>
          BY <1>5, <5>1
        <5> HIDE DEF k, j
        <5> QED BY <1>6, <5>2, <5>3, ConcatEmptySeq
      <4>2. CASE ~ (i - 1 <= a)
        <5>1. k[i - 1] = g[a] \o h[(i - 1) - a]
          BY <2>0, <4>2
        <5> HIDE DEF k, j
        <5> QED BY <3>1, <5>1
      <4> QED BY <4>1, <4>2
    <3>4. zs[i] = ys[j]
      BY <1>4, <2>2
    <3> HIDE DEF k, j
    <3>5. h[j] = h[j - 1] \o ys[j] /\ h[j - 1] \in Seq(S) /\ ys[j] \in Seq(S)
      <4>1. h[j] = h[j - 1] \o ys[j]
        BY <1>5, <3>1
      <4>2. h[j - 1] \in Seq(S)
        BY <1>5, <3>1
      <4>3. ys[j] \in Seq(S)
        BY <1>3, <3>1
      <4> QED BY <4>1, <4>2, <4>3
    <3>6. (g[a] \o h[j - 1]) \o ys[j] = g[a] \o (h[j - 1] \o ys[j])
      <4> DEFINE u == g[a]
                 v == h[j - 1]
                 w == ys[j]
      <4>1. u \in Seq(S) /\ v \in Seq(S) /\ w \in Seq(S)
        BY <1>6, <3>5
      <4> HIDE DEF u, v, w
      <4>2. (u \o v) \o w = u \o (v \o w)
        BY <4>1, ConcatAssociative
      <4> QED BY <4>2 DEF u, v, w
    <3> QED BY <3>2, <3>3, <3>4, <3>5, <3>6
  <2> QED BY <2>1, <2>2
<1>9. Pieced(S, zs, k)
  <2>1. k[0] = << >>
    <3>1. 0 \in 0 .. a + b /\ 0 <= a
      BY <1>3
    <3> QED BY <1>5, <3>1
  <2>2. k \in [0 .. a + b -> Seq(S)]
    BY <1>7
  <2> HIDE DEF k
  <2> QED BY <1>4, <1>8, <2>1, <2>2 DEF Pieced
<1>10. FlattenSeq(zs) = k[a + b]
  <2> HIDE DEF k
  <2> QED BY <1>4, <1>9, FlattenBy
<1>11. k[a + b] = g[a] \o h[b]
  <2>1. a + b \in 0 .. a + b
    BY <1>3
  <2>2. CASE b = 0
    <3>1. k[a + b] = g[a]
      BY <1>3, <2>1, <2>2
    <3> HIDE DEF k
    <3> QED BY <1>5, <1>6, <2>2, <3>1, ConcatEmptySeq
  <2>3. CASE b # 0
    <3>1. ~ (a + b <= a) /\ (a + b) - a = b
      BY <1>3, <2>3
    <3> QED BY <2>1, <3>1
  <2> QED BY <2>2, <2>3
<1> HIDE DEF k
<1> QED BY <1>1, <1>2, <1>6, <1>10, <1>11 DEF zs, a, b

LEMMA FlattenOne ==
  ASSUME NEW S, NEW x \in Seq(S)
  PROVE  FlattenSeq(<<x>>) = x
<1> DEFINE h == [i \in 0 .. 1 |-> IF i = 0 THEN << >> ELSE x]
<1>1. <<x>> \in Seq(Seq(S)) /\ Len(<<x>>) = 1 /\ <<x>>[1] = x
  OBVIOUS
<1>2. h[0] = << >> /\ h[1] = x /\ h \in [0 .. 1 -> Seq(S)]
  <2>1. << >> \in Seq(S)
    OBVIOUS
  <2> QED BY <2>1
<1>3. x = << >> \o x
  BY ConcatEmptySeq
<1> HIDE DEF h
<1>4. \A i \in 1 .. 1 : h[i] = h[i - 1] \o <<x>>[i]
  BY <1>1, <1>2, <1>3
<1>5. Pieced(S, <<x>>, h)
  BY <1>1, <1>2, <1>4 DEF Pieced
<1> QED BY <1>1, <1>2, <1>5, FlattenBy

LEMMA FlattenNothing ==
  ASSUME NEW S, NEW xs \in Seq(Seq(S)), \A i \in 1 .. Len(xs) : xs[i] = << >>
  PROVE  FlattenSeq(xs) = << >>
<1> DEFINE h == [i \in 0 .. Len(xs) |-> << >>]
<1>1. Len(xs) \in Nat /\ << >> \in Seq(S) /\ << >> \o << >> = << >>
  BY LenProperties
<1>2. \A i \in 0 .. Len(xs) : h[i] = << >>
  OBVIOUS
<1>3. h \in [0 .. Len(xs) -> Seq(S)] /\ h[0] = << >> /\ h[Len(xs)] = << >>
  BY <1>1, <1>2
<1>4. ASSUME NEW i \in 1 .. Len(xs) PROVE h[i] = h[i - 1] \o xs[i]
  <2>1. i \in 0 .. Len(xs) /\ i - 1 \in 0 .. Len(xs)
    BY <1>1
  <2>2. h[i] = << >> /\ h[i - 1] = << >> /\ xs[i] = << >>
    BY <1>2, <2>1
  <2> HIDE DEF h
  <2> QED BY <1>1, <2>2
<1> HIDE DEF h
<1>5. Pieced(S, xs, h)
  BY <1>3, <1>4 DEF Pieced
<1> QED BY <1>3, <1>5, FlattenBy
-----------------------------------------------------------------------------
AnyByte == SentBytes \cup {Zero}

(* Of, byte by byte.                                                       *)
Parts(out, s) ==
  [i \in DOMAIN out |-> IF out[i] # Zero /\ out[i][1] = s THEN <<out[i]>> ELSE NoBytes]

LEMMA PartsType ==
  ASSUME NEW s, NEW x \in Seq(AnyByte)
  PROVE  /\ Parts(x, s) \in Seq(Seq(AnyByte))
         /\ Len(Parts(x, s)) = Len(x)
         /\ \A i \in 1 .. Len(x) :
              Parts(x, s)[i] = IF x[i] # Zero /\ x[i][1] = s THEN <<x[i]>> ELSE << >>
         /\ Of(x, s) = FlattenSeq(Parts(x, s))
<1>1. Len(x) \in Nat /\ DOMAIN x = 1 .. Len(x) /\ \A i \in 1 .. Len(x) : x[i] \in AnyByte
  BY ElementOfSeq, LenProperties
<1>2. \A i \in 1 .. Len(x) : <<x[i]>> \in Seq(AnyByte) /\ << >> \in Seq(AnyByte)
  BY <1>1
<1>3. /\ Parts(x, s) \in [1 .. Len(x) -> Seq(AnyByte)]
      /\ \A i \in 1 .. Len(x) :
           Parts(x, s)[i] = IF x[i] # Zero /\ x[i][1] = s THEN <<x[i]>> ELSE << >>
  BY <1>1, <1>2 DEF Parts, NoBytes
<1>4. Of(x, s) = FlattenSeq(Parts(x, s))
  BY DEF Of, Parts
<1> HIDE DEF Parts
<1> QED BY <1>1, <1>3, <1>4

LEMMA OfConcat ==
  ASSUME NEW s, NEW x \in Seq(AnyByte), NEW y \in Seq(AnyByte)
  PROVE  /\ Of(x, s) \in Seq(AnyByte) /\ Of(y, s) \in Seq(AnyByte)
         /\ Of(x \o y, s) = Of(x, s) \o Of(y, s)
<1> DEFINE z == x \o y
           p == Parts(x, s)
           q == Parts(y, s)
           r == Parts(z, s)
           a == Len(x)
           b == Len(y)
<1>1. a \in Nat /\ b \in Nat
  BY LenProperties
<1>2. /\ z \in Seq(AnyByte) /\ Len(z) = a + b
      /\ \A i \in 1 .. a + b : z[i] = IF i <= a THEN x[i] ELSE y[i - a]
  BY ConcatProperties
<1> HIDE DEF z, a, b
<1>3. /\ p \in Seq(Seq(AnyByte)) /\ Len(p) = a
      /\ \A i \in 1 .. a : p[i] = IF x[i] # Zero /\ x[i][1] = s THEN <<x[i]>> ELSE << >>
  BY PartsType DEF a
<1>4. /\ q \in Seq(Seq(AnyByte)) /\ Len(q) = b
      /\ \A i \in 1 .. b : q[i] = IF y[i] # Zero /\ y[i][1] = s THEN <<y[i]>> ELSE << >>
  BY PartsType DEF b
<1>5. /\ r \in Seq(Seq(AnyByte)) /\ Len(r) = a + b
      /\ \A i \in 1 .. a + b : r[i] = IF z[i] # Zero /\ z[i][1] = s THEN <<z[i]>> ELSE << >>
  BY <1>2, PartsType
<1> HIDE DEF p, q, r
<1>6. /\ p \o q \in Seq(Seq(AnyByte)) /\ Len(p \o q) = a + b
      /\ \A i \in 1 .. a + b : (p \o q)[i] = IF i <= a THEN p[i] ELSE q[i - a]
  BY <1>3, <1>4, ConcatProperties
<1>7. ASSUME NEW i \in 1 .. a + b PROVE r[i] = (p \o q)[i]
  <2>1. CASE i <= a
    <3>1. i \in 1 .. a
      BY <1>1, <2>1
    <3> QED BY <3>1, <2>1, <1>2, <1>3, <1>5, <1>6
  <2>2. CASE ~ (i <= a)
    <3>1. i - a \in 1 .. b
      BY <1>1, <2>2
    <3>2. z[i] = y[i - a] /\ (p \o q)[i] = q[i - a]
      BY <2>2, <1>2, <1>6
    <3>3. q[i - a] = IF y[i - a] # Zero /\ y[i - a][1] = s THEN <<y[i - a]>> ELSE << >>
      BY <3>1, <1>4
    <3>4. r[i] = IF z[i] # Zero /\ z[i][1] = s THEN <<z[i]>> ELSE << >>
      BY <1>5
    <3> QED BY <3>2, <3>3, <3>4
  <2> QED BY <2>1, <2>2
<1>8. r = p \o q
  <2>1. Len(r) = Len(p \o q) /\ \A i \in 1 .. Len(r) : r[i] = (p \o q)[i]
    BY <1>5, <1>6, <1>7
  <2>2. r \in Seq(Seq(AnyByte)) /\ p \o q \in Seq(Seq(AnyByte))
    BY <1>5, <1>6
  <2> QED BY <2>1, <2>2, SeqEqual
<1>9. /\ FlattenSeq(p) \in Seq(AnyByte) /\ FlattenSeq(q) \in Seq(AnyByte)
      /\ FlattenSeq(r) = FlattenSeq(p) \o FlattenSeq(q)
  BY <1>3, <1>4, <1>8, FlattenConcat
<1>10. Of(z, s) = FlattenSeq(r) /\ Of(x, s) = FlattenSeq(p) /\ Of(y, s) = FlattenSeq(q)
  BY <1>2, PartsType DEF p, q, r
<1> QED BY <1>9, <1>10 DEF z

(* Nothing but zeros and bytes of the other side: nothing of s.            *)
LEMMA OfOthers ==
  ASSUME NEW s, NEW x \in Seq(AnyByte),
         \A i \in 1 .. Len(x) : x[i] = Zero \/ x[i][1] # s
  PROVE  Of(x, s) = << >>
<1>1. /\ Parts(x, s) \in Seq(Seq(AnyByte))
      /\ \A i \in 1 .. Len(Parts(x, s)) : Parts(x, s)[i] = << >>
      /\ Of(x, s) = FlattenSeq(Parts(x, s))
  BY PartsType
<1> QED BY <1>1, FlattenNothing

(* Nothing but bytes of s: all of them.                                    *)
LEMMA OfOwn ==
  ASSUME NEW s \in Senders, NEW a \in Nat, NEW e \in Nat, a <= e
  PROVE  Of(Stretch(s, a, e), s) = Stretch(s, a, e)
<1> DEFINE x == Stretch(s, a, e)
           n == e - a
           p == Parts(x, s)
           h == [i \in 0 .. n |-> Stretch(s, a, a + i)]
<1>1. /\ x \in Seq(SentBytes) /\ Len(x) = n /\ n \in Nat
      /\ \A i \in 1 .. n : x[i] = <<s, a + i - 1>>
  <2>1. e - a \in Nat
    OBVIOUS
  <2>2. /\ x \in Seq(SentBytes) /\ Len(x) = e - a
        /\ \A i \in 1 .. e - a : x[i] = <<s, a + i - 1>>
    BY StretchType
  <2> QED BY <2>1, <2>2
<1> HIDE DEF x
<1>2. x \in Seq(AnyByte)
  BY <1>1 DEF AnyByte
<1>3. ASSUME NEW i \in 1 .. n PROVE x[i] # Zero /\ x[i][1] = s
  <2>1. a + i - 1 \in Nat
    OBVIOUS
  <2>2. <<s, a + i - 1>> \in {1, 2} \X Nat
    BY <2>1 DEF Senders
  <2> QED BY <1>1, <2>2, MergeAssumption
<1>4. /\ p \in Seq(Seq(AnyByte)) /\ Len(p) = n
      /\ \A i \in 1 .. n : p[i] = <<x[i]>>
      /\ Of(x, s) = FlattenSeq(p)
  <2>1. /\ p \in Seq(Seq(AnyByte)) /\ Len(p) = Len(x)
        /\ \A i \in 1 .. Len(x) :
              p[i] = IF x[i] # Zero /\ x[i][1] = s THEN <<x[i]>> ELSE << >>
        /\ Of(x, s) = FlattenSeq(p)
    BY <1>2, PartsType
  <2> HIDE DEF p, n
  <2> QED BY <1>1, <1>3, <2>1
<1> HIDE DEF p
<1>5. ASSUME NEW i \in 0 .. n
      PROVE  a + i \in Nat /\ a <= a + i /\ h[i] = Stretch(s, a, a + i) /\ h[i] \in Seq(AnyByte)
  <2>1. a + i \in Nat /\ a <= a + i
    OBVIOUS
  <2>2. h[i] = Stretch(s, a, a + i)
    OBVIOUS
  <2>3. Stretch(s, a, a + i) \in Seq(SentBytes)
    BY <2>1, StretchType
  <2> HIDE DEF h
  <2> QED BY <2>1, <2>2, <2>3 DEF AnyByte
<1>6. h[0] = << >> /\ h[n] = x
  <2>1. 0 \in 0 .. n /\ n \in 0 .. n /\ a + 0 = a /\ a + n = e
    BY <1>1
  <2>2. h[0] = Stretch(s, a, a) /\ h[n] = Stretch(s, a, e)
    BY <2>1
  <2> HIDE DEF h
  <2> QED BY <2>2, StretchNone DEF x
<1>7. ASSUME NEW i \in 1 .. n PROVE h[i] = h[i - 1] \o p[i]
  <2> DEFINE m == a + (i - 1)
  <2>1. i - 1 \in 0 .. n /\ i \in 0 .. n /\ m \in Nat /\ a <= m /\ a + i = m + 1 /\ m <= m + 1
        /\ m + 1 \in Nat /\ a + i - 1 = m
    OBVIOUS
  <2>2. h[i - 1] = Stretch(s, a, m) /\ h[i] = Stretch(s, a, m + 1)
    BY <2>1
  <2>3. p[i] = <<<<s, m>>>>
    BY <1>1, <1>4, <2>1
  <2> HIDE DEF h, m
  <2>4. Stretch(s, m, m + 1) = <<<<s, m>>>>
    <3>1. (m + 1) - m = 1 /\ m + 1 - 1 = m
      BY <2>1
    <3>2. /\ Stretch(s, m, m + 1) \in Seq(SentBytes) /\ Len(Stretch(s, m, m + 1)) = 1
          /\ Stretch(s, m, m + 1)[1] = <<s, m>>
      <4>1. /\ Stretch(s, m, m + 1) \in Seq(SentBytes)
            /\ Len(Stretch(s, m, m + 1)) = (m + 1) - m
            /\ \A k \in 1 .. (m + 1) - m : Stretch(s, m, m + 1)[k] = <<s, m + k - 1>>
        BY <2>1, StretchType
      <4>2. 1 \in 1 .. (m + 1) - m
        BY <3>1
      <4> QED BY <3>1, <4>1, <4>2
    <3>3. <<s, m>> \in SentBytes
      BY <2>1 DEF SentBytes
    <3>4. /\ <<<<s, m>>>> \in Seq(SentBytes) /\ Len(<<<<s, m>>>>) = 1
          /\ <<<<s, m>>>>[1] = <<s, m>>
      BY <3>3
    <3>5. \A k \in 1 .. 1 : Stretch(s, m, m + 1)[k] = <<<<s, m>>>>[k]
      BY <3>2, <3>4
    <3> QED BY <3>2, <3>4, <3>5, SeqEqual
  <2>5. Stretch(s, a, m) \o Stretch(s, m, m + 1) = Stretch(s, a, m + 1)
    BY <2>1, StretchJoin
  <2> QED BY <2>2, <2>3, <2>4, <2>5
<1>8. Pieced(AnyByte, p, h)
  <2>1. h \in [0 .. n -> Seq(AnyByte)]
    BY <1>5
  <2> HIDE DEF h, n
  <2> QED BY <1>4, <1>6, <1>7, <2>1 DEF Pieced
<1> HIDE DEF h, n
<1>9. FlattenSeq(p) = h[n]
  BY <1>4, <1>8, FlattenBy
<1> QED BY <1>4, <1>6, <1>9 DEF x
-----------------------------------------------------------------------------
(* The i-th segment: where it starts and ends.                             *)
StartOf(held, i) ==
  CHOOSE p \in RunStarts(held) : Cardinality({q \in RunStarts(held) : q < p}) = i - 1
EndOf(held, i) == RunEnd(held, StartOf(held, i))

LEMMA StartsAre ==
  ASSUME NEW held \in HeldBytes
  PROVE  /\ DOMAIN held \in SUBSET Nat /\ IsFiniteSet(DOMAIN held)
         /\ RunStarts(held) = StartsIn(DOMAIN held)
         /\ RunStarts(held) \subseteq DOMAIN held
         /\ Cardinality(RunStarts(held)) \in Nat
         /\ \A i \in 1 .. Cardinality(RunStarts(held)) :
              /\ StartOf(held, i) \in RunStarts(held)
              /\ Cardinality(Below(RunStarts(held), StartOf(held, i))) = i - 1
<1> DEFINE T == RunStarts(held)
<1>1. IsFiniteSet(DOMAIN held) /\ DOMAIN held \in SUBSET Nat
  BY HeldFinite
<1>2. T \subseteq DOMAIN held /\ T = StartsIn(DOMAIN held)
  BY DEF RunStarts, StartsIn
<1>3. T \in SUBSET Nat /\ IsFiniteSet(T) /\ Cardinality(T) \in Nat
  BY <1>1, <1>2, FS_Subset, FS_CardinalityType
<1>4. ASSUME NEW i \in 1 .. Cardinality(T)
      PROVE  StartOf(held, i) \in T /\ Cardinality(Below(T, StartOf(held, i))) = i - 1
  <2>1. \E p \in T : Cardinality({q \in T : q < p}) = i - 1
    <3> HIDE DEF T
    <3> QED BY <1>3, PlacesTaken DEF Below
  <2> QED BY <2>1 DEF StartOf, Below
<1> QED BY <1>1, <1>2, <1>3, <1>4

LEMMA SegmentsAre ==
  ASSUME NEW held
  PROVE  Segments(held) = [i \in 1 .. Cardinality(RunStarts(held)) |->
           [rel_seq |-> StartOf(held, i),
            data |-> Slice(held, StartOf(held, i), EndOf(held, i))]]
  BY DEF Segments, StartOf, EndOf, RunAt

(* A segment holds at least one byte, and no segment touches the next.     *)
LEMMA SegmentsApart ==
  ASSUME NEW held \in HeldBytes, NEW i \in 1 .. Cardinality(RunStarts(held))
  PROVE  /\ StartOf(held, i) \in DOMAIN held
         /\ StartOf(held, i) \in Nat /\ EndOf(held, i) \in Nat
         /\ StartOf(held, i) < EndOf(held, i)
         /\ \A k \in StartOf(held, i) .. EndOf(held, i) - 1 : k \in DOMAIN held
         /\ i + 1 \in 1 .. Cardinality(RunStarts(held)) =>
              EndOf(held, i) < StartOf(held, i + 1)
<1> DEFINE s == StartOf(held, i)
           e == EndOf(held, i)
           T == RunStarts(held)
           D == DOMAIN held
           n == Cardinality(T)
<1>1. /\ s \in T /\ s \in D /\ s \in Nat /\ D \in SUBSET Nat /\ IsFiniteSet(D)
      /\ T = StartsIn(D) /\ Cardinality(Below(T, s)) = i - 1 /\ n \in Nat
  BY StartsAre
<1>2. /\ e \in Nat /\ s <= e /\ e \notin D /\ \A k \in s .. e - 1 : k \in D
  <2> HIDE DEF s
  <2> QED BY <1>1, RunEndIs DEF EndOf, s
<1> HIDE DEF s, e
<1>3. s < e
  BY <1>1, <1>2
<1>4. ASSUME i + 1 \in 1 .. n PROVE e < StartOf(held, i + 1)
  <2> DEFINE t == StartOf(held, i + 1)
  <2>1. t \in T /\ Cardinality(Below(T, t)) = (i + 1) - 1
    <3> DEFINE j == i + 1
    <3>1. j \in 1 .. Cardinality(RunStarts(held))
      BY <1>4
    <3> HIDE DEF j
    <3>2. StartOf(held, j) \in T /\ Cardinality(Below(T, StartOf(held, j))) = j - 1
      BY <3>1, StartsAre
    <3> QED BY <3>2 DEF j
  <2> HIDE DEF t, T, D, n
  <2>2. /\ D \in SUBSET Nat /\ IsFiniteSet(D)
        /\ s \in StartsIn(D) /\ t \in StartsIn(D)
        /\ Cardinality(Below(StartsIn(D), t)) = Cardinality(Below(StartsIn(D), s)) + 1
    BY <1>1, <2>1
  <2>3. e < t
    BY <1>2, <1>3, <2>2, RunsInOrder
  <2> QED BY <2>3 DEF t
<1> QED BY <1>1, <1>2, <1>3, <1>4 DEF s, e
-----------------------------------------------------------------------------
(* What merged_data has to put out of one direction: pieces of the         *)
(* sender's stream in ascending order, no two of which touch.              *)
ItemType ==
  [dir : Directions, rel_seq : Nat, ready : BOOLEAN, data : Seq(SentBytes)]

EndOfItem(x) == x.rel_seq + Len(x.data)

InRow(items, dir, s) ==
  /\ items \in Seq(ItemType)
  /\ \A k \in 1 .. Len(items) :
       /\ items[k].dir = dir
       /\ items[k].data = Stretch(s, items[k].rel_seq, EndOfItem(items[k]))
       /\ items[k].rel_seq < EndOfItem(items[k])
  /\ \A k \in 1 .. Len(items) :
       k + 1 <= Len(items) => EndOfItem(items[k]) < items[k + 1].rel_seq

LEMMA ItemsInRow ==
  ASSUME NEW s \in Senders, NEW b, Kept(b, s), NEW dir \in Directions
  PROVE  InRow(Items(b, dir), dir, s)
<1> DEFINE held == b.segments
           n    == Cardinality(RunStarts(held))
           segs == Segments(held)
           tail == [i \in 1 .. n |->
                      [dir |-> dir, rel_seq |-> segs[i].rel_seq,
                       ready |-> FALSE, data |-> segs[i].data]]
<1>1. /\ b.next_seq \in Nat /\ held \in HeldBytes /\ n \in Nat
      /\ \A p \in DOMAIN held : b.next_seq < p /\ held[p] = <<s, p>>
  BY StartsAre DEF Kept, Buffers
<1>2. /\ Len(segs) = n
      /\ \A i \in 1 .. n : /\ segs[i].rel_seq = StartOf(held, i)
                           /\ segs[i].data = Slice(held, StartOf(held, i), EndOf(held, i))
  <2>1. segs = [i \in 1 .. n |-> [rel_seq |-> StartOf(held, i),
                 data |-> Slice(held, StartOf(held, i), EndOf(held, i))]]
    BY SegmentsAre
  <2> HIDE DEF segs, n
  <2> QED BY <1>1, <2>1
<1> HIDE DEF segs, n, held
<1>3. ASSUME NEW i \in 1 .. n
      PROVE  /\ tail[i] \in ItemType /\ tail[i].dir = dir
             /\ tail[i].rel_seq = StartOf(held, i) /\ EndOfItem(tail[i]) = EndOf(held, i)
             /\ tail[i].data = Stretch(s, StartOf(held, i), EndOf(held, i))
             /\ tail[i].rel_seq < EndOfItem(tail[i])
             /\ b.next_seq < tail[i].rel_seq
  <2>1. /\ StartOf(held, i) \in Nat /\ EndOf(held, i) \in Nat
        /\ StartOf(held, i) < EndOf(held, i) /\ StartOf(held, i) \in DOMAIN held
        /\ \A k \in StartOf(held, i) .. EndOf(held, i) - 1 : k \in DOMAIN held
    BY <1>1, SegmentsApart DEF n
  <2>2. segs[i].data = Stretch(s, StartOf(held, i), EndOf(held, i))
    <3> DEFINE a == StartOf(held, i)
               e == EndOf(held, i)
    <3>1. a \in Nat /\ e \in Nat /\ \A k \in a .. e - 1 : k \in DOMAIN held
      BY <2>1
    <3>2. segs[i].data = Slice(held, a, e)
      BY <1>2
    <3> HIDE DEF a, e
    <3>3. Slice(held, a, e) = Stretch(s, a, e)
      BY <1>1, <3>1, SliceIs
    <3> QED BY <3>2, <3>3 DEF a, e
  <2>3. /\ segs[i].data \in Seq(SentBytes)
        /\ Len(segs[i].data) = EndOf(held, i) - StartOf(held, i)
    <3>1. StartOf(held, i) <= EndOf(held, i)
      BY <2>1
    <3> QED BY <2>1, <2>2, <3>1, StretchType
  <2>4. /\ tail[i].dir = dir /\ tail[i].rel_seq = StartOf(held, i)
        /\ tail[i].data = segs[i].data /\ tail[i] \in ItemType
    BY <1>2, <2>1, <2>3 DEF ItemType
  <2> HIDE DEF tail
  <2>5. EndOfItem(tail[i]) = EndOf(held, i)
    BY <2>1, <2>3, <2>4 DEF EndOfItem
  <2> QED BY <1>1, <2>1, <2>2, <2>4, <2>5
<1>4. ASSUME NEW i \in 1 .. n, i + 1 <= n
      PROVE  EndOfItem(tail[i]) < tail[i + 1].rel_seq
  <2>1. i + 1 \in 1 .. n
    BY <1>1, <1>4
  <2>2. EndOf(held, i) < StartOf(held, i + 1)
    BY <1>1, <2>1, SegmentsApart DEF n
  <2> HIDE DEF tail
  <2> QED BY <1>3, <2>1, <2>2
<1>5. tail \in Seq(ItemType) /\ Len(tail) = n
  <2>1. tail \in [1 .. n -> ItemType]
    BY <1>3
  <2> QED BY <1>1, <2>1
<1> DEFINE first == [dir |-> dir, rel_seq |-> b.next_seq - Len(b.contiguous),
                     ready |-> TRUE, data |-> b.contiguous]
<1>6. Items(b, dir) = (IF b.contiguous = NoBytes THEN << >> ELSE <<first>>) \o tail
  BY <1>2, Zenon DEF Items, segs, held
<1> HIDE DEF tail
<1>7. CASE b.contiguous = NoBytes
  <2>1. Items(b, dir) = tail
    BY <1>5, <1>6, <1>7, ConcatEmptySeq
  <2> QED BY <1>3, <1>4, <1>5, <2>1 DEF InRow
<1>8. CASE b.contiguous # NoBytes
  <2>1. PICK from \in 0 .. b.next_seq : b.contiguous = Stretch(s, from, b.next_seq)
    BY DEF Kept
  <2>2. from \in Nat /\ from <= b.next_seq
    BY <1>1
  <2>3. Len(b.contiguous) = b.next_seq - from /\ b.contiguous \in Seq(SentBytes)
    <3>1. /\ Stretch(s, from, b.next_seq) \in Seq(SentBytes)
          /\ Len(Stretch(s, from, b.next_seq)) = b.next_seq - from
      BY <1>1, <2>2, StretchType
    <3> QED BY <2>1, <3>1
  <2>4. from # b.next_seq
    BY <1>1, <1>8, <2>1, StretchNone DEF NoBytes
  <2>5. /\ first \in ItemType /\ first.dir = dir /\ first.rel_seq = from
        /\ first.data = b.contiguous /\ EndOfItem(first) = b.next_seq
    <3>1. b.next_seq - Len(b.contiguous) = from
      BY <1>1, <2>2, <2>3
    <3>2. /\ first \in ItemType /\ first.dir = dir /\ first.rel_seq = from
          /\ first.data = b.contiguous
      BY <2>2, <2>3, <3>1 DEF ItemType
    <3> HIDE DEF first
    <3> QED BY <1>1, <2>2, <2>3, <3>2 DEF EndOfItem
  <2> HIDE DEF first
  <2> DEFINE all == <<first>> \o tail
  <2>6. /\ all \in Seq(ItemType) /\ Len(all) = n + 1
        /\ all[1] = first /\ \A k \in 1 .. n : all[k + 1] = tail[k]
    <3>1. <<first>> \in Seq(ItemType) /\ Len(<<first>>) = 1 /\ <<first>>[1] = first
      BY <2>5
    <3>2. /\ all \in Seq(ItemType) /\ Len(all) = 1 + n
          /\ \A k \in 1 .. 1 + n : all[k] = IF k <= 1 THEN <<first>>[k] ELSE tail[k - 1]
      BY <1>5, <3>1, ConcatProperties
    <3> HIDE DEF all
    <3>3. all[1] = first
      BY <1>1, <3>1, <3>2
    <3>4. ASSUME NEW k \in 1 .. n PROVE all[k + 1] = tail[k]
      <4>1. k + 1 \in 1 .. 1 + n /\ ~ (k + 1 <= 1) /\ (k + 1) - 1 = k
        BY <1>1
      <4> QED BY <3>2, <4>1
    <3> QED BY <1>1, <3>2, <3>3, <3>4
  <2>7. Items(b, dir) = all
    BY <1>6, <1>8
  <2> HIDE DEF all
  <2>8. ASSUME NEW k \in 1 .. n + 1
        PROVE  /\ all[k].dir = dir
               /\ all[k].data = Stretch(s, all[k].rel_seq, EndOfItem(all[k]))
               /\ all[k].rel_seq < EndOfItem(all[k])
    <3>1. CASE k = 1
      BY <1>1, <2>1, <2>2, <2>4, <2>5, <2>6, <3>1
    <3>2. CASE k # 1
      <4>1. k - 1 \in 1 .. n /\ (k - 1) + 1 = k
        BY <1>1, <3>2
      <4>2. all[k] = tail[k - 1]
        BY <2>6, <4>1
      <4> QED BY <1>3, <4>1, <4>2
    <3> QED BY <3>1, <3>2
  <2>9. ASSUME NEW k \in 1 .. n + 1, k + 1 <= n + 1
        PROVE  EndOfItem(all[k]) < all[k + 1].rel_seq
    <3>1. k \in 1 .. n /\ all[k + 1] = tail[k]
      BY <1>1, <2>6, <2>9
    <3>2. CASE k = 1
      <4>1. b.next_seq < tail[k].rel_seq
        BY <1>3, <3>1
      <4>2. EndOfItem(all[k]) = b.next_seq
        BY <2>5, <2>6, <3>2
      <4> QED BY <3>1, <4>1, <4>2
    <3>3. CASE k # 1
      <4>1. k - 1 \in 1 .. n /\ (k - 1) + 1 = k /\ (k - 1) + 1 <= n
        <5>1. k \in 1 .. n /\ n \in Nat
          BY <1>1, <3>1
        <5> QED BY <5>1, <3>3
      <4>2. all[k] = tail[k - 1]
        BY <2>6, <4>1
      <4>3. EndOfItem(tail[k - 1]) < tail[(k - 1) + 1].rel_seq
        BY <1>4, <4>1
      <4> QED BY <3>1, <4>1, <4>2, <4>3
    <3> QED BY <3>2, <3>3
  <2> QED BY <2>6, <2>7, <2>8, <2>9 DEF InRow
<1> QED BY <1>7, <1>8

(* What comes later in a row lies behind what comes earlier.               *)
LEMMA RowRises ==
  ASSUME NEW items, NEW dir, NEW s, InRow(items, dir, s)
  PROVE  /\ Len(items) \in Nat
         /\ \A k \in 1 .. Len(items) :
              /\ items[k] \in ItemType
              /\ items[k].rel_seq \in Nat /\ EndOfItem(items[k]) \in Nat
              /\ items[k].rel_seq < EndOfItem(items[k])
         /\ \A j, k \in 1 .. Len(items) :
              j < k => /\ EndOfItem(items[j]) < items[k].rel_seq
                       /\ items[j].rel_seq < items[k].rel_seq
<1> DEFINE n == Len(items)
<1>1. n \in Nat /\ \A k \in 1 .. n : items[k] \in ItemType
  BY LenProperties, ElementOfSeq DEF InRow
<1>2. ASSUME NEW k \in 1 .. n
      PROVE  /\ items[k].rel_seq \in Nat /\ EndOfItem(items[k]) \in Nat
             /\ items[k].rel_seq < EndOfItem(items[k])
  <2>1. items[k].rel_seq \in Nat /\ items[k].data \in Seq(SentBytes)
    BY <1>1 DEF ItemType
  <2>2. Len(items[k].data) \in Nat
    BY <2>1, LenProperties
  <2>3. EndOfItem(items[k]) \in Nat
    BY <2>1, <2>2 DEF EndOfItem
  <2>4. items[k].rel_seq < EndOfItem(items[k])
    BY DEF InRow
  <2> QED BY <2>1, <2>3, <2>4
<1>3. \A k \in 1 .. n : k + 1 <= n => EndOfItem(items[k]) < items[k + 1].rel_seq
  BY DEF InRow
<1> HIDE DEF n
<1> DEFINE T == {d \in 0 .. n : \A j \in 1 .. n :
                   j + d + 1 <= n => EndOfItem(items[j]) < items[j + d + 1].rel_seq}
<1>4. 0 \in T
  <2>1. \A j \in 1 .. n : j + 0 + 1 = j + 1
    BY <1>1
  <2> QED BY <1>1, <1>3, <2>1
<1>5. ASSUME NEW d \in 0 .. n - 1, d \in T PROVE d + 1 \in T
  <2>1. ASSUME NEW j \in 1 .. n, j + (d + 1) + 1 <= n
        PROVE  EndOfItem(items[j]) < items[j + (d + 1) + 1].rel_seq
    <3> DEFINE k == j + d + 1
    <3>1. k \in 1 .. n /\ k + 1 <= n /\ k + 1 = j + (d + 1) + 1 /\ k + 1 \in 1 .. n
      BY <1>1, <2>1
    <3>2. EndOfItem(items[j]) < items[k].rel_seq
      BY <1>5, <3>1
    <3> HIDE DEF k
    <3>3. /\ items[k].rel_seq \in Nat /\ EndOfItem(items[k]) \in Nat
          /\ items[k].rel_seq < EndOfItem(items[k])
          /\ EndOfItem(items[k]) < items[k + 1].rel_seq
      BY <1>2, <1>3, <3>1
    <3>4. EndOfItem(items[j]) \in Nat /\ items[k + 1].rel_seq \in Nat
      BY <1>2, <3>1
    <3>5. EndOfItem(items[j]) < items[k + 1].rel_seq
      BY <3>2, <3>3, <3>4
    <3> QED BY <3>1, <3>5
  <2>2. d + 1 \in 0 .. n
    BY <1>1
  <2> QED BY <2>1, <2>2
<1>6. \A d \in 0 .. n : d \in T
  <2> HIDE DEF T
  <2> QED BY <1>1, <1>4, <1>5, StepByStep
<1>7. ASSUME NEW j \in 1 .. n, NEW k \in 1 .. n, j < k
      PROVE  EndOfItem(items[j]) < items[k].rel_seq
  <2>1. k - j - 1 \in 0 .. n /\ j + (k - j - 1) + 1 = k /\ k <= n
    BY <1>1, <1>7
  <2>2. k - j - 1 \in T
    BY <1>6, <2>1
  <2>3. j + (k - j - 1) + 1 <= n =>
          EndOfItem(items[j]) < items[j + (k - j - 1) + 1].rel_seq
    BY <2>2
  <2> HIDE DEF T
  <2> QED BY <2>1, <2>3
<1>8. ASSUME NEW j \in 1 .. n, NEW k \in 1 .. n, j < k
      PROVE  items[j].rel_seq < items[k].rel_seq
  BY <1>2, <1>7, <1>8
<1> QED BY <1>1, <1>2, <1>7, <1>8 DEF n
-----------------------------------------------------------------------------
(* The order of output as an order of numbers.                             *)
KeyOf(x) == 2 * x.rel_seq + (IF x.dir = "c2s" THEN 0 ELSE 1)

Both(x, y) == x \o y

LEMMA BothAre ==
  ASSUME NEW x, NEW y, InRow(x, "c2s", 1), InRow(y, "s2c", 2)
  PROVE  /\ Len(x) \in Nat /\ Len(y) \in Nat
         /\ Both(x, y) \in Seq(ItemType) /\ Len(Both(x, y)) = Len(x) + Len(y)
         /\ \A i \in 1 .. Len(x) + Len(y) :
              \/ i \in 1 .. Len(x) /\ Both(x, y)[i] = x[i]
              \/ i - Len(x) \in 1 .. Len(y) /\ Both(x, y)[i] = y[i - Len(x)]
         /\ \A i \in 1 .. Len(x) : i \in 1 .. Len(x) + Len(y) /\ Both(x, y)[i] = x[i]
         /\ \A i \in 1 .. Len(y) :
              Len(x) + i \in 1 .. Len(x) + Len(y) /\ Both(x, y)[Len(x) + i] = y[i]
<1> DEFINE a == Len(x)
           b == Len(y)
           z == Both(x, y)
<1>1. x \in Seq(ItemType) /\ y \in Seq(ItemType) /\ a \in Nat /\ b \in Nat
  BY LenProperties DEF InRow
<1>2. /\ z \in Seq(ItemType) /\ Len(z) = a + b
      /\ \A i \in 1 .. a + b : z[i] = IF i <= a THEN x[i] ELSE y[i - a]
  BY <1>1, ConcatProperties DEF Both
<1> HIDE DEF a, b, z
<1>3. ASSUME NEW i \in 1 .. a + b
      PROVE  \/ i \in 1 .. a /\ z[i] = x[i]
             \/ i - a \in 1 .. b /\ z[i] = y[i - a]
  BY <1>1, <1>2
<1>4. ASSUME NEW i \in 1 .. a PROVE i \in 1 .. a + b /\ z[i] = x[i]
  <2>1. i \in 1 .. a + b /\ i <= a
    BY <1>1
  <2> QED BY <1>2, <2>1
<1>5. ASSUME NEW i \in 1 .. b PROVE a + i \in 1 .. a + b /\ z[a + i] = y[i]
  <2>1. a + i \in 1 .. a + b /\ ~ (a + i <= a) /\ (a + i) - a = i
    BY <1>1
  <2> QED BY <1>2, <2>1
<1> QED BY <1>1, <1>2, <1>3, <1>4, <1>5 DEF a, b, z

(* No two items have the same place in the order.                          *)
LEMMA KeysApart ==
  ASSUME NEW x, NEW y, InRow(x, "c2s", 1), InRow(y, "s2c", 2),
         NEW i \in 1 .. Len(x) + Len(y), NEW j \in 1 .. Len(x) + Len(y)
  PROVE  /\ KeyOf(Both(x, y)[i]) \in Nat
         /\ KeyOf(Both(x, y)[i]) = KeyOf(Both(x, y)[j]) => i = j
         /\ Before(Both(x, y)[i], Both(x, y)[j])
              <=> KeyOf(Both(x, y)[i]) < KeyOf(Both(x, y)[j])
<1> DEFINE a == Len(x)
           b == Len(y)
           z == Both(x, y)
           ri == z[i].rel_seq
           rj == z[j].rel_seq
<1>1. /\ a \in Nat /\ b \in Nat
      /\ \/ i \in 1 .. a /\ z[i] = x[i]
         \/ i - a \in 1 .. b /\ z[i] = y[i - a]
      /\ \/ j \in 1 .. a /\ z[j] = x[j]
         \/ j - a \in 1 .. b /\ z[j] = y[j - a]
  BY BothAre
<1>2. /\ \A k \in 1 .. a : x[k].dir = "c2s" /\ x[k].rel_seq \in Nat
      /\ \A k \in 1 .. b : y[k].dir = "s2c" /\ y[k].rel_seq \in Nat
      /\ \A k, l \in 1 .. a : k < l => x[k].rel_seq < x[l].rel_seq
      /\ \A k, l \in 1 .. b : k < l => y[k].rel_seq < y[l].rel_seq
  <2>1. /\ \A k \in 1 .. a : x[k].rel_seq \in Nat
        /\ \A k, l \in 1 .. a : k < l => x[k].rel_seq < x[l].rel_seq
    BY RowRises
  <2>2. /\ \A k \in 1 .. b : y[k].rel_seq \in Nat
        /\ \A k, l \in 1 .. b : k < l => y[k].rel_seq < y[l].rel_seq
    BY RowRises
  <2>3. \A k \in 1 .. a : x[k].dir = "c2s"
    BY DEF InRow
  <2>4. \A k \in 1 .. b : y[k].dir = "s2c"
    BY DEF InRow
  <2> QED BY <2>1, <2>2, <2>3, <2>4
<1> HIDE DEF a, b, z
<1>3. ri \in Nat /\ rj \in Nat
  BY <1>1, <1>2
<1>4. ASSUME z[i].dir = z[j].dir, ri = rj PROVE i = j
  <2>1. CASE i \in 1 .. a /\ z[i] = x[i] /\ j \in 1 .. a /\ z[j] = x[j]
    <3>1. ~ (i < j) /\ ~ (j < i)
      BY <1>2, <1>3, <1>4, <2>1
    <3> QED BY <2>1, <3>1
  <2>2. CASE /\ i - a \in 1 .. b /\ z[i] = y[i - a]
             /\ j - a \in 1 .. b /\ z[j] = y[j - a]
    <3>1. ~ (i - a < j - a) /\ ~ (j - a < i - a)
      BY <1>2, <1>3, <1>4, <2>2
    <3> QED BY <1>1, <2>2, <3>1
  <2>3. CASE i \in 1 .. a /\ z[i] = x[i] /\ j - a \in 1 .. b /\ z[j] = y[j - a]
    <3>1. z[i].dir = "c2s" /\ z[j].dir = "s2c"
      BY <1>2, <2>3
    <3> QED BY <1>4, <3>1
  <2>4. CASE i - a \in 1 .. b /\ z[i] = y[i - a] /\ j \in 1 .. a /\ z[j] = x[j]
    <3>1. z[i].dir = "s2c" /\ z[j].dir = "c2s"
      BY <1>2, <2>4
    <3> QED BY <1>4, <3>1
  <2> QED BY <1>1, <2>1, <2>2, <2>3, <2>4
<1>5. /\ z[i].dir \in {"c2s", "s2c"} /\ z[j].dir \in {"c2s", "s2c"}
  BY <1>1, <1>2
<1>6. KeyOf(z[i]) = KeyOf(z[j]) => z[i].dir = z[j].dir /\ ri = rj
  <2> HIDE DEF ri, rj
  <2>1. /\ KeyOf(z[i]) = 2 * ri + (IF z[i].dir = "c2s" THEN 0 ELSE 1)
        /\ KeyOf(z[j]) = 2 * rj + (IF z[j].dir = "c2s" THEN 0 ELSE 1)
    BY DEF KeyOf, ri, rj
  <2> QED BY <1>3, <1>5, <2>1
<1>7. KeyOf(z[i]) \in Nat
  BY <1>3 DEF KeyOf
<1>8. KeyOf(z[i]) = KeyOf(z[j]) => i = j
  BY <1>4, <1>6
<1>9. Before(z[i], z[j]) <=> KeyOf(z[i]) < KeyOf(z[j])
  <2>1. CASE i = j
    <3>1. ~ Before(z[i], z[i])
      BY <1>3, <1>5 DEF Before
    <3>2. ~ (KeyOf(z[i]) < KeyOf(z[i]))
      BY <1>7
    <3> QED BY <2>1, <3>1, <3>2
  <2>2. CASE i # j
    <3>1. ~ (z[i].dir = z[j].dir /\ ri = rj)
      BY <1>4, <2>2
    <3>2. Before(z[i], z[j]) <=> \/ ri < rj
                                 \/ ri = rj /\ z[i].dir = "c2s" /\ z[j].dir = "s2c"
      BY <3>1 DEF Before
    <3> HIDE DEF ri, rj
    <3>3. /\ KeyOf(z[i]) = 2 * ri + (IF z[i].dir = "c2s" THEN 0 ELSE 1)
          /\ KeyOf(z[j]) = 2 * rj + (IF z[j].dir = "c2s" THEN 0 ELSE 1)
      BY DEF KeyOf, ri, rj
    <3> QED BY <1>3, <1>5, <3>1, <3>2, <3>3
  <2> QED BY <2>1, <2>2
<1> QED BY <1>7, <1>8, <1>9 DEF z, a, b
-----------------------------------------------------------------------------
(* The order of output: every item has one place, and the places follow    *)
(* the keys.                                                               *)
OutputOrder(items) ==
  [k \in DOMAIN items |->
     items[CHOOSE i \in DOMAIN items :
             Cardinality({j \in DOMAIN items : Before(items[j], items[i])}) = k - 1]]

InKeyOrder(z, M, n) ==
  /\ Len(M) = n
  /\ \E place \in [1 .. n -> 1 .. n] :
       /\ \A i, j \in 1 .. n : place[i] < place[j] <=> KeyOf(z[i]) < KeyOf(z[j])
       /\ \A k \in 1 .. n : \E i \in 1 .. n : place[i] = k
       /\ \A i \in 1 .. n : M[place[i]] = z[i]

LEMMA OrderIs ==
  ASSUME NEW x, NEW y, InRow(x, "c2s", 1), InRow(y, "s2c", 2)
  PROVE  InKeyOrder(Both(x, y), OutputOrder(Both(x, y)), Len(x) + Len(y))
<1> DEFINE n     == Len(x) + Len(y)
           z     == Both(x, y)
           key   == [i \in 1 .. n |-> KeyOf(z[i])]
           place == [i \in 1 .. n |-> PlaceOf(key, n, i) + 1]
           Earlier(i) == {j \in DOMAIN z : Before(z[j], z[i])}
           M     == OutputOrder(z)
<1>1. n \in Nat /\ DOMAIN z = 1 .. n
  <2>1. Len(x) \in Nat /\ Len(y) \in Nat /\ z \in Seq(ItemType) /\ Len(z) = Len(x) + Len(y)
    BY BothAre
  <2> HIDE DEF z
  <2> QED BY <2>1
<1>2. ASSUME NEW i \in 1 .. n, NEW j \in 1 .. n
      PROVE  /\ KeyOf(z[i]) \in Nat
             /\ KeyOf(z[i]) = KeyOf(z[j]) => i = j
             /\ Before(z[i], z[j]) <=> KeyOf(z[i]) < KeyOf(z[j])
  <2>1. i \in 1 .. Len(x) + Len(y) /\ j \in 1 .. Len(x) + Len(y)
    OBVIOUS
  <2> QED BY <2>1, KeysApart
<1>3. M = [k \in 1 .. n |-> z[CHOOSE i \in 1 .. n : Cardinality(Earlier(i)) = k - 1]]
  <2> HIDE DEF z
  <2>1. M = [k \in DOMAIN z |-> z[CHOOSE i \in DOMAIN z :
                                    Cardinality(Earlier(i)) = k - 1]]
    BY Zenon DEF OutputOrder
  <2> HIDE DEF M, Earlier
  <2> QED BY <1>1, <2>1
<1> HIDE DEF z
<1>4. key \in [1 .. n -> Nat] /\ \A i, j \in 1 .. n : key[i] = key[j] => i = j
  BY <1>2
<1>5. /\ \A i \in 1 .. n : PlaceOf(key, n, i) + 1 \in 1 .. n
      /\ \A i, j \in 1 .. n : PlaceOf(key, n, i) < PlaceOf(key, n, j) <=> key[i] < key[j]
      /\ \A k \in 1 .. n : \E i \in 1 .. n : PlaceOf(key, n, i) = k - 1
  <2> HIDE DEF key
  <2> QED BY <1>1, <1>4, PlacesByKey
<1>6. ASSUME NEW i \in 1 .. n PROVE Cardinality(Earlier(i)) = PlaceOf(key, n, i)
  <2>1. Earlier(i) = {j \in 1 .. n : Before(z[j], z[i])}
    BY <1>1
  <2>2. \A j \in 1 .. n : Before(z[j], z[i]) <=> key[j] < key[i]
    BY <1>2
  <2> HIDE DEF key, Earlier
  <2>3. Earlier(i) = {j \in 1 .. n : key[j] < key[i]}
    BY <2>1, <2>2
  <2> QED BY <2>3 DEF PlaceOf
<1>7. \A i, j \in 1 .. n : key[i] < key[j] <=> KeyOf(z[i]) < KeyOf(z[j])
  OBVIOUS
<1> HIDE DEF key, Earlier, M
<1>15. ASSUME NEW i \in 1 .. n PROVE PlaceOf(key, n, i) \in Nat
  <2> DEFINE S == {j \in 1 .. n : key[j] < key[i]}
  <2>1. IsFiniteSet(1 .. n) /\ S \subseteq 1 .. n
    BY <1>1, FS_Interval
  <2> HIDE DEF S
  <2>2. Cardinality(S) \in Nat
    BY <2>1, FS_Subset, FS_CardinalityType
  <2> QED BY <2>2 DEF PlaceOf, S
<1>8. ASSUME NEW i \in 1 .. n, NEW j \in 1 .. n, PlaceOf(key, n, i) = PlaceOf(key, n, j)
      PROVE  i = j
  <2>1. key[i] \in Nat /\ key[j] \in Nat
    BY <1>4
  <2>2. PlaceOf(key, n, i) \in Nat /\ PlaceOf(key, n, j) \in Nat
    BY <1>15
  <2>3. ~ (key[i] < key[j]) /\ ~ (key[j] < key[i])
    BY <1>5, <1>8, <2>2
  <2>4. key[i] = key[j]
    BY <2>1, <2>3
  <2> QED BY <1>4, <2>4
<1>9. ASSUME NEW i \in 1 .. n
      PROVE  place[i] \in 1 .. n /\ place[i] = PlaceOf(key, n, i) + 1
  BY <1>5
<1> HIDE DEF place
<1>10. ASSUME NEW i \in 1 .. n PROVE PlaceOf(key, n, i) = place[i] - 1
  <2>1. PlaceOf(key, n, i) \in Nat /\ place[i] = PlaceOf(key, n, i) + 1
    BY <1>9, <1>15
  <2> QED BY <2>1
<1>11. ASSUME NEW i \in 1 .. n PROVE M[place[i]] = z[i]
  <2> DEFINE c == CHOOSE j \in 1 .. n : Cardinality(Earlier(j)) = place[i] - 1
  <2>1. Cardinality(Earlier(i)) = place[i] - 1
    BY <1>6, <1>10
  <2>2. c \in 1 .. n /\ Cardinality(Earlier(c)) = place[i] - 1
    BY <2>1
  <2>3. M[place[i]] = z[c]
    BY <1>3, <1>9
  <2> HIDE DEF c
  <2>4. c = i
    BY <1>6, <1>8, <2>1, <2>2
  <2> QED BY <2>3, <2>4
<1>12. \A i, j \in 1 .. n : place[i] < place[j] <=> KeyOf(z[i]) < KeyOf(z[j])
  <2> SUFFICES ASSUME NEW i \in 1 .. n, NEW j \in 1 .. n
               PROVE  place[i] < place[j] <=> KeyOf(z[i]) < KeyOf(z[j])
    OBVIOUS
  <2>1. PlaceOf(key, n, i) < PlaceOf(key, n, j) <=> KeyOf(z[i]) < KeyOf(z[j])
    BY <1>5, <1>7
  <2>2. PlaceOf(key, n, i) = place[i] - 1 /\ PlaceOf(key, n, j) = place[j] - 1
    BY <1>10
  <2>3. place[i] \in Int /\ place[j] \in Int
    BY <1>9
  <2> QED BY <2>1, <2>2, <2>3
<1>13. ASSUME NEW k \in 1 .. n PROVE \E i \in 1 .. n : place[i] = k
  <2>1. PICK i \in 1 .. n : PlaceOf(key, n, i) = k - 1
    BY <1>5
  <2>2. place[i] = k
    BY <1>9, <2>1
  <2> QED BY <2>2
<1>14. place \in [1 .. n -> 1 .. n]
  BY <1>9 DEF place
<1>16. Len(M) = n
  BY <1>1, <1>3
<1>17. InKeyOrder(z, M, n)
  <2> HIDE DEF n
  <2> QED BY <1>11, <1>12, <1>13, <1>14, <1>16 DEF InKeyOrder
<1> QED BY <1>17 DEF M, z

(* Where the items of one direction stand in the output: in their order.   *)
Placed(items, M, at) ==
  /\ at \in [1 .. Len(items) -> 1 .. Len(M)]
  /\ \A k \in 1 .. Len(items) : M[at[k]] = items[k]
  /\ \A j, k \in 1 .. Len(items) : j < k => at[j] < at[k]

LEMMA MergedAre ==
  ASSUME NEW x, NEW y, InRow(x, "c2s", 1), InRow(y, "s2c", 2),
         NEW M, M = OutputOrder(Both(x, y))
  PROVE  /\ Len(M) = Len(x) + Len(y) /\ Len(M) \in Nat
         /\ \E atx, aty : /\ Placed(x, M, atx) /\ Placed(y, M, aty)
                          /\ \A i \in 1 .. Len(M) :
                               \/ \E k \in 1 .. Len(x) : atx[k] = i
                               \/ \E k \in 1 .. Len(y) : aty[k] = i
<1> DEFINE a == Len(x)
           b == Len(y)
           n == a + b
           z == Both(x, y)
<1>1. /\ a \in Nat /\ b \in Nat /\ n \in Nat
      /\ \A i \in 1 .. n : \/ i \in 1 .. a /\ z[i] = x[i]
                           \/ i - a \in 1 .. b /\ z[i] = y[i - a]
      /\ \A i \in 1 .. a : i \in 1 .. n /\ z[i] = x[i]
      /\ \A i \in 1 .. b : a + i \in 1 .. n /\ z[a + i] = y[i]
  <2>1. a \in Nat /\ b \in Nat
    BY BothAre
  <2> QED BY <2>1, BothAre
<1>2. /\ Len(M) = n
      /\ \E place \in [1 .. n -> 1 .. n] :
           /\ \A i, j \in 1 .. n : place[i] < place[j] <=> KeyOf(z[i]) < KeyOf(z[j])
           /\ \A k \in 1 .. n : \E i \in 1 .. n : place[i] = k
           /\ \A i \in 1 .. n : M[place[i]] = z[i]
  <2>1. InKeyOrder(z, M, n)
    BY OrderIs
  <2> HIDE DEF n, z
  <2> QED BY <2>1 DEF InKeyOrder
<1>3. PICK place \in [1 .. n -> 1 .. n] :
        /\ \A i, j \in 1 .. n : place[i] < place[j] <=> KeyOf(z[i]) < KeyOf(z[j])
        /\ \A k \in 1 .. n : \E i \in 1 .. n : place[i] = k
        /\ \A i \in 1 .. n : M[place[i]] = z[i]
  BY <1>2
<1>4. /\ \A k \in 1 .. a : x[k].dir = "c2s" /\ x[k].rel_seq \in Nat
      /\ \A j, k \in 1 .. a : j < k => x[j].rel_seq < x[k].rel_seq
  <2>1. /\ \A k \in 1 .. a : x[k].rel_seq \in Nat
        /\ \A j, k \in 1 .. a : j < k => x[j].rel_seq < x[k].rel_seq
    BY RowRises
  <2>2. \A k \in 1 .. a : x[k].dir = "c2s"
    BY DEF InRow
  <2> QED BY <2>1, <2>2
<1>5. /\ \A k \in 1 .. b : y[k].dir = "s2c" /\ y[k].rel_seq \in Nat
      /\ \A j, k \in 1 .. b : j < k => y[j].rel_seq < y[k].rel_seq
  <2>1. /\ \A k \in 1 .. b : y[k].rel_seq \in Nat
        /\ \A j, k \in 1 .. b : j < k => y[j].rel_seq < y[k].rel_seq
    BY RowRises
  <2>2. \A k \in 1 .. b : y[k].dir = "s2c"
    BY DEF InRow
  <2> QED BY <2>1, <2>2
<1> HIDE DEF z
<1>6. ASSUME NEW j \in 1 .. a, NEW k \in 1 .. a, j < k PROVE KeyOf(x[j]) < KeyOf(x[k])
  <2>1. KeyOf(x[j]) = 2 * x[j].rel_seq + 0 /\ KeyOf(x[k]) = 2 * x[k].rel_seq + 0
    BY <1>4 DEF KeyOf
  <2>2. /\ x[j].rel_seq \in Nat /\ x[k].rel_seq \in Nat
        /\ x[j].rel_seq < x[k].rel_seq
    BY <1>4, <1>6
  <2> QED BY <2>1, <2>2
<1>7. ASSUME NEW j \in 1 .. b, NEW k \in 1 .. b, j < k PROVE KeyOf(y[j]) < KeyOf(y[k])
  <2>1. KeyOf(y[j]) = 2 * y[j].rel_seq + 1 /\ KeyOf(y[k]) = 2 * y[k].rel_seq + 1
    BY <1>5 DEF KeyOf
  <2>2. /\ y[j].rel_seq \in Nat /\ y[k].rel_seq \in Nat
        /\ y[j].rel_seq < y[k].rel_seq
    BY <1>5, <1>7
  <2> QED BY <2>1, <2>2
<1> HIDE DEF a, b, n
<1> DEFINE atx == [k \in 1 .. a |-> place[k]]
           aty == [k \in 1 .. b |-> place[a + k]]
<1>8. \A k \in 1 .. a : atx[k] = place[k] /\ atx[k] \in 1 .. n
  BY <1>1
<1>9. \A k \in 1 .. b : aty[k] = place[a + k] /\ aty[k] \in 1 .. n
  BY <1>1
<1>10. atx \in [1 .. a -> 1 .. n] /\ aty \in [1 .. b -> 1 .. n]
  BY <1>8, <1>9
<1> HIDE DEF atx, aty
<1>11. Placed(x, M, atx)
  <2>1. \A k \in 1 .. a : M[atx[k]] = x[k]
    BY <1>1, <1>3, <1>8
  <2>2. ASSUME NEW j \in 1 .. a, NEW k \in 1 .. a, j < k PROVE atx[j] < atx[k]
    <3>1. KeyOf(z[j]) < KeyOf(z[k]) /\ j \in 1 .. n /\ k \in 1 .. n
      BY <1>1, <1>6, <2>2
    <3>2. place[j] < place[k]
      BY <1>3, <3>1
    <3> QED BY <1>8, <3>2
  <2> QED BY <1>2, <1>10, <2>1, <2>2 DEF Placed, a
<1>12. Placed(y, M, aty)
  <2>1. ASSUME NEW k \in 1 .. b PROVE M[aty[k]] = y[k]
    <3> DEFINE i == a + k
    <3>1. i \in 1 .. n /\ z[i] = y[k] /\ aty[k] = place[i]
      BY <1>1, <1>9
    <3> HIDE DEF i
    <3> QED BY <1>3, <3>1
  <2>2. ASSUME NEW j \in 1 .. b, NEW k \in 1 .. b, j < k PROVE aty[j] < aty[k]
    <3> DEFINE u == a + j
               v == a + k
    <3>1. u \in 1 .. n /\ v \in 1 .. n /\ z[u] = y[j] /\ z[v] = y[k]
      BY <1>1
    <3>2. aty[j] = place[u] /\ aty[k] = place[v]
      BY <1>9
    <3> HIDE DEF u, v
    <3>3. KeyOf(z[u]) < KeyOf(z[v])
      BY <1>7, <2>2, <3>1
    <3> QED BY <1>3, <3>1, <3>2, <3>3
  <2> QED BY <1>2, <1>10, <2>1, <2>2 DEF Placed, b
<1>13. ASSUME NEW i \in 1 .. n
       PROVE  (\E k \in 1 .. a : atx[k] = i) \/ (\E k \in 1 .. b : aty[k] = i)
  <2>1. PICK j \in 1 .. n : place[j] = i
    BY <1>3
  <2>2. CASE j \in 1 .. a
    <3>1. atx[j] = i
      BY <1>8, <2>1, <2>2
    <3> QED BY <2>2, <3>1
  <2>3. CASE j - a \in 1 .. b
    <3>1. a + (j - a) = j
      BY <1>1
    <3>2. aty[j - a] = i
      BY <1>9, <2>1, <2>3, <3>1
    <3> QED BY <2>3, <3>2
  <2> QED BY <1>1, <2>2, <2>3
<1>14. Len(M) = n /\ n \in Nat /\ n = Len(x) + Len(y)
  BY <1>1, <1>2 DEF a, b, n
<1>15. \A i \in 1 .. Len(M) : \/ \E k \in 1 .. Len(x) : atx[k] = i
                              \/ \E k \in 1 .. Len(y) : aty[k] = i
  BY <1>13, <1>14 DEF a, b
<1> QED BY <1>11, <1>12, <1>14, <1>15
-----------------------------------------------------------------------------
(* The rounds of the output loop, one state after the other.               *)
LoopStart == [out |-> NoBytes, pos |-> [dir \in Directions |-> None]]

Rounds(M, fill, f, n) ==
  f = [i \in 0 .. n |-> IF i = 0 THEN LoopStart ELSE MergeItem(f[i - 1], M[i], fill)]

LEMMA RoundsExist ==
  ASSUME NEW M, NEW fill, NEW n \in Nat
  PROVE  \E f : Rounds(M, fill, f, n)
<1> DEFINE T == {i \in Nat : \E f : Rounds(M, fill, f, i)}
<1>1. 0 \in T
  <2> DEFINE f == [i \in 0 .. 0 |-> LoopStart]
             g == [i \in 0 .. 0 |-> IF i = 0 THEN LoopStart
                                    ELSE MergeItem(f[i - 1], M[i], fill)]
  <2>1. f = g
    OBVIOUS
  <2>2. Rounds(M, fill, f, 0)
    BY <2>1, Zenon DEF Rounds
  <2> QED BY <2>2
<1>2. ASSUME NEW m \in 0 .. n - 1, m \in T PROVE m + 1 \in T
  <2>1. PICK f : Rounds(M, fill, f, m)
    BY <1>2
  <2> DEFINE Round(h, i) == IF i = 0 THEN LoopStart ELSE MergeItem(h[i - 1], M[i], fill)
             g == [i \in 0 .. m + 1 |-> Round(f, i)]
             h == [i \in 0 .. m + 1 |-> Round(g, i)]
  <2>2. \A i \in 0 .. m : g[i] = f[i]
    <3> SUFFICES ASSUME NEW i \in 0 .. m PROVE g[i] = f[i]
      OBVIOUS
    <3>1. i \in 0 .. m + 1
      OBVIOUS
    <3>2. f = [j \in 0 .. m |-> Round(f, j)]
      BY <2>1 DEF Rounds
    <3> HIDE DEF Round
    <3>3. g[i] = Round(f, i)
      BY <3>1
    <3>4. f[i] = Round(f, i)
      BY <3>2
    <3> QED BY <3>3, <3>4
  <2>3. ASSUME NEW i \in 0 .. m + 1 PROVE Round(g, i) = Round(f, i)
    <3> HIDE DEF g
    <3>1. CASE i = 0
      BY <3>1
    <3>2. CASE i # 0
      <4>1. i - 1 \in 0 .. m
        BY <3>2
      <4>2. g[i - 1] = f[i - 1]
        BY <4>1, <2>2
      <4> QED BY <4>2
    <3> QED BY <3>1, <3>2
  <2>4. g = h
    <3> HIDE DEF Round
    <3>1. \A i \in 0 .. m + 1 : Round(f, i) = Round(g, i)
      BY <2>3
    <3> QED BY <3>1
  <2>5. Rounds(M, fill, g, m + 1)
    <3> HIDE DEF g
    <3> QED BY <2>4 DEF Rounds
  <2>6. m + 1 \in Nat
    OBVIOUS
  <2> QED BY <2>5, <2>6
<1>3. \A i \in 0 .. n : i \in T
  <2> HIDE DEF T
  <2> QED BY <1>1, <1>2, StepByStep
<1> QED BY <1>3

LEMMA MergedDataIs ==
  ASSUME NEW c, NEW fill, NEW n \in Nat, n = Len(MergedItems(c))
  PROVE  \E f : Rounds(MergedItems(c), fill, f, n) /\ MergedData(c, fill) = f[n].out
<1> DEFINE M == MergedItems(c)
           f == CHOOSE h : Rounds(M, fill, h, n)
<1>1. Rounds(M, fill, f, n)
  <2> HIDE DEF M
  <2> QED BY RoundsExist
<1>2. MergedData(c, fill) = f[n].out
  BY DEF MergedData, Rounds, LoopStart
<1> QED BY <1>1, <1>2
-----------------------------------------------------------------------------
(* One round puts out the zeros of a gap and then the item, or nothing.    *)
LoopStates == [out : Seq(AnyByte), pos : [Directions -> Nat \cup {None}]]

GapTo(p, item) == IF p = None THEN 0 ELSE item.rel_seq - p

LEMMA RoundTaken ==
  ASSUME NEW st \in LoopStates, NEW item \in ItemType, NEW fill \in BOOLEAN,
         st.pos[item.dir] = None \/ (fill /\ st.pos[item.dir] < item.rel_seq)
  PROVE  MergeItem(st, item, fill) =
           [out |-> (st.out \o Zeros(GapTo(st.pos[item.dir], item))) \o item.data,
            pos |-> [st.pos EXCEPT ![item.dir] = EndOfItem(item)]]
<1> DEFINE p       == st.pos[item.dir]
           gap     == IF p # None /\ item.rel_seq > p THEN item.rel_seq - p ELSE 0
           overlap == IF p # None /\ p > item.rel_seq THEN p - item.rel_seq ELSE 0
           end     == item.rel_seq + Len(item.data)
<1>1. /\ item.rel_seq \in Nat /\ item.data \in Seq(SentBytes) /\ item.dir \in Directions
      /\ p \in Nat \cup {None}
  BY DEF ItemType, LoopStates
<1>2. Len(item.data) \in Nat /\ end \in Nat /\ item.rel_seq <= end
  BY <1>1, LenProperties
<1>3. MergeItem(st, item, fill) =
        IF gap > 0 /\ ~ fill THEN st
        ELSE [out |-> (st.out \o Zeros(gap)) \o SubSeq(item.data, overlap + 1, Len(item.data)),
              pos |-> [st.pos EXCEPT ![item.dir] = IF p # None /\ p > end THEN p ELSE end]]
  BY DEF MergeItem
<1>4. p = None \/ (fill /\ p \in Nat /\ p < item.rel_seq)
  BY <1>1
<1> HIDE DEF p
<1>5. /\ gap = GapTo(p, item) /\ overlap = 0
      /\ ~ (p # None /\ p > end) /\ ~ (gap > 0 /\ ~ fill)
  <2> HIDE DEF end
  <2>1. None = -1
    BY DEF None
  <2>2. CASE p = None
    BY <2>2 DEF GapTo
  <2>3. CASE fill /\ p \in Nat /\ p < item.rel_seq
    <3>1. p # None /\ item.rel_seq > p /\ ~ (p > item.rel_seq) /\ ~ (p > end)
      BY <1>1, <1>2, <2>1, <2>3
    <3> QED BY <2>3, <3>1 DEF GapTo
  <2> QED BY <1>4, <2>2, <2>3
<1>6. SubSeq(item.data, overlap + 1, Len(item.data)) = item.data
  <2>1. overlap + 1 = 1
    BY <1>5
  <2>2. SubSeq(item.data, 1, Len(item.data)) = item.data
    BY <1>1, SubSeqFull
  <2> QED BY <2>1, <2>2
<1>7. (IF p # None /\ p > end THEN p ELSE end) = end
  BY <1>5
<1>8. end = EndOfItem(item)
  BY DEF EndOfItem
<1> HIDE DEF gap, overlap, end
<1>9. MergeItem(st, item, fill) =
        [out |-> (st.out \o Zeros(gap)) \o item.data,
         pos |-> [st.pos EXCEPT ![item.dir] = end]]
  BY <1>3, <1>5, <1>6, <1>7, Zenon
<1> QED BY <1>5, <1>8, <1>9, Zenon DEF p

LEMMA RoundSkipped ==
  ASSUME NEW st \in LoopStates, NEW item \in ItemType,
         st.pos[item.dir] # None, st.pos[item.dir] < item.rel_seq
  PROVE  MergeItem(st, item, FALSE) = st
<1> DEFINE p       == st.pos[item.dir]
           gap     == IF p # None /\ item.rel_seq > p THEN item.rel_seq - p ELSE 0
<1>1. /\ item.rel_seq \in Nat /\ p \in Nat \cup {None}
  BY DEF ItemType, LoopStates
<1>2. gap > 0
  BY <1>1
<1>3. gap > 0 => MergeItem(st, item, FALSE) = st
  BY DEF MergeItem
<1> QED BY <1>2, <1>3

(* What that adds of each sender.                                          *)
Longer(out, gap, s, a, e) == (out \o Zeros(gap)) \o Stretch(s, a, e)

Grown(out, new, gap, s, a, e) ==
  /\ new \in Seq(AnyByte)
  /\ Len(new) = Len(out) + gap + (e - a)
  /\ Of(new, s) = Of(out, s) \o Stretch(s, a, e)
  /\ \A r \in Senders \ {s} : Of(new, r) = Of(out, r)

LEMMA OutputGrows ==
  ASSUME NEW out \in Seq(AnyByte), NEW gap \in Nat, NEW s \in Senders,
         NEW a \in Nat, NEW e \in Nat, a <= e
  PROVE  Grown(out, Longer(out, gap, s, a, e), gap, s, a, e)
<1> DEFINE z == Zeros(gap)
           d == Stretch(s, a, e)
           m == out \o z
<1>1. z \in Seq(AnyByte) /\ Len(z) = gap /\ \A i \in 1 .. gap : z[i] = Zero
  BY DEF Zeros, AnyByte
<1>2. /\ d \in Seq(SentBytes) /\ Len(d) = e - a
      /\ \A i \in 1 .. e - a : d[i] = <<s, a + i - 1>>
  BY StretchType
<1>3. d \in Seq(AnyByte)
  <2>1. SentBytes \subseteq AnyByte
    BY DEF AnyByte
  <2> HIDE DEF d
  <2> QED BY <1>2, <2>1
<1> HIDE DEF z, d
<1>4. Len(out) \in Nat
  BY LenProperties
<1>5. m \in Seq(AnyByte) /\ Len(m) = Len(out) + gap
  BY <1>1, ConcatProperties
<1> HIDE DEF m
<1>6. m \o d \in Seq(AnyByte) /\ Len(m \o d) = Len(out) + gap + (e - a)
  <2>1. m \o d \in Seq(AnyByte) /\ Len(m \o d) = Len(m) + Len(d)
    BY <1>3, <1>5, ConcatProperties
  <2> QED BY <1>2, <1>5, <2>1
<1>7. ASSUME NEW r \in Senders
      PROVE  /\ Of(m, r) = Of(out, r) /\ Of(m \o d, r) = Of(out, r) \o Of(d, r)
             /\ Of(out, r) \in Seq(AnyByte)
  <2>1. Of(z, r) = << >>
    BY <1>1, OfOthers
  <2>2. /\ Of(out, r) \in Seq(AnyByte)
        /\ Of(m, r) = Of(out, r) \o Of(z, r)
    BY <1>1, OfConcat DEF m
  <2>3. Of(m, r) = Of(out, r)
    BY <2>1, <2>2, ConcatEmptySeq
  <2>4. Of(m \o d, r) = Of(m, r) \o Of(d, r)
    BY <1>3, <1>5, OfConcat
  <2> QED BY <2>2, <2>3, <2>4
<1>8. Of(d, s) = d
  BY OfOwn DEF d
<1>9. ASSUME NEW r \in Senders \ {s} PROVE Of(m \o d, r) = Of(out, r)
  <2>1. \A i \in 1 .. Len(d) : d[i] = Zero \/ d[i][1] # r
    BY <1>2
  <2>2. Of(d, r) = << >>
    BY <1>3, <2>1, OfOthers
  <2> QED BY <1>7, <2>2, ConcatEmptySeq
<1>10. Longer(out, gap, s, a, e) = m \o d
  BY DEF Longer, m, z, d
<1> HIDE DEF m
<1>11. Of(m \o d, s) = Of(out, s) \o d
  BY <1>7, <1>8
<1>12. d = Stretch(s, a, e)
  BY DEF d
<1> QED BY <1>6, <1>9, <1>10, <1>11, <1>12, Zenon DEF Grown
-----------------------------------------------------------------------------
(* How far the loop is with one direction after i rounds: it has passed    *)
(* the first c of the direction's items and said said[c] of them.          *)
Told(items, fill, said) ==
  /\ said \in [0 .. Len(items) -> Seq(SentBytes)]
  /\ said[0] = << >>
  /\ \A k \in 1 .. Len(items) :
       said[k] = IF k = 1 \/ fill THEN said[k - 1] \o items[k].data ELSE said[k - 1]

PosAt(items, c, fill) ==
  IF c = 0 THEN None ELSE EndOfItem(items[IF fill THEN c ELSE 1])

Passed(items, at, i, c) == \A k \in 1 .. Len(items) : at[k] <= i <=> k <= c

InStep(st, dir, s, items, at, i, fill, said) ==
  \E c \in 0 .. Len(items) :
    /\ Passed(items, at, i, c)
    /\ st.pos[dir] = PosAt(items, c, fill)
    /\ Of(st.out, s) = said[c]

Reach(p, items) == IF p = None THEN 0 ELSE p - items[1].rel_seq

(* Every round passes the next item of one direction ...                   *)
LEMMA PassOwn ==
  ASSUME NEW items, NEW M, NEW at, Len(items) \in Nat, Len(M) \in Nat,
         Placed(items, M, at),
         NEW i \in 0 .. Len(M) - 1, NEW k \in 1 .. Len(items), at[k] = i + 1,
         NEW c \in 0 .. Len(items), Passed(items, at, i, c)
  PROVE  k = c + 1 /\ Passed(items, at, i + 1, c + 1)
<1> DEFINE n == Len(items)
<1>1. /\ \A j \in 1 .. n : at[j] \in Nat
      /\ \A j, l \in 1 .. n : j < l => at[j] < at[l]
      /\ \A j \in 1 .. n : at[j] <= i <=> j <= c
      /\ n \in Nat
  <2>1. /\ at \in [1 .. n -> 1 .. Len(M)]
        /\ \A j, l \in 1 .. n : j < l => at[j] < at[l]
    BY DEF Placed
  <2>2. \A j \in 1 .. n : at[j] <= i <=> j <= c
    BY DEF Passed
  <2> HIDE DEF n
  <2>3. \A j \in 1 .. n : at[j] \in Nat
    BY <2>1
  <2> QED BY <2>1, <2>2, <2>3 DEF n
<1> HIDE DEF n
<1>2. ~ (k <= c)
  BY <1>1 DEF n
<1>3. ~ (c + 1 < k)
  <2> SUFFICES ASSUME c + 1 < k PROVE FALSE
    OBVIOUS
  <2> DEFINE j == c + 1
  <2>1. j \in 1 .. n /\ j < k /\ ~ (j <= c) /\ k \in 1 .. n
    BY <1>1 DEF n
  <2> HIDE DEF j
  <2>2. at[j] < at[k] /\ at[j] \in Nat /\ at[k] \in Nat
    BY <1>1, <2>1
  <2>3. at[j] <= i
    BY <2>2
  <2> QED BY <1>1, <2>1, <2>3
<1>4. k = c + 1
  BY <1>1, <1>2, <1>3 DEF n
<1>5. ASSUME NEW j \in 1 .. n PROVE at[j] <= i + 1 <=> j <= c + 1
  <2>1. at[j] \in Nat /\ at[k] \in Nat /\ k \in 1 .. n
    BY <1>1 DEF n
  <2>2. CASE j <= c
    BY <1>1, <2>1, <2>2
  <2>3. CASE j = k
    BY <1>4, <2>1, <2>3
  <2>4. CASE k < j
    <3>1. at[k] < at[j]
      BY <1>1, <2>1, <2>4
    <3> QED BY <1>4, <2>1, <2>4, <3>1
  <2> QED BY <1>4, <2>2, <2>3, <2>4
<1> QED BY <1>4, <1>5 DEF Passed, n

(* ... and none of the other.                                              *)
LEMMA PassOther ==
  ASSUME NEW items, NEW M, NEW at, Len(items) \in Nat, Len(M) \in Nat,
         Placed(items, M, at), NEW i \in 0 .. Len(M) - 1,
         \A k \in 1 .. Len(items) : at[k] # i + 1,
         NEW c \in 0 .. Len(items), Passed(items, at, i, c)
  PROVE  Passed(items, at, i + 1, c)
<1>1. ASSUME NEW k \in 1 .. Len(items) PROVE at[k] <= i + 1 <=> k <= c
  <2>1. at[k] \in Nat /\ at[k] # i + 1 /\ (at[k] <= i <=> k <= c)
    BY DEF Placed, Passed
  <2> QED BY <2>1
<1> QED BY <1>1 DEF Passed

LEMMA OtherRound ==
  ASSUME NEW items, NEW M, NEW at, Len(items) \in Nat, Len(M) \in Nat,
         Placed(items, M, at), NEW i \in 0 .. Len(M) - 1,
         \A k \in 1 .. Len(items) : at[k] # i + 1,
         NEW st, NEW new, NEW dir, NEW s, NEW fill \in BOOLEAN, NEW said,
         InStep(st, dir, s, items, at, i, fill, said),
         new.pos[dir] = st.pos[dir], Of(new.out, s) = Of(st.out, s)
  PROVE  InStep(new, dir, s, items, at, i + 1, fill, said)
<1>1. PICK c \in 0 .. Len(items) : /\ Passed(items, at, i, c)
                                   /\ st.pos[dir] = PosAt(items, c, fill)
                                   /\ Of(st.out, s) = said[c]
  BY DEF InStep
<1>2. Passed(items, at, i + 1, c)
  BY <1>1, PassOther
<1> QED BY <1>1, <1>2 DEF InStep

(* What a round does of its item's own direction, and leaves of the other. *)
Advanced(st, new, dir, s, items) ==
  /\ \A d \in Directions \ {dir} : new.pos[d] = st.pos[d]
  /\ \A r \in Senders \ {s} : Of(new.out, r) = Of(st.out, r)
  /\ Len(new.out) = Len(st.out) + (Reach(new.pos[dir], items) - Reach(st.pos[dir], items))

LEMMA OwnRound ==
  ASSUME NEW items, NEW M, NEW at, Len(M) \in Nat,
         NEW dir \in Directions, NEW s \in Senders,
         InRow(items, dir, s), Placed(items, M, at),
         NEW i \in 0 .. Len(M) - 1, NEW k \in 1 .. Len(items), at[k] = i + 1,
         NEW st \in LoopStates, NEW fill \in BOOLEAN, NEW said, Told(items, fill, said),
         InStep(st, dir, s, items, at, i, fill, said)
  PROVE  /\ MergeItem(st, items[k], fill) \in LoopStates
         /\ InStep(MergeItem(st, items[k], fill), dir, s, items, at, i + 1, fill, said)
         /\ Advanced(st, MergeItem(st, items[k], fill), dir, s, items)
<1> DEFINE item == items[k]
           new  == MergeItem(st, item, fill)
           p    == st.pos[dir]
<1>1. PICK c \in 0 .. Len(items) : /\ Passed(items, at, i, c)
                                   /\ p = PosAt(items, c, fill)
                                   /\ Of(st.out, s) = said[c]
  BY DEF InStep
<1>2. /\ Len(items) \in Nat
      /\ \A j \in 1 .. Len(items) :
           /\ items[j] \in ItemType
           /\ items[j].rel_seq \in Nat /\ EndOfItem(items[j]) \in Nat
           /\ items[j].rel_seq < EndOfItem(items[j])
      /\ \A j, l \in 1 .. Len(items) :
           j < l => /\ EndOfItem(items[j]) < items[l].rel_seq
                    /\ items[j].rel_seq < items[l].rel_seq
  BY RowRises
<1>3. k = c + 1 /\ Passed(items, at, i + 1, k)
  <2>1. k = c + 1 /\ Passed(items, at, i + 1, c + 1)
    BY <1>1, <1>2, PassOwn
  <2> QED BY <2>1
<1>4. /\ item \in ItemType /\ item.dir = dir
      /\ item.data = Stretch(s, item.rel_seq, EndOfItem(item))
      /\ item.rel_seq \in Nat /\ EndOfItem(item) \in Nat
      /\ item.rel_seq < EndOfItem(item)
  BY <1>2 DEF InRow
<1>5. c = 0 => p = None /\ k = 1
  BY <1>1, <1>3 DEF PosAt
<1>6. c # 0 => /\ p \in Nat /\ p # None /\ p < item.rel_seq
               /\ items[1].rel_seq \in Nat
  <2> SUFFICES ASSUME c # 0 PROVE /\ p \in Nat /\ p # None /\ p < item.rel_seq
                                  /\ items[1].rel_seq \in Nat
    OBVIOUS
  <2> DEFINE j == IF fill THEN c ELSE 1
  <2>1. j \in 1 .. Len(items) /\ j < k /\ 1 \in 1 .. Len(items)
    BY <1>2, <1>3
  <2>2. p = EndOfItem(items[j])
    BY <1>1 DEF PosAt
  <2> HIDE DEF j
  <2>3. p \in Nat /\ p < item.rel_seq
    <3>1. EndOfItem(items[j]) \in Nat /\ EndOfItem(items[j]) < items[k].rel_seq
      BY <1>2, <2>1
    <3> QED BY <2>2, <3>1
  <2>4. None \notin Nat
    BY DEF None
  <2> HIDE DEF p
  <2> QED BY <1>2, <2>1, <2>3, <2>4
<1>7. /\ st.out \in Seq(AnyByte) /\ Len(st.out) \in Nat
      /\ st.pos \in [Directions -> Nat \cup {None}]
  <2>1. st.out \in Seq(AnyByte)
    BY DEF LoopStates
  <2> QED BY <2>1, LenProperties DEF LoopStates
<1>8. said[k] = IF k = 1 \/ fill THEN said[c] \o item.data ELSE said[c]
  <2>1. k - 1 = c
    BY <1>2, <1>3
  <2>2. said[k] = IF k = 1 \/ fill THEN said[k - 1] \o items[k].data ELSE said[k - 1]
    BY DEF Told
  <2> QED BY <2>1, <2>2
<1>9. CASE c = 0 \/ fill
  <2> DEFINE gap  == GapTo(p, item)
             text == Longer(st.out, gap, s, item.rel_seq, EndOfItem(item))
  <2>1. new = [out |-> (st.out \o Zeros(gap)) \o item.data,
               pos |-> [st.pos EXCEPT ![dir] = EndOfItem(item)]]
    <3>1. st.pos[item.dir] = None \/ (fill /\ st.pos[item.dir] < item.rel_seq)
      BY <1>4, <1>5, <1>6, <1>9
    <3>2. new = [out |-> (st.out \o Zeros(GapTo(st.pos[item.dir], item))) \o item.data,
                 pos |-> [st.pos EXCEPT ![item.dir] = EndOfItem(item)]]
      <4> HIDE DEF item
      <4> QED BY <1>4, <3>1, RoundTaken
    <3> QED BY <1>4, <3>2
  <2>2. new.out = text
    <3> HIDE DEF gap, item, new
    <3>1. new.out = (st.out \o Zeros(gap)) \o item.data
      BY <2>1
    <3> QED BY <1>4, <3>1 DEF Longer
  <2>3. /\ new.pos = [st.pos EXCEPT ![dir] = EndOfItem(item)]
        /\ DOMAIN new = {"out", "pos"}
        /\ new = [out |-> new.out, pos |-> new.pos]
    <3> HIDE DEF gap, item, new
    <3> QED BY <2>1
  <2>4. gap \in Nat
    <3> HIDE DEF p, item
    <3> QED BY <1>4, <1>5, <1>6 DEF GapTo
  <2> HIDE DEF gap, item, new
  <2>5. /\ text \in Seq(AnyByte)
        /\ Len(text) = Len(st.out) + gap + (EndOfItem(item) - item.rel_seq)
        /\ Of(text, s) = Of(st.out, s) \o Stretch(s, item.rel_seq, EndOfItem(item))
        /\ \A r \in Senders \ {s} : Of(text, r) = Of(st.out, r)
    <3> DEFINE q == item.rel_seq
               e == EndOfItem(item)
               o == st.out
    <3>1. q <= e /\ q \in Nat /\ e \in Nat /\ o \in Seq(AnyByte)
      BY <1>4, <1>7
    <3> HIDE DEF q, e, o
    <3>2. Grown(o, Longer(o, gap, s, q, e), gap, s, q, e)
      BY <2>4, <3>1, OutputGrows
    <3> QED BY <3>2, Zenon DEF Grown, q, e, o
  <2> HIDE DEF text
  <2>6. new \in LoopStates
    <3>1. new.pos \in [Directions -> Nat \cup {None}]
      BY <1>4, <1>7, <2>3
    <3>2. new.out \in Seq(AnyByte)
      BY <2>2, <2>5
    <3> QED BY <2>3, <3>1, <3>2 DEF LoopStates
  <2>7. new.pos[dir] = EndOfItem(item) /\ \A d \in Directions \ {dir} : new.pos[d] = st.pos[d]
    BY <1>7, <2>3
  <2>8. EndOfItem(item) = PosAt(items, k, fill)
    <3>1. k # 0 /\ (IF fill THEN k ELSE 1) = k
      BY <1>3, <1>5, <1>9
    <3> QED BY <3>1 DEF PosAt, item
  <2>9. Of(new.out, s) = said[k]
    <3>1. k = 1 \/ fill
      BY <1>5, <1>9
    <3>2. said[k] = said[c] \o item.data
      BY <1>8, <3>1
    <3> QED BY <1>1, <1>4, <2>2, <2>5, <3>2
  <2>10. InStep(new, dir, s, items, at, i + 1, fill, said)
    <3>1. k \in 0 .. Len(items)
      BY <1>2
    <3> QED BY <1>3, <2>7, <2>8, <2>9, <3>1 DEF InStep
  <2>11. Len(new.out) = Len(st.out) + (Reach(new.pos[dir], items) - Reach(p, items))
    <3> DEFINE e == EndOfItem(item)
               q == item.rel_seq
               l == Len(st.out)
    <3>1. Len(new.out) = l + gap + (e - q)
      BY <2>2, <2>5
    <3>2. e \in Nat /\ q \in Nat /\ l \in Nat /\ e # None
      <4>1. None \notin Nat
        BY DEF None
      <4> QED BY <1>4, <1>7, <4>1
    <3>3. CASE c = 0
      <4>1. gap = 0 /\ Reach(p, items) = 0
        BY <1>5, <3>3 DEF GapTo, gap, Reach
      <4>2. items[1].rel_seq = q
        BY <1>5, <3>3 DEF item
      <4>3. Reach(new.pos[dir], items) = e - q
        BY <2>7, <3>2, <4>2 DEF Reach
      <4> HIDE DEF e, q, l
      <4>4. Len(new.out) = l + (Reach(new.pos[dir], items) - Reach(p, items))
        BY <3>1, <3>2, <4>1, <4>3
      <4> QED BY <4>4 DEF l
    <3>4. CASE c # 0
      <4> DEFINE a == items[1].rel_seq
      <4>1. p \in Nat /\ p # None /\ a \in Nat
        BY <1>6, <3>4
      <4>2. gap = q - p /\ Reach(p, items) = p - a
        BY <4>1 DEF GapTo, gap, Reach
      <4>3. Reach(new.pos[dir], items) = e - a
        BY <2>7, <3>2 DEF Reach
      <4> HIDE DEF e, q, l, a, p
      <4>4. Len(new.out) = l + (Reach(new.pos[dir], items) - Reach(p, items))
        BY <3>1, <3>2, <4>1, <4>2, <4>3
      <4> QED BY <4>4 DEF l
    <3> QED BY <3>3, <3>4
  <2>12. Advanced(st, new, dir, s, items)
    BY <2>2, <2>5, <2>7, <2>11 DEF Advanced
  <2> QED BY <2>6, <2>10, <2>12 DEF new, item
<1>10. CASE c # 0 /\ ~ fill
  <2>1. new = st
    <3>1. fill = FALSE
      BY <1>10
    <3>2. st.pos[item.dir] # None /\ st.pos[item.dir] < item.rel_seq
      BY <1>4, <1>6, <1>10
    <3>3. MergeItem(st, item, FALSE) = st
      <4> HIDE DEF item
      <4> QED BY <1>4, <3>2, RoundSkipped
    <3> QED BY <3>1, <3>3
  <2> HIDE DEF new
  <2>2. PosAt(items, k, fill) = PosAt(items, c, fill)
    BY <1>2, <1>3, <1>10 DEF PosAt
  <2>3. said[k] = said[c]
    <3>1. ~ (k = 1 \/ fill)
      BY <1>2, <1>3, <1>10
    <3> QED BY <1>8, <3>1
  <2>4. InStep(new, dir, s, items, at, i + 1, fill, said)
    <3>1. k \in 0 .. Len(items)
      BY <1>2
    <3> QED BY <1>1, <1>3, <2>1, <2>2, <2>3, <3>1 DEF InStep
  <2>5. Advanced(st, new, dir, s, items)
    <3>1. Reach(p, items) \in Int
      BY <1>6, <1>10 DEF Reach
    <3>2. Len(st.out) = Len(st.out) + (Reach(p, items) - Reach(p, items))
      BY <1>7, <3>1
    <3> QED BY <2>1, <3>2 DEF Advanced
  <2> QED BY <2>1, <2>4, <2>5 DEF new
<1> QED BY <1>9, <1>10

LEMMA ReachIs ==
  ASSUME NEW items, NEW dir, NEW s, InRow(items, dir, s),
         NEW c \in 0 .. Len(items), NEW fill \in BOOLEAN
  PROVE  Reach(PosAt(items, c, fill), items) \in Int
<1>1. /\ Len(items) \in Nat
      /\ \A k \in 1 .. Len(items) :
           items[k].rel_seq \in Nat /\ EndOfItem(items[k]) \in Nat
  BY RowRises
<1>2. CASE c = 0
  BY <1>2 DEF PosAt, Reach
<1>3. CASE c # 0
  <2> DEFINE j == IF fill THEN c ELSE 1
  <2>1. j \in 1 .. Len(items) /\ 1 \in 1 .. Len(items)
    BY <1>1, <1>3
  <2>2. PosAt(items, c, fill) = EndOfItem(items[j])
    BY <1>3 DEF PosAt
  <2> HIDE DEF j
  <2>3. PosAt(items, c, fill) \in Nat /\ items[1].rel_seq \in Nat
    BY <1>1, <2>1, <2>2
  <2> QED BY <2>3 DEF Reach
<1> QED BY <1>2, <1>3

(* What holds after i rounds, and after one more.                          *)
AtRound(st, x, y, atx, aty, i, fill, sx, sy) ==
  /\ st \in LoopStates
  /\ InStep(st, "c2s", 1, x, atx, i, fill, sx)
  /\ InStep(st, "s2c", 2, y, aty, i, fill, sy)
  /\ Len(st.out) = Reach(st.pos["c2s"], x) + Reach(st.pos["s2c"], y)

LEMMA RoundStep ==
  ASSUME NEW x, NEW y, InRow(x, "c2s", 1), InRow(y, "s2c", 2),
         NEW fill \in BOOLEAN, NEW sx, NEW sy, Told(x, fill, sx), Told(y, fill, sy),
         NEW M, Len(M) \in Nat, NEW atx, NEW aty, Placed(x, M, atx), Placed(y, M, aty),
         \A i \in 1 .. Len(M) : \/ \E k \in 1 .. Len(x) : atx[k] = i
                                \/ \E k \in 1 .. Len(y) : aty[k] = i,
         NEW i \in 0 .. Len(M) - 1, NEW st,
         AtRound(st, x, y, atx, aty, i, fill, sx, sy)
  PROVE  AtRound(MergeItem(st, M[i + 1], fill), x, y, atx, aty, i + 1, fill, sx, sy)
<1> DEFINE new == MergeItem(st, M[i + 1], fill)
<1>1. /\ st \in LoopStates
      /\ InStep(st, "c2s", 1, x, atx, i, fill, sx)
      /\ InStep(st, "s2c", 2, y, aty, i, fill, sy)
      /\ Len(st.out) = Reach(st.pos["c2s"], x) + Reach(st.pos["s2c"], y)
  BY DEF AtRound
<1>2. Len(x) \in Nat /\ Len(y) \in Nat
  BY RowRises
<1>3. /\ "c2s" \in Directions /\ "s2c" \in Directions /\ "c2s" # "s2c"
      /\ 1 \in Senders /\ 2 \in Senders
  BY DEF Directions, Senders
<1>4. /\ \A k \in 1 .. Len(x) : M[atx[k]] = x[k] /\ x[k].dir = "c2s"
      /\ \A k \in 1 .. Len(y) : M[aty[k]] = y[k] /\ y[k].dir = "s2c"
  BY DEF Placed, InRow
<1>5. i + 1 \in 1 .. Len(M)
  OBVIOUS
<1>6. /\ Reach(st.pos["c2s"], x) \in Int /\ Reach(st.pos["s2c"], y) \in Int
  <2>1. PICK c \in 0 .. Len(x) : st.pos["c2s"] = PosAt(x, c, fill)
    BY <1>1 DEF InStep
  <2>2. PICK d \in 0 .. Len(y) : st.pos["s2c"] = PosAt(y, d, fill)
    BY <1>1 DEF InStep
  <2>3. Reach(PosAt(x, c, fill), x) \in Int /\ Reach(PosAt(y, d, fill), y) \in Int
    BY ReachIs
  <2> QED BY <2>1, <2>2, <2>3
<1>7. CASE \E k \in 1 .. Len(x) : atx[k] = i + 1
  <2>1. PICK k \in 1 .. Len(x) : atx[k] = i + 1
    BY <1>7
  <2>2. M[i + 1] = x[k]
    BY <1>4, <2>1
  <2>3. \A j \in 1 .. Len(y) : aty[j] # i + 1
    BY <1>3, <1>4, <2>2
  <2>4. /\ MergeItem(st, x[k], fill) \in LoopStates
        /\ InStep(MergeItem(st, x[k], fill), "c2s", 1, x, atx, i + 1, fill, sx)
        /\ Advanced(st, MergeItem(st, x[k], fill), "c2s", 1, x)
    BY <1>1, <1>3, <2>1, OwnRound
  <2>5. /\ new \in LoopStates
        /\ InStep(new, "c2s", 1, x, atx, i + 1, fill, sx)
        /\ Advanced(st, new, "c2s", 1, x)
    BY <2>2, <2>4
  <2> HIDE DEF new
  <2>6. /\ new.pos["s2c"] = st.pos["s2c"] /\ Of(new.out, 2) = Of(st.out, 2)
        /\ Len(new.out) = Len(st.out) + (Reach(new.pos["c2s"], x) - Reach(st.pos["c2s"], x))
    BY <1>3, <2>5 DEF Advanced
  <2>7. InStep(new, "s2c", 2, y, aty, i + 1, fill, sy)
    BY <1>1, <1>2, <2>3, <2>6, OtherRound
  <2>8. Reach(new.pos["c2s"], x) \in Int
    <3>1. PICK c \in 0 .. Len(x) : new.pos["c2s"] = PosAt(x, c, fill)
      BY <2>5 DEF InStep
    <3>2. Reach(PosAt(x, c, fill), x) \in Int
      BY ReachIs
    <3> QED BY <3>1, <3>2
  <2>9. Len(new.out) = Reach(new.pos["c2s"], x) + Reach(new.pos["s2c"], y)
    BY <1>1, <1>6, <2>6, <2>8
  <2> QED BY <2>5, <2>7, <2>9 DEF AtRound, new
<1>8. CASE \E k \in 1 .. Len(y) : aty[k] = i + 1
  <2>1. PICK k \in 1 .. Len(y) : aty[k] = i + 1
    BY <1>8
  <2>2. M[i + 1] = y[k]
    BY <1>4, <2>1
  <2>3. \A j \in 1 .. Len(x) : atx[j] # i + 1
    BY <1>3, <1>4, <2>2
  <2>4. /\ MergeItem(st, y[k], fill) \in LoopStates
        /\ InStep(MergeItem(st, y[k], fill), "s2c", 2, y, aty, i + 1, fill, sy)
        /\ Advanced(st, MergeItem(st, y[k], fill), "s2c", 2, y)
    BY <1>1, <1>3, <2>1, OwnRound
  <2>5. /\ new \in LoopStates
        /\ InStep(new, "s2c", 2, y, aty, i + 1, fill, sy)
        /\ Advanced(st, new, "s2c", 2, y)
    BY <2>2, <2>4
  <2> HIDE DEF new
  <2>6. /\ new.pos["c2s"] = st.pos["c2s"] /\ Of(new.out, 1) = Of(st.out, 1)
        /\ Len(new.out) = Len(st.out) + (Reach(new.pos["s2c"], y) - Reach(st.pos["s2c"], y))
    BY <1>3, <2>5 DEF Advanced
  <2>7. InStep(new, "c2s", 1, x, atx, i + 1, fill, sx)
    BY <1>1, <1>2, <2>3, <2>6, OtherRound
  <2>8. Reach(new.pos["s2c"], y) \in Int
    <3>1. PICK c \in 0 .. Len(y) : new.pos["s2c"] = PosAt(y, c, fill)
      BY <2>5 DEF InStep
    <3>2. Reach(PosAt(y, c, fill), y) \in Int
      BY ReachIs
    <3> QED BY <3>1, <3>2
  <2>9. Len(new.out) = Reach(new.pos["c2s"], x) + Reach(new.pos["s2c"], y)
    BY <1>1, <1>6, <2>6, <2>8
  <2> QED BY <2>5, <2>7, <2>9 DEF AtRound, new
<1> QED BY <1>5, <1>7, <1>8

(* After the last round all items are passed.                              *)
Finished(out, x, y, fill, sx, sy) ==
  /\ Of(out, 1) = sx[Len(x)]
  /\ Of(out, 2) = sy[Len(y)]
  /\ Len(out) = Reach(PosAt(x, Len(x), fill), x) + Reach(PosAt(y, Len(y), fill), y)

LEMMA AllPassed ==
  ASSUME NEW items, NEW M, NEW at, Len(items) \in Nat, Placed(items, M, at),
         NEW st, NEW dir, NEW s, NEW fill, NEW said,
         InStep(st, dir, s, items, at, Len(M), fill, said)
  PROVE  /\ st.pos[dir] = PosAt(items, Len(items), fill)
         /\ Of(st.out, s) = said[Len(items)]
<1>1. PICK c \in 0 .. Len(items) : /\ Passed(items, at, Len(M), c)
                                   /\ st.pos[dir] = PosAt(items, c, fill)
                                   /\ Of(st.out, s) = said[c]
  BY DEF InStep
<1> DEFINE n == Len(items)
<1>2. c = n
  <2> SUFFICES ASSUME c # n PROVE FALSE
    OBVIOUS
  <2>1. n \in 1 .. n /\ ~ (n <= c)
    OBVIOUS
  <2>2. at[n] \in 1 .. Len(M)
    <3>1. at \in [1 .. n -> 1 .. Len(M)]
      BY DEF Placed
    <3> HIDE DEF n
    <3> QED BY <2>1, <3>1
  <2>3. at[n] <= Len(M)
    BY <2>2
  <2> QED BY <1>1, <2>1, <2>3 DEF Passed
<1> QED BY <1>1, <1>2

LEMMA LoopIs ==
  ASSUME NEW x, NEW y, InRow(x, "c2s", 1), InRow(y, "s2c", 2),
         NEW fill \in BOOLEAN, NEW sx, NEW sy, Told(x, fill, sx), Told(y, fill, sy),
         NEW f, Rounds(OutputOrder(Both(x, y)), fill, f, Len(x) + Len(y))
  PROVE  Finished(f[Len(x) + Len(y)].out, x, y, fill, sx, sy)
<1> DEFINE M == OutputOrder(Both(x, y))
           n == Len(x) + Len(y)
<1>1. /\ Len(M) = n /\ Len(M) \in Nat
      /\ \E atx, aty : /\ Placed(x, M, atx) /\ Placed(y, M, aty)
                       /\ \A i \in 1 .. Len(M) :
                            \/ \E k \in 1 .. Len(x) : atx[k] = i
                            \/ \E k \in 1 .. Len(y) : aty[k] = i
  <2>1. M = OutputOrder(Both(x, y))
    OBVIOUS
  <2> HIDE DEF M
  <2> QED BY <2>1, MergedAre
<1>2. PICK atx, aty : /\ Placed(x, M, atx) /\ Placed(y, M, aty)
                      /\ \A i \in 1 .. Len(M) :
                           \/ \E k \in 1 .. Len(x) : atx[k] = i
                           \/ \E k \in 1 .. Len(y) : aty[k] = i
  BY <1>1
<1>3. Len(x) \in Nat /\ Len(y) \in Nat
  BY RowRises
<1>4. f = [i \in 0 .. n |-> IF i = 0 THEN LoopStart ELSE MergeItem(f[i - 1], M[i], fill)]
  BY DEF Rounds
<1> HIDE DEF M, n
<1>5. n \in Nat /\ f[0] = LoopStart
  BY <1>1, <1>4
<1>6. ASSUME NEW i \in 0 .. n - 1 PROVE f[i + 1] = MergeItem(f[i], M[i + 1], fill)
  <2>1. i + 1 \in 0 .. n /\ i + 1 # 0 /\ (i + 1) - 1 = i
    BY <1>5
  <2>2. f[i + 1] = IF i + 1 = 0 THEN LoopStart ELSE MergeItem(f[(i + 1) - 1], M[i + 1], fill)
    BY <1>4, <2>1
  <2> QED BY <2>1, <2>2
<1> DEFINE T == {i \in 0 .. n : AtRound(f[i], x, y, atx, aty, i, fill, sx, sy)}
<1>7. 0 \in T
  <2>1. LoopStart \in LoopStates
    BY DEF LoopStart, LoopStates, NoBytes
  <2>2. /\ LoopStart.pos["c2s"] = None /\ LoopStart.pos["s2c"] = None
        /\ LoopStart.out = << >>
    BY DEF LoopStart, Directions, NoBytes
  <2>3. \A s \in Senders : Of(<< >>, s) = << >>
    <3>1. << >> \in Seq(AnyByte) /\ \A i \in 1 .. Len(<< >>) : FALSE
      OBVIOUS
    <3> QED BY <3>1, OfOthers
  <2>4. InStep(LoopStart, "c2s", 1, x, atx, 0, fill, sx)
    <3>1. Passed(x, atx, 0, 0)
      <4>1. atx \in [1 .. Len(x) -> 1 .. Len(M)]
        BY <1>2 DEF Placed
      <4>2. ASSUME NEW k \in 1 .. Len(x) PROVE ~ (atx[k] <= 0) /\ ~ (k <= 0)
        <5>1. atx[k] \in 1 .. Len(M)
          BY <4>1
        <5> QED BY <1>1, <1>3, <5>1
      <4> QED BY <4>2 DEF Passed
    <3>2. sx[0] = << >> /\ Of(LoopStart.out, 1) = << >>
      BY <2>2, <2>3 DEF Told, Senders
    <3> QED BY <1>3, <2>2, <3>1, <3>2 DEF InStep, PosAt
  <2>5. InStep(LoopStart, "s2c", 2, y, aty, 0, fill, sy)
    <3>1. Passed(y, aty, 0, 0)
      <4>1. aty \in [1 .. Len(y) -> 1 .. Len(M)]
        BY <1>2 DEF Placed
      <4>2. ASSUME NEW k \in 1 .. Len(y) PROVE ~ (aty[k] <= 0) /\ ~ (k <= 0)
        <5>1. aty[k] \in 1 .. Len(M)
          BY <4>1
        <5> QED BY <1>1, <1>3, <5>1
      <4> QED BY <4>2 DEF Passed
    <3>2. sy[0] = << >> /\ Of(LoopStart.out, 2) = << >>
      BY <2>2, <2>3 DEF Told, Senders
    <3> QED BY <1>3, <2>2, <3>1, <3>2 DEF InStep, PosAt
  <2>6. Len(LoopStart.out) = Reach(LoopStart.pos["c2s"], x) + Reach(LoopStart.pos["s2c"], y)
    BY <2>2 DEF Reach
  <2>7. AtRound(f[0], x, y, atx, aty, 0, fill, sx, sy)
    BY <1>5, <2>1, <2>4, <2>5, <2>6 DEF AtRound
  <2> QED BY <1>5, <2>7
<1>8. ASSUME NEW i \in 0 .. n - 1, i \in T PROVE i + 1 \in T
  <2>1. AtRound(f[i], x, y, atx, aty, i, fill, sx, sy) /\ i \in 0 .. Len(M) - 1
    BY <1>1, <1>8
  <2>2. AtRound(MergeItem(f[i], M[i + 1], fill), x, y, atx, aty, i + 1, fill, sx, sy)
    BY <1>1, <1>2, <2>1, RoundStep
  <2>3. AtRound(f[i + 1], x, y, atx, aty, i + 1, fill, sx, sy)
    BY <1>6, <2>2
  <2>4. i + 1 \in 0 .. n
    BY <1>5
  <2> QED BY <2>3, <2>4
<1>9. \A i \in 0 .. n : i \in T
  <2> HIDE DEF T
  <2> QED BY <1>5, <1>7, <1>8, StepByStep
<1>10. AtRound(f[n], x, y, atx, aty, Len(M), fill, sx, sy)
  <2>1. n \in T
    <3> HIDE DEF T
    <3> QED BY <1>5, <1>9
  <2> QED BY <1>1, <2>1
<1>11. /\ InStep(f[n], "c2s", 1, x, atx, Len(M), fill, sx)
       /\ InStep(f[n], "s2c", 2, y, aty, Len(M), fill, sy)
       /\ Len(f[n].out) = Reach(f[n].pos["c2s"], x) + Reach(f[n].pos["s2c"], y)
  BY <1>10 DEF AtRound
<1>12. /\ f[n].pos["c2s"] = PosAt(x, Len(x), fill) /\ Of(f[n].out, 1) = sx[Len(x)]
       /\ f[n].pos["s2c"] = PosAt(y, Len(y), fill) /\ Of(f[n].out, 2) = sy[Len(y)]
  BY <1>2, <1>3, <1>11, AllPassed
<1> QED BY <1>11, <1>12 DEF Finished, n
-----------------------------------------------------------------------------
(* What a connection's output is made of.                                  *)
LEMMA OutputIs ==
  ASSUME MergeInv, NEW fill \in BOOLEAN, NEW sx, NEW sy,
         Told(Items(conn.c2s, "c2s"), fill, sx), Told(Items(conn.s2c, "s2c"), fill, sy)
  PROVE  Finished(MergedData(conn, fill), Items(conn.c2s, "c2s"),
                  Items(conn.s2c, "s2c"), fill, sx, sy)
<1> DEFINE x == Items(conn.c2s, "c2s")
           y == Items(conn.s2c, "s2c")
           n == Len(x) + Len(y)
<1>1. InRow(x, "c2s", 1) /\ InRow(y, "s2c", 2)
  <2>1. Kept(conn.c2s, 1) /\ Kept(conn.s2c, 2)
    BY DEF MergeInv
  <2>2. 1 \in Senders /\ 2 \in Senders /\ "c2s" \in Directions /\ "s2c" \in Directions
    BY DEF Senders, Directions
  <2> QED BY <2>1, <2>2, ItemsInRow
<1>2. MergedItems(conn) = OutputOrder(Both(x, y))
  BY Zenon DEF MergedItems, OutputOrder, Both
<1> HIDE DEF x, y
<1>3. Len(OutputOrder(Both(x, y))) = n /\ n \in Nat
  <2>1. Len(x) \in Nat /\ Len(y) \in Nat
    BY <1>1, RowRises
  <2> QED BY <1>1, <2>1, MergedAre
<1>4. \E f : Rounds(MergedItems(conn), fill, f, n) /\ MergedData(conn, fill) = f[n].out
  <2> HIDE DEF n
  <2> QED BY <1>2, <1>3, MergedDataIs
<1>5. PICK f : Rounds(MergedItems(conn), fill, f, n) /\ MergedData(conn, fill) = f[n].out
  BY <1>4
<1>6. Told(x, fill, sx) /\ Told(y, fill, sy)
  BY DEF x, y
<1>7. Finished(f[n].out, x, y, fill, sx, sy)
  BY <1>1, <1>2, <1>5, <1>6, LoopIs
<1> QED BY <1>5, <1>7 DEF x, y

(* The bytes of a direction's items are the bytes the direction holds.     *)
Datas(items) == [k \in 1 .. Len(items) |-> items[k].data]

SegmentBytes(b) ==
  LET segs == Segments(b.segments) IN [i \in DOMAIN segs |-> segs[i].data]

LEMMA SegmentBytesAre ==
  ASSUME NEW s \in Senders, NEW b, Kept(b, s)
  PROVE  /\ Len(Segments(b.segments)) \in Nat
         /\ DOMAIN Segments(b.segments) = 1 .. Len(Segments(b.segments))
         /\ SegmentBytes(b) \in Seq(Seq(SentBytes))
         /\ Len(SegmentBytes(b)) = Len(Segments(b.segments))
         /\ \A i \in 1 .. Len(Segments(b.segments)) :
              /\ Segments(b.segments)[i].rel_seq \in Nat
              /\ SegmentBytes(b)[i] = Segments(b.segments)[i].data
<1> DEFINE held == b.segments
           n    == Cardinality(RunStarts(held))
           segs == Segments(held)
<1>1. /\ held \in HeldBytes /\ n \in Nat
      /\ \A p \in DOMAIN held : held[p] = <<s, p>>
  BY StartsAre DEF Kept, Buffers
<1>2. /\ Len(segs) = n /\ DOMAIN segs = 1 .. n
      /\ \A i \in 1 .. n : /\ segs[i].rel_seq = StartOf(held, i)
                           /\ segs[i].data = Slice(held, StartOf(held, i), EndOf(held, i))
  <2>1. segs = [i \in 1 .. n |-> [rel_seq |-> StartOf(held, i),
                 data |-> Slice(held, StartOf(held, i), EndOf(held, i))]]
    BY SegmentsAre
  <2> HIDE DEF segs, n
  <2> QED BY <1>1, <2>1
<1>3. SegmentBytes(b) = [i \in DOMAIN segs |-> segs[i].data]
  BY DEF SegmentBytes
<1> HIDE DEF segs, n, held
<1>4. ASSUME NEW i \in 1 .. n
      PROVE  StartOf(held, i) \in Nat /\ segs[i].data \in Seq(SentBytes)
  <2>1. /\ StartOf(held, i) \in Nat /\ EndOf(held, i) \in Nat
        /\ StartOf(held, i) < EndOf(held, i)
        /\ \A k \in StartOf(held, i) .. EndOf(held, i) - 1 : k \in DOMAIN held
    BY <1>1, SegmentsApart DEF n
  <2>2. segs[i].data = Stretch(s, StartOf(held, i), EndOf(held, i))
    <3> DEFINE a == StartOf(held, i)
               e == EndOf(held, i)
    <3>1. a \in Nat /\ e \in Nat /\ \A k \in a .. e - 1 : k \in DOMAIN held
      BY <2>1
    <3>2. segs[i].data = Slice(held, a, e)
      BY <1>2
    <3> HIDE DEF a, e
    <3>3. Slice(held, a, e) = Stretch(s, a, e)
      BY <1>1, <3>1, SliceIs
    <3> QED BY <3>2, <3>3 DEF a, e
  <2>3. StartOf(held, i) <= EndOf(held, i)
    BY <2>1
  <2> QED BY <2>1, <2>2, <2>3, StretchType
<1>5. SegmentBytes(b) \in [1 .. n -> Seq(SentBytes)]
  BY <1>2, <1>3, <1>4
<1>6. SegmentBytes(b) \in Seq(Seq(SentBytes)) /\ Len(SegmentBytes(b)) = n
  BY <1>1, <1>5
<1>7. /\ Len(segs) \in Nat /\ DOMAIN segs = 1 .. Len(segs)
      /\ Len(SegmentBytes(b)) = Len(segs)
      /\ \A i \in 1 .. Len(segs) : /\ segs[i].rel_seq \in Nat
                                   /\ SegmentBytes(b)[i] = segs[i].data
  BY <1>1, <1>2, <1>3, <1>4, <1>6
<1> QED BY <1>6, <1>7 DEF segs, held

LEMMA DatasAre ==
  ASSUME NEW s \in Senders, NEW b, Kept(b, s), NEW dir \in Directions
  PROVE  /\ Datas(Items(b, dir)) \in Seq(Seq(SentBytes))
         /\ Len(Datas(Items(b, dir))) = Len(Items(b, dir))
         /\ b.contiguous \o FlattenSeq(SegmentBytes(b)) = FlattenSeq(Datas(Items(b, dir)))
         /\ b.contiguous # NoBytes =>
              1 \in 1 .. Len(Items(b, dir)) /\ Items(b, dir)[1].data = b.contiguous
<1> DEFINE segs == Segments(b.segments)
           n    == Len(segs)
           sd   == SegmentBytes(b)
           tail == [i \in 1 .. n |-> [dir |-> dir, rel_seq |-> segs[i].rel_seq,
                                      ready |-> FALSE, data |-> segs[i].data]]
           first == [dir |-> dir, rel_seq |-> b.next_seq - Len(b.contiguous),
                     ready |-> TRUE, data |-> b.contiguous]
           items == Items(b, dir)
<1>1. /\ n \in Nat /\ sd \in Seq(Seq(SentBytes)) /\ Len(sd) = n
      /\ \A i \in 1 .. n : segs[i].rel_seq \in Nat /\ sd[i] = segs[i].data
  BY SegmentBytesAre
<1>2. items = (IF b.contiguous = NoBytes THEN << >> ELSE <<first>>) \o tail
  BY Zenon DEF Items
<1>3. items \in Seq(ItemType) /\ Len(items) \in Nat
  <2>1. InRow(items, dir, s)
    BY ItemsInRow
  <2> HIDE DEF items
  <2> QED BY <2>1, LenProperties DEF InRow
<1>4. b.contiguous \in Seq(SentBytes)
  BY DEF Kept, Buffers
<1> HIDE DEF segs, n, sd, items
<1>5. \A i \in 1 .. n : sd[i] \in Seq(SentBytes)
  BY <1>1, ElementOfSeq
<1>6. /\ tail \in Seq(ItemType) /\ Len(tail) = n
      /\ \A i \in 1 .. n : tail[i].data = sd[i]
  <2>1. ASSUME NEW i \in 1 .. n PROVE tail[i] \in ItemType /\ tail[i].data = sd[i]
    BY <1>1, <1>5 DEF ItemType
  <2>2. tail \in [1 .. n -> ItemType]
    BY <2>1
  <2> QED BY <1>1, <2>1, <2>2
<1> HIDE DEF tail
<1>7. /\ Datas(items) \in Seq(Seq(SentBytes)) /\ Len(Datas(items)) = Len(items)
      /\ \A k \in 1 .. Len(items) : Datas(items)[k] = items[k].data
  <2>0. \A k \in 1 .. Len(items) : items[k] \in ItemType
    BY <1>3, ElementOfSeq
  <2>1. \A k \in 1 .. Len(items) : items[k].data \in Seq(SentBytes)
    BY <2>0 DEF ItemType
  <2>2. Datas(items) \in [1 .. Len(items) -> Seq(SentBytes)]
    BY <2>1 DEF Datas
  <2> QED BY <1>3, <2>2 DEF Datas
<1>8. CASE b.contiguous = NoBytes
  <2>1. items = tail
    BY <1>2, <1>6, <1>8, ConcatEmptySeq
  <2>2. Len(Datas(items)) = Len(sd) /\ \A k \in 1 .. Len(Datas(items)) : Datas(items)[k] = sd[k]
    BY <1>1, <1>6, <1>7, <2>1
  <2>3. Datas(items) = sd
    BY <1>1, <1>7, <2>2, SeqEqual
  <2>4. FlattenSeq(sd) \in Seq(SentBytes)
    BY <1>1, FlattenConcat
  <2>5. b.contiguous \o FlattenSeq(sd) = FlattenSeq(sd)
    BY <1>8, <2>4, ConcatEmptySeq DEF NoBytes
  <2> QED BY <1>7, <1>8, <2>3, <2>5 DEF items, sd
<1>9. CASE b.contiguous # NoBytes
  <2> DEFINE one == <<first>>
             head == <<b.contiguous>>
  <2>1. items = one \o tail
    BY <1>2, <1>9
  <2>2. first.data = b.contiguous
    OBVIOUS
  <2>3. Len(b.contiguous) \in Nat
    BY <1>4, LenProperties
  <2>4. items[1] = first /\ Len(items) = 1 + n /\ \A k \in 2 .. 1 + n : items[k] = tail[k - 1]
    <3> DEFINE S == ItemType \cup {first}
    <3> HIDE DEF first
    <3>1. one \in Seq(S) /\ Len(one) = 1 /\ one[1] = first
      OBVIOUS
    <3>2. tail \in Seq(S)
      <4>1. ItemType \subseteq S
        OBVIOUS
      <4> HIDE DEF S
      <4> QED BY <1>1, <1>6, <4>1
    <3> HIDE DEF S, one
    <3>3. /\ Len(one \o tail) = Len(one) + Len(tail)
          /\ \A k \in 1 .. Len(one) + Len(tail) :
               (one \o tail)[k] = IF k <= Len(one) THEN one[k] ELSE tail[k - Len(one)]
      BY <3>1, <3>2, ConcatProperties
    <3>4. /\ Len(items) = 1 + n
          /\ \A k \in 1 .. 1 + n : items[k] = IF k <= 1 THEN one[k] ELSE tail[k - 1]
      BY <1>6, <2>1, <3>1, <3>3
    <3> QED BY <1>1, <3>1, <3>4
  <2> HIDE DEF first
  <2>5. head \in Seq(Seq(SentBytes)) /\ Len(head) = 1 /\ head[1] = b.contiguous
    BY <1>4
  <2>6. /\ head \o sd \in Seq(Seq(SentBytes)) /\ Len(head \o sd) = 1 + n
        /\ \A k \in 1 .. 1 + n : (head \o sd)[k] = IF k <= 1 THEN head[k] ELSE sd[k - 1]
    <3> HIDE DEF head
    <3>1. /\ head \o sd \in Seq(Seq(SentBytes)) /\ Len(head \o sd) = Len(head) + Len(sd)
          /\ \A k \in 1 .. Len(head) + Len(sd) :
               (head \o sd)[k] = IF k <= Len(head) THEN head[k] ELSE sd[k - Len(head)]
      BY <1>1, <2>5, ConcatProperties
    <3> QED BY <1>1, <2>5, <3>1
  <2>7. FlattenSeq(head) = b.contiguous
    BY <1>4, FlattenOne
  <2> HIDE DEF head
  <2>8. ASSUME NEW k \in 1 .. 1 + n PROVE Datas(items)[k] = (head \o sd)[k]
    <3>1. CASE k = 1
      BY <1>1, <1>7, <2>2, <2>4, <2>5, <2>6, <3>1
    <3>2. CASE k # 1
      <4>1. k - 1 \in 1 .. n /\ k \in 2 .. 1 + n /\ ~ (k <= 1)
        BY <1>1, <3>2
      <4>2. items[k] = tail[k - 1]
        BY <2>4, <4>1
      <4>3. items[k].data = sd[k - 1]
        BY <1>6, <4>1, <4>2
      <4> QED BY <1>7, <2>4, <2>6, <4>1, <4>3
    <3> QED BY <3>1, <3>2
  <2>9. Datas(items) = head \o sd
    <3>1. Len(Datas(items)) = Len(head \o sd)
          /\ \A k \in 1 .. Len(Datas(items)) : Datas(items)[k] = (head \o sd)[k]
      BY <1>7, <2>4, <2>6, <2>8
    <3> QED BY <1>7, <2>6, <3>1, SeqEqual
  <2>10. FlattenSeq(head \o sd) = b.contiguous \o FlattenSeq(sd)
    BY <1>1, <2>5, <2>7, FlattenConcat
  <2>11. 1 \in 1 .. Len(items) /\ items[1].data = b.contiguous
    BY <1>1, <2>2, <2>4
  <2> QED BY <1>7, <2>9, <2>10, <2>11 DEF items, sd
<1> QED BY <1>8, <1>9

(* What is said of a direction: all of it when gaps are filled ...         *)
LEMMA ToldAll ==
  ASSUME NEW items, Len(items) \in Nat, Datas(items) \in Seq(Seq(SentBytes)),
         Len(Datas(items)) = Len(items)
  PROVE  \E said : Told(items, TRUE, said) /\ said[Len(items)] = FlattenSeq(Datas(items))
<1>1. PICK g : Pieced(SentBytes, Datas(items), g)
               /\ FlattenSeq(Datas(items)) = g[Len(Datas(items))]
  BY FlattenIs
<1>2. \A k \in 1 .. Len(items) : Datas(items)[k] = items[k].data
  BY DEF Datas
<1>3. Told(items, TRUE, g)
  BY <1>1, <1>2 DEF Pieced, Told
<1> QED BY <1>1, <1>3

(* ... and the first item alone when they are not.                         *)
LEMMA ToldFirst ==
  ASSUME NEW items, Len(items) \in Nat,
         1 \in 1 .. Len(items), items[1].data \in Seq(SentBytes)
  PROVE  \E said : Told(items, FALSE, said) /\ said[Len(items)] = items[1].data
<1> DEFINE n    == Len(items)
           d    == items[1].data
           said == [k \in 0 .. n |-> IF k = 0 THEN << >> ELSE d]
<1> HIDE DEF d
<1>1. n \in Nat /\ 1 \in 1 .. n /\ d \in Seq(SentBytes)
  BY DEF d
<1> HIDE DEF n
<1>2. said[0] = << >> /\ (\A k \in 1 .. n : said[k] = d) /\ said[n] = d
  BY <1>1
<1>3. said \in [0 .. n -> Seq(SentBytes)]
  <2>1. << >> \in Seq(SentBytes)
    OBVIOUS
  <2> QED BY <1>1, <2>1
<1> HIDE DEF said
<1>4. ASSUME NEW k \in 1 .. n
      PROVE  said[k] = IF k = 1 \/ FALSE THEN said[k - 1] \o items[k].data ELSE said[k - 1]
  <2>1. CASE k = 1
    <3>1. said[k - 1] = << >>
      BY <1>2, <2>1
    <3>2. << >> \o d = d
      BY <1>1, ConcatEmptySeq
    <3>3. items[k].data = d
      BY <2>1 DEF d
    <3> QED BY <1>2, <2>1, <3>1, <3>2, <3>3
  <2>2. CASE k # 1
    <3>1. k - 1 \in 1 .. n
      BY <1>1, <2>2
    <3> QED BY <1>2, <2>2, <3>1
  <2> QED BY <2>1, <2>2
<1>5. Told(items, FALSE, said)
  BY <1>2, <1>3, <1>4 DEF Told, n
<1> QED BY <1>2, <1>5 DEF n, d

(* From the first byte said to the last: as far as the direction reaches.  *)
SpanOf(h) == IF h = NoBytes THEN 0 ELSE h[Len(h)][2] - h[1][2] + 1

LEMMA SpanIs ==
  ASSUME NEW items, NEW dir, NEW s \in Senders, InRow(items, dir, s),
         NEW said, Told(items, TRUE, said)
  PROVE  SpanOf(said[Len(items)]) = Reach(PosAt(items, Len(items), TRUE), items)
<1> DEFINE n == Len(items)
           a == items[1].rel_seq
           Spans(c) == /\ said[c] \in Seq(SentBytes) /\ Len(said[c]) \in Nat \ {0}
                       /\ said[c][1] = <<s, a>>
                       /\ said[c][Len(said[c])] = <<s, EndOfItem(items[c]) - 1>>
           T == {c \in 0 .. n : c # 0 => Spans(c)}
<1>1. /\ n \in Nat
      /\ \A k \in 1 .. n : /\ items[k].rel_seq \in Nat /\ EndOfItem(items[k]) \in Nat
                           /\ items[k].rel_seq < EndOfItem(items[k])
  BY RowRises
<1>2. \A k \in 1 .. n : items[k].data = Stretch(s, items[k].rel_seq, EndOfItem(items[k]))
  BY DEF InRow
<1>3. /\ said \in [0 .. n -> Seq(SentBytes)] /\ said[0] = << >>
      /\ \A k \in 1 .. n : said[k] = said[k - 1] \o items[k].data
  BY DEF Told
<1> HIDE DEF n
<1>4. 0 \in T
  BY <1>1
<1>5. ASSUME NEW c \in 0 .. n - 1, c \in T PROVE c + 1 \in T
  <2> DEFINE k == c + 1
             d == items[k].data
             q == items[k].rel_seq
             e == EndOfItem(items[k])
  <2>1. k \in 1 .. n /\ k \in 0 .. n /\ k - 1 = c /\ c \in 0 .. n /\ k # 0
    BY <1>1
  <2>2. q \in Nat /\ e \in Nat /\ q < e
    BY <1>1, <2>1
  <2>3. d = Stretch(s, q, e)
    BY <1>2, <2>1
  <2>4. said[k] = said[c] \o d /\ said[c] \in Seq(SentBytes)
    <3>1. said[k] = said[k - 1] \o items[k].data
      BY <1>3, <2>1
    <3> QED BY <1>3, <2>1, <3>1
  <2>5. c # 0 => Spans(c)
    BY <1>5
  <2>11. c = 0 => q = a
    OBVIOUS
  <2> HIDE DEF k, d, q, e
  <2>6. /\ d \in Seq(SentBytes) /\ Len(d) = e - q
        /\ d[1] = <<s, q>> /\ d[e - q] = <<s, e - 1>>
    <3>1. q <= e /\ 1 \in 1 .. e - q /\ e - q \in 1 .. e - q
          /\ q + 1 - 1 = q /\ q + (e - q) - 1 = e - 1
      BY <2>2
    <3>2. /\ d \in Seq(SentBytes) /\ Len(d) = e - q
          /\ \A i \in 1 .. e - q : d[i] = <<s, q + i - 1>>
      BY <2>2, <2>3, <3>1, StretchType
    <3>3. d[1] = <<s, q + 1 - 1>> /\ d[e - q] = <<s, q + (e - q) - 1>>
      BY <3>1, <3>2
    <3> QED BY <3>1, <3>2, <3>3
  <2>7. CASE c = 0
    <3>1. said[k] = d
      BY <1>3, <2>4, <2>6, <2>7, ConcatEmptySeq
    <3>2. Len(d) \in Nat \ {0}
      BY <2>2, <2>6
    <3>3. Spans(k)
      BY <2>6, <2>7, <2>11, <3>1, <3>2 DEF e
    <3> QED BY <2>1, <3>3 DEF k
  <2>8. CASE c # 0
    <3> DEFINE l == Len(said[c])
    <3>1. Spans(c)
      BY <2>5, <2>8
    <3>2. l \in Nat /\ l # 0 /\ said[c][1] = <<s, a>>
      BY <3>1
    <3>3. /\ said[c] \o d \in Seq(SentBytes)
          /\ Len(said[c] \o d) = l + (e - q)
          /\ \A i \in 1 .. l + (e - q) :
               (said[c] \o d)[i] = IF i <= l THEN said[c][i] ELSE d[i - l]
      <4>1. /\ said[c] \o d \in Seq(SentBytes)
            /\ Len(said[c] \o d) = Len(said[c]) + Len(d)
            /\ \A i \in 1 .. Len(said[c]) + Len(d) :
                 (said[c] \o d)[i] = IF i <= Len(said[c]) THEN said[c][i]
                                     ELSE d[i - Len(said[c])]
        BY <2>4, <2>6, ConcatProperties
      <4> QED BY <2>6, <4>1
    <3> HIDE DEF l
    <3> DEFINE z == said[c] \o d
    <3>4. said[k] = z
      BY <2>4
    <3>5. z[1] = said[c][1]
      <4>1. 1 \in 1 .. l + (e - q) /\ 1 <= l
        BY <2>2, <3>2
      <4> QED BY <3>3, <4>1
    <3>6. z[l + (e - q)] = d[e - q]
      <4>1. /\ l + (e - q) \in 1 .. l + (e - q) /\ ~ (l + (e - q) <= l)
            /\ (l + (e - q)) - l = e - q
        BY <2>2, <3>2
      <4> QED BY <3>3, <4>1
    <3>7. z \in Seq(SentBytes) /\ Len(z) = l + (e - q) /\ l + (e - q) \in Nat \ {0}
      BY <2>2, <3>2, <3>3
    <3> HIDE DEF z
    <3>8. Spans(k)
      BY <2>6, <3>2, <3>4, <3>5, <3>6, <3>7 DEF e
    <3> QED BY <2>1, <3>8 DEF k
  <2> QED BY <2>7, <2>8
<1>6. \A c \in 0 .. n : c \in T
  <2> HIDE DEF T
  <2> QED BY <1>1, <1>4, <1>5, StepByStep
<1>7. CASE n = 0
  <2>1. said[n] = NoBytes
    BY <1>3, <1>7 DEF NoBytes
  <2>2. PosAt(items, n, TRUE) = None
    BY <1>7 DEF PosAt
  <2> QED BY <2>1, <2>2 DEF SpanOf, Reach, n
<1>8. CASE n # 0
  <2> DEFINE h == said[n]
             e == EndOfItem(items[n])
  <2>1. Spans(n)
    <3>1. n \in T
      <4> HIDE DEF T
      <4> QED BY <1>1, <1>6
    <3> QED BY <1>8, <3>1
  <2>2. /\ h \in Seq(SentBytes) /\ Len(h) \in Nat \ {0}
        /\ h[1] = <<s, a>> /\ h[Len(h)] = <<s, e - 1>>
    BY <2>1
  <2>3. n \in 1 .. n /\ 1 \in 1 .. n
    BY <1>1, <1>8
  <2>4. a \in Nat /\ e \in Nat
    BY <1>1, <2>3
  <2>5. e # None
    BY <2>4 DEF None
  <2>6. PosAt(items, n, TRUE) = e
    BY <1>8 DEF PosAt
  <2>7. Reach(PosAt(items, n, TRUE), items) = e - a
    BY <2>5, <2>6 DEF Reach
  <2> HIDE DEF h, e, a
  <2>8. h # NoBytes
    BY <2>2 DEF NoBytes
  <2>9. h[Len(h)][2] = e - 1 /\ h[1][2] = a
    BY <2>2
  <2>10. SpanOf(h) = e - a
    BY <2>4, <2>8, <2>9 DEF SpanOf
  <2> QED BY <2>7, <2>10 DEF h, n
<1> QED BY <1>7, <1>8

(* merged_data with gaps filled, of everything a state may hold.           *)
LEMMA FilledIs ==
  ASSUME MergeInv
  PROVE  /\ \A s \in Senders : Of(MergedData(conn, TRUE), s) = HeldBy(s)
         /\ Len(MergedData(conn, TRUE)) = Span(1) + Span(2)
<1> DEFINE b1 == conn.c2s
           b2 == conn.s2c
           x  == Items(b1, "c2s")
           y  == Items(b2, "s2c")
           out == MergedData(conn, TRUE)
<1>1. /\ Kept(b1, 1) /\ Kept(b2, 2) /\ BufferOf(1) = b1 /\ BufferOf(2) = b2
      /\ 1 \in Senders /\ 2 \in Senders /\ Senders = {1, 2}
      /\ "c2s" \in Directions /\ "s2c" \in Directions
  BY BufferIs DEF MergeInv, Senders, Directions
<1>2. InRow(x, "c2s", 1) /\ InRow(y, "s2c", 2)
  BY <1>1, ItemsInRow
<1>3. HeldBy(1) = FlattenSeq(Datas(x)) /\ HeldBy(2) = FlattenSeq(Datas(y))
  <2>1. HeldBy(1) = b1.contiguous \o FlattenSeq(SegmentBytes(b1))
    BY <1>1 DEF HeldBy, SegmentBytes
  <2>2. HeldBy(2) = b2.contiguous \o FlattenSeq(SegmentBytes(b2))
    BY <1>1 DEF HeldBy, SegmentBytes
  <2> QED BY <1>1, <2>1, <2>2, DatasAre
<1>4. /\ Datas(x) \in Seq(Seq(SentBytes)) /\ Len(Datas(x)) = Len(x)
      /\ Datas(y) \in Seq(Seq(SentBytes)) /\ Len(Datas(y)) = Len(y)
  BY <1>1, DatasAre
<1>5. Len(x) \in Nat /\ Len(y) \in Nat
  BY <1>2, RowRises
<1>6. PICK sx : Told(x, TRUE, sx) /\ sx[Len(x)] = FlattenSeq(Datas(x))
  <2> HIDE DEF x
  <2> QED BY <1>4, <1>5, ToldAll
<1>7. PICK sy : Told(y, TRUE, sy) /\ sy[Len(y)] = FlattenSeq(Datas(y))
  <2> HIDE DEF y
  <2> QED BY <1>4, <1>5, ToldAll
<1>8. Finished(out, x, y, TRUE, sx, sy)
  BY <1>6, <1>7, OutputIs
<1> HIDE DEF x, y, out
<1>9. /\ SpanOf(sx[Len(x)]) = Reach(PosAt(x, Len(x), TRUE), x)
      /\ SpanOf(sy[Len(y)]) = Reach(PosAt(y, Len(y), TRUE), y)
  BY <1>1, <1>2, <1>6, <1>7, SpanIs
<1>10. Span(1) = SpanOf(HeldBy(1)) /\ Span(2) = SpanOf(HeldBy(2))
  BY DEF Span, SpanOf
<1>11. Len(out) = Span(1) + Span(2)
  BY <1>3, <1>6, <1>7, <1>8, <1>9, <1>10 DEF Finished
<1>12. Of(out, 1) = HeldBy(1) /\ Of(out, 2) = HeldBy(2)
  BY <1>3, <1>6, <1>7, <1>8 DEF Finished
<1> QED BY <1>1, <1>11, <1>12 DEF out

(* merged_data with gaps left out, of a direction with contiguous bytes.   *)
LEMMA ToldSome ==
  ASSUME NEW s \in Senders, NEW b, Kept(b, s), NEW dir \in Directions
  PROVE  \E said : /\ Told(Items(b, dir), FALSE, said)
                   /\ b.contiguous # NoBytes => said[Len(Items(b, dir))] = b.contiguous
<1> DEFINE x == Items(b, dir)
<1>1. InRow(x, dir, s)
  BY ItemsInRow
<1>2. b.contiguous # NoBytes => 1 \in 1 .. Len(x) /\ x[1].data = b.contiguous
  BY DatasAre
<1> HIDE DEF x
<1>3. Len(x) \in Nat /\ \A k \in 1 .. Len(x) : x[k] \in ItemType
  BY <1>1, RowRises
<1>4. CASE Len(x) = 0
  <2> DEFINE said == [k \in 0 .. 0 |-> << >>]
  <2>1. said \in [0 .. 0 -> Seq(SentBytes)] /\ said[0] = << >>
    <3>1. << >> \in Seq(SentBytes)
      OBVIOUS
    <3> QED BY <3>1
  <2> HIDE DEF said
  <2>2. Told(x, FALSE, said)
    BY <1>4, <2>1 DEF Told
  <2>3. b.contiguous = NoBytes
    BY <1>2, <1>4
  <2> QED BY <2>2, <2>3 DEF x
<1>5. CASE Len(x) # 0
  <2>1. 1 \in 1 .. Len(x)
    BY <1>3, <1>5
  <2>2. x[1].data \in Seq(SentBytes)
    BY <1>3, <2>1 DEF ItemType
  <2>3. PICK said : Told(x, FALSE, said) /\ said[Len(x)] = x[1].data
    BY <1>3, <2>1, <2>2, ToldFirst
  <2> QED BY <1>2, <2>3 DEF x
<1> QED BY <1>4, <1>5

LEMMA TruncatedIs ==
  ASSUME MergeInv
  PROVE  MergeTruncates
<1> DEFINE b1 == conn.c2s
           b2 == conn.s2c
           x  == Items(b1, "c2s")
           y  == Items(b2, "s2c")
           out == MergedData(conn, FALSE)
<1>1. /\ Kept(b1, 1) /\ Kept(b2, 2) /\ BufferOf(1) = b1 /\ BufferOf(2) = b2
      /\ 1 \in Senders /\ 2 \in Senders /\ Senders = {1, 2}
      /\ "c2s" \in Directions /\ "s2c" \in Directions
  BY BufferIs DEF MergeInv, Senders, Directions
<1>2. PICK sx : Told(x, FALSE, sx) /\ (b1.contiguous # NoBytes => sx[Len(x)] = b1.contiguous)
  BY <1>1, ToldSome
<1>3. PICK sy : Told(y, FALSE, sy) /\ (b2.contiguous # NoBytes => sy[Len(y)] = b2.contiguous)
  BY <1>1, ToldSome
<1>4. Finished(out, x, y, FALSE, sx, sy)
  BY <1>2, <1>3, OutputIs
<1> HIDE DEF x, y, out
<1>5. Of(out, 1) = sx[Len(x)] /\ Of(out, 2) = sy[Len(y)]
  BY <1>4 DEF Finished
<1>6. /\ b1.contiguous # NoBytes => Of(out, 1) = b1.contiguous
      /\ b2.contiguous # NoBytes => Of(out, 2) = b2.contiguous
  BY <1>2, <1>3, <1>5
<1> QED BY <1>1, <1>6 DEF MergeTruncates, out
-----------------------------------------------------------------------------
(* merged_data(fill_gaps=True) interleaves the two directions: every byte  *)
(* either of them holds comes out once, in its own direction's order.      *)
THEOREM MergeLosesNothing == Spec => []MergeKeepsAll
<1>1. MergeInv => MergeKeepsAll
  BY FilledIs DEF MergeKeepsAll
<1> QED BY <1>1, MergeInvariant, PTL

(* ... and its zeros are exactly the positions missing between the first   *)
(* and the last byte a direction holds.                                    *)
THEOREM MergeZerosAreGaps == Spec => []MergeFillsGaps
<1>1. MergeInv => MergeFillsGaps
  BY FilledIs DEF MergeFillsGaps
<1> QED BY <1>1, MergeInvariant, PTL

(* merged_data(fill_gaps=False) stops each direction at its own first gap. *)
THEOREM MergeStopsAtGap == Spec => []MergeTruncates
<1>1. MergeInv => MergeTruncates
  BY TruncatedIs
<1> QED BY <1>1, MergeInvariant, PTL
==============================================================================
